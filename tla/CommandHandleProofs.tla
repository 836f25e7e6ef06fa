------------------------ MODULE CommandHandleProofs -------------------------
(***************************************************************************)
(* Type correctness of CommandHandle for every value of its constants.     *)
(*                                                                         *)
(* TypeOK is not inductive: writing a document or an expiry report reads   *)
(* the object a thread holds, so the proof needs that this object is still *)
(* there.  TypeInv adds that whatever a local shared_ptr of a thread       *)
(* reaches is a live object of the thread's own agent, through every       *)
(* removal from the cache, timer handler and crash of another agent.       *)
(***************************************************************************)
EXTENDS CommandHandle, FiniteSetTheorems, TLAPS

(* A heap; a heap in which every object of h is still there, unmoved and   *)
(* as delivered as it was; and one in which nothing is new, in the heap or *)
(* in the cache.                                                           *)
HeapOK(h) == h \in [Obj -> Command \cup {None}]
Keeps(h, g) ==
  \A o \in Obj : h[o] # None =>
    /\ g[o] # None /\ g[o].ag = h[o].ag /\ g[o].req = h[o].req
    /\ h[o].st = DELIVERED => g[o].st = DELIVERED
AddsNothing(h, g) ==
  \A o \in Obj : g[o] # None =>
    /\ h[o] # None /\ g[o].ag = h[o].ag /\ g[o].req = h[o].req
    /\ g[o].cached => h[o].cached

(* o is a live object of agent a. *)
Holds(h, o, a) == o \in Obj /\ h[o] # None /\ h[o].ag = a
(* What the threads (rq, an, lk) hold is live in h. *)
LiveRefs(h, rq, an, lk) ==
  /\ \A r \in Reqs : rq[r].obj # None => Holds(h, rq[r].obj, rq[r].ag)
  /\ \A s \in Answers : an[s].obj # None => Holds(h, an[s].obj, an[s].ag)
  /\ \A a \in Agents : lk[a].obj # None => Holds(h, lk[a].obj, a)

(* Where a handler dereferences its object, it has one. *)
ThreadRefs ==
  /\ \A r \in Reqs : /\ req[r].pc = "saving" => req[r].obj # None
                     /\ req[r].pc # "idle" => req[r].ag # None
  /\ \A s \in Answers : ans[s].pc \in {"got", "removing"} => ans[s].obj # None
  /\ \A a \in Agents : lock[a].pc # "free" => lock[a].obj # None

PollsOK ==
  /\ poll \in [Polls -> PollThread]
  /\ \A p \in Polls : poll[p].pc = "marking" => poll[p].dev # None

TypeInv == TypeOK /\ LiveRefs(heap, req, ans, lock) /\ ThreadRefs

(* insert() keeps every object and the type of the heap. *)
LEMMA InsertLemma ==
  ASSUME NEW h, HeapOK(h), NEW o \in Obj, h[o] # None
  PROVE  HeapOK(Insert(h, o)) /\ Keeps(h, Insert(h, o))
<1>. DEFINE c == h[o].cached \/ {p \in Cached(h, h[o].ag) \ {o} : SeqOf[h[p].req] = SeqOf[h[o].req]} = {}
            m == h[o].armed \/ CommandTimeout > 0
            n == [h[o] EXCEPT !.cached = c, !.armed = m]
<1>1. h[o] \in Command
  BY DEF HeapOK
<1>2. c \in BOOLEAN /\ m \in BOOLEAN
  BY Zenon
<1>3. n \in Command /\ n.ag = h[o].ag /\ n.req = h[o].req /\ n.st = h[o].st
  <2>. HIDE DEF c, m
  <2>. QED BY <1>1, <1>2 DEF Command
<1>4. n # None
  BY <1>3, NoneAssumption
<1>5. CASE HasRoom(h, h[o].ag)
  <2>1. Insert(h, o) = [h EXCEPT ![o] = n]
    BY <1>5, <1>1 DEF Insert, HeapOK, Command
  <2>. HIDE DEF n
  <2>. QED BY <2>1, <1>3, <1>4 DEF HeapOK, Keeps
<1>6. CASE ~HasRoom(h, h[o].ag)
  BY <1>6 DEF Insert, Keeps
<1>. QED BY <1>5, <1>6



(* A new command object goes to a free address and moves no other. *)
LEMMA NewLemma ==
  ASSUME NEW h, HeapOK(h), Unused(h) # {},
         NEW a \in Agents, NEW r \in Reqs, NEW st \in Status
  PROVE  /\ NewAddress(h) \in Obj
         /\ h[NewAddress(h)] = None
         /\ NewCommand(a, r, st) \in Command
         /\ NewCommand(a, r, st) # None
         /\ HeapOK([h EXCEPT ![NewAddress(h)] = NewCommand(a, r, st)])
         /\ Keeps(h, [h EXCEPT ![NewAddress(h)] = NewCommand(a, r, st)])
<1>1. NewAddress(h) \in Unused(h)
  BY DEF NewAddress
<1>2. NewAddress(h) \in Obj /\ h[NewAddress(h)] = None
  BY <1>1 DEF Unused
<1>3. NewCommand(a, r, st) \in Command
  BY DEF NewCommand, Command
<1>4. NewCommand(a, r, st) # None
  BY <1>3, NoneAssumption
<1>. QED
  BY <1>2, <1>3, <1>4 DEF HeapOK, Keeps

(* Erasing an object from the cache keeps it in the heap. *)
LEMMA UncacheLemma ==
  ASSUME NEW h, HeapOK(h), NEW o \in Obj, h[o] # None
  PROVE  HeapOK(Uncache(h, o)) /\ Keeps(h, Uncache(h, o)) /\ AddsNothing(h, Uncache(h, o))
<1>. DEFINE n == [h[o] EXCEPT !.cached = FALSE, !.armed = FALSE]
<1>1. /\ n \in Command /\ n.ag = h[o].ag /\ n.req = h[o].req
      /\ n.st = h[o].st /\ (n.cached => h[o].cached)
  BY DEF HeapOK, Command
<1>2. n # None
  BY <1>1, NoneAssumption
<1>3. Uncache(h, o) = [h EXCEPT ![o] = n]
  BY DEF Uncache, HeapOK, Command
<1>. HIDE DEF n
<1>. QED BY <1>1, <1>2, <1>3 DEF HeapOK, Keeps, AddsNothing

(* remove() keeps every object and the type of the heap. *)
LEMMA RemoveLemma ==
  ASSUME NEW h, HeapOK(h), NEW a, NEW i, NEW g \in Remove(h, a, i)
  PROVE  HeapOK(g) /\ Keeps(h, g) /\ AddsNothing(h, g)
<1>1. CASE g = h
  BY <1>1 DEF Keeps, AddsNothing
<1>2. CASE g # h
  <2>1. PICK o \in CachedById(h, a, i) : g = Uncache(h, o)
    BY <1>2 DEF Remove
  <2>2. o \in Obj /\ h[o] # None
    BY DEF CachedById, Cached, Live
  <2>. QED BY <2>1, <2>2, UncacheLemma
<1>. QED BY <1>1, <1>2

(* The loop of get_by_entityV keeps every object and the type. *)
LEMMA TouchLemma ==
  ASSUME NEW h, HeapOK(h), NEW S \in SUBSET Live(h)
  PROVE  LET g == TouchAll(h, S, DELIVERED)
         IN  /\ HeapOK(g) /\ Keeps(h, g) /\ AddsNothing(h, g)
             /\ \A o \in S : g[o].st = DELIVERED
<1>. DEFINE m(o) == h[o].armed \/ (HasRoom(h, h[o].ag) /\ CommandTimeout > 0)
            n(o) == [h[o] EXCEPT !.st = DELIVERED, !.armed = m(o)]
<1>1. ASSUME NEW o \in Obj, h[o] # None
      PROVE  /\ n(o) \in Command /\ n(o).ag = h[o].ag /\ n(o).req = h[o].req /\ n(o) # None
             /\ n(o).st = DELIVERED /\ (n(o).cached => h[o].cached)
  <2>1. h[o] \in Command
    BY <1>1 DEF HeapOK
  <2>2. m(o) \in BOOLEAN
    BY Zenon
  <2>3. /\ n(o) \in Command /\ n(o).ag = h[o].ag /\ n(o).req = h[o].req
        /\ n(o).st = DELIVERED /\ (n(o).cached => h[o].cached)
    <3>. HIDE DEF m
    <3>. QED BY <2>1, <2>2 DEF Command, Status
  <2>. QED BY <2>3, NoneAssumption
<1>2. TouchAll(h, S, DELIVERED) = [o \in Obj |-> IF o \in S THEN n(o) ELSE h[o]]
  BY Zenon DEF TouchAll
<1>3. \A o \in S : o \in Obj /\ h[o] # None
  BY DEF Live
<1>. HIDE DEF n
<1>. QED BY <1>1, <1>2, <1>3 DEF HeapOK, Keeps, AddsNothing

(* Only objects nobody reaches are destroyed. *)
LEMMA CollectLemma ==
  ASSUME NEW h, HeapOK(h), NEW refs
  PROVE  /\ HeapOK(Collect(h, refs))
         /\ \A o \in Obj : o \in refs => Collect(h, refs)[o] = h[o]
         /\ \A o \in Obj : Collect(h, refs)[o] # None => Collect(h, refs)[o] = h[o]
BY DEF HeapOK, Collect



(* get_by_id() returns a live object of its agent, or NULL. *)
LEMMA GetByIdLemma ==
  ASSUME HeapOK(heap), Unused(heap) # {}, NEW a \in Agents, NEW i,
         NEW doc \in Document \cup {None}, NEW g \in GetById(a, i, doc)
  PROVE  /\ HeapOK(g.h) /\ Keeps(heap, g.h)
         /\ g.o \in Obj \cup {None}
         /\ g.o # None => Holds(g.h, g.o, a)
<1>1. CASE CachedById(heap, a, i) # {}
  <2>1. PICK o \in CachedById(heap, a, i) : g = [h |-> Insert(heap, o), o |-> o]
    BY <1>1 DEF GetById
  <2>2. o \in Obj /\ heap[o] # None /\ heap[o].ag = a
    BY DEF CachedById, Cached, Live
  <2>3. HeapOK(Insert(heap, o)) /\ Keeps(heap, Insert(heap, o))
    BY <2>2, InsertLemma
  <2>. QED BY <2>1, <2>2, <2>3 DEF Keeps, Holds
<1>2. CASE CachedById(heap, a, i) = {} /\ doc # None
  <2>. DEFINE o == NewAddress(heap)
              h == [heap EXCEPT ![o] = NewCommand(a, doc.req, doc.st)]
  <2>1. doc.req \in Reqs /\ doc.st \in Status
    BY <1>2 DEF Document
  <2>2. g = [h |-> Insert(h, o), o |-> o]
    BY <1>2 DEF GetById
  <2>3. o \in Obj /\ HeapOK(h) /\ Keeps(heap, h) /\ NewCommand(a, doc.req, doc.st) # None
    BY <2>1, NewLemma
  <2>4. h[o] = NewCommand(a, doc.req, doc.st)
    BY <2>3 DEF HeapOK
  <2>5. h[o] # None /\ h[o].ag = a
    BY <2>3, <2>4 DEF NewCommand
  <2>. HIDE DEF o, h
  <2>6. HeapOK(Insert(h, o)) /\ Keeps(h, Insert(h, o))
    BY <2>3, <2>5, InsertLemma
  <2>. QED BY <2>2, <2>3, <2>5, <2>6 DEF Keeps, Holds
<1>3. CASE CachedById(heap, a, i) = {} /\ doc = None
  BY <1>3 DEF GetById, Keeps
<1>. QED BY <1>1, <1>2, <1>3

(* set_status() on a live object keeps the heap well typed. *)
LEMMA StatusLemma ==
  ASSUME NEW h, HeapOK(h), NEW o \in Obj, h[o] # None
  PROVE  /\ HeapOK([h EXCEPT ![o].st = DELIVERED])
         /\ Keeps(h, [h EXCEPT ![o].st = DELIVERED])
         /\ AddsNothing(h, [h EXCEPT ![o].st = DELIVERED])
<1>. DEFINE n == [h[o] EXCEPT !.st = DELIVERED]
<1>1. /\ n \in Command /\ n.ag = h[o].ag /\ n.req = h[o].req
      /\ n.st = DELIVERED /\ (n.cached => h[o].cached)
  BY DEF HeapOK, Command, Status
<1>2. n # None
  BY <1>1, NoneAssumption
<1>3. [h EXCEPT ![o].st = DELIVERED] = [h EXCEPT ![o] = n]
  BY DEF HeapOK, Command
<1>. HIDE DEF n
<1>. QED BY <1>1, <1>2, <1>3 DEF HeapOK, Keeps, AddsNothing

(* cancel() on a live object keeps the heap well typed. *)
LEMMA DisarmLemma ==
  ASSUME NEW h, HeapOK(h), NEW o \in Obj, h[o] # None
  PROVE  /\ HeapOK([h EXCEPT ![o].armed = FALSE]) /\ Keeps(h, [h EXCEPT ![o].armed = FALSE])
         /\ AddsNothing(h, [h EXCEPT ![o].armed = FALSE])
<1>. DEFINE n == [h[o] EXCEPT !.armed = FALSE]
<1>1. /\ n \in Command /\ n.ag = h[o].ag /\ n.req = h[o].req
      /\ n.st = h[o].st /\ (n.cached => h[o].cached)
  BY DEF HeapOK, Command
<1>2. n # None
  BY <1>1, NoneAssumption
<1>3. [h EXCEPT ![o].armed = FALSE] = [h EXCEPT ![o] = n]
  BY DEF HeapOK, Command
<1>. HIDE DEF n
<1>. QED BY <1>1, <1>2, <1>3 DEF HeapOK, Keeps, AddsNothing

(* Running a timer handler keeps the heap well typed. *)
LEMMA UnqueueLemma ==
  ASSUME NEW h, HeapOK(h), NEW o \in Obj, h[o] # None
  PROVE  /\ HeapOK([h EXCEPT ![o].queued = FALSE]) /\ Keeps(h, [h EXCEPT ![o].queued = FALSE])
         /\ AddsNothing(h, [h EXCEPT ![o].queued = FALSE])
<1>. DEFINE n == [h[o] EXCEPT !.queued = FALSE]
<1>1. /\ n \in Command /\ n.ag = h[o].ag /\ n.req = h[o].req
      /\ n.st = h[o].st /\ (n.cached => h[o].cached)
  BY DEF HeapOK, Command
<1>2. n # None
  BY <1>1, NoneAssumption
<1>3. [h EXCEPT ![o].queued = FALSE] = [h EXCEPT ![o] = n]
  BY DEF HeapOK, Command
<1>. HIDE DEF n
<1>. QED BY <1>1, <1>2, <1>3 DEF HeapOK, Keeps, AddsNothing

(* An expiring timer keeps the heap well typed. *)
LEMMA ExpireLemma ==
  ASSUME NEW h, HeapOK(h), NEW o \in Obj, h[o] # None
  PROVE  HeapOK(Expire(h, o)) /\ Keeps(h, Expire(h, o)) /\ AddsNothing(h, Expire(h, o))
<1>. DEFINE n == [h[o] EXCEPT !.armed = FALSE, !.queued = TRUE]
<1>1. /\ n \in Command /\ n.ag = h[o].ag /\ n.req = h[o].req
      /\ n.st = h[o].st /\ (n.cached => h[o].cached)
  BY DEF HeapOK, Command
<1>2. n # None
  BY <1>1, NoneAssumption
<1>3. Expire(h, o) = [h EXCEPT ![o] = n]
  BY DEF Expire, HeapOK, Command
<1>. HIDE DEF n
<1>. QED BY <1>1, <1>2, <1>3 DEF HeapOK, Keeps, AddsNothing

(* table.update() changes the status of at most one document. *)
LEMMA MarkLemma ==
  ASSUME mongo \in [Ids -> Document \cup {None}], NEW i \in Ids, NEW r
  PROVE  /\ Mark(i, r) \in [Ids -> Document \cup {None}]
         /\ \A j \in Ids : j # i => Mark(i, r)[j] = mongo[j]
         /\ mongo[i] = None => Mark(i, r)[i] = None
         /\ mongo[i] # None => Mark(i, r)[i] # None /\ Mark(i, r)[i].req = mongo[i].req
                                /\ Mark(i, r)[i].st = DELIVERED
BY HandleAssumption DEF Mark, Document, Status

(* References survive a change that keeps all objects. *)
LEMMA KeepsRefs ==
  ASSUME NEW h, NEW g, NEW rq, NEW an, NEW lk, Keeps(h, g), LiveRefs(h, rq, an, lk)
  PROVE  LiveRefs(g, rq, an, lk)
BY DEF Keeps, LiveRefs, Holds

(* References survive the destruction of unreachable objects. *)
LEMMA SetHeapLemma ==
  ASSUME NEW h, HeapOK(h), SetHeap(h), LiveRefs(h, req', ans', lock')
  PROVE  HeapOK(heap') /\ LiveRefs(heap', req', ans', lock')
<1>1. heap' = Collect(h, References)
  BY DEF SetHeap
<1>2. HeapOK(heap')
  BY <1>1, CollectLemma
<1>3. ASSUME NEW o \in References, NEW a, o \in Obj, Holds(h, o, a)
      PROVE  Holds(heap', o, a)
  BY <1>1, <1>3, CollectLemma DEF Holds
<1>. QED BY <1>2, <1>3 DEF LiveRefs, References, Holds

-----------------------------------------------------------------------------
(* Threads: what moving one of them changes.                               *)

(* RequestAt moves one request thread only. *)
LEMMA RequestAtLemma ==
  ASSUME TypeOK, NEW r \in Reqs, NEW pc \in ReqPc, NEW o \in Obj \cup {None}, NEW n \in {0, 1}
  PROVE  /\ RequestAt(r, pc, o, n) \in [Reqs -> RequestThread]
         /\ RequestAt(r, pc, o, n)[r].pc = pc
         /\ RequestAt(r, pc, o, n)[r].ag = req[r].ag
         /\ RequestAt(r, pc, o, n)[r].obj = o
         /\ \A q \in Reqs : q # r => RequestAt(r, pc, o, n)[q] = req[q]
<1>. DEFINE t == [pc |-> pc, ag |-> req[r].ag, obj |-> o, n |-> n]
<1>1. req \in [Reqs -> RequestThread]
  BY DEF TypeOK
<1>2. t \in RequestThread /\ t.pc = pc /\ t.ag = req[r].ag /\ t.obj = o
  BY <1>1 DEF RequestThread
<1>3. RequestAt(r, pc, o, n) = [req EXCEPT ![r] = t]
  BY DEF RequestAt
<1>. HIDE DEF t
<1>. QED BY <1>1, <1>2, <1>3

(* AnswerAt moves one answer thread only. *)
LEMMA AnswerAtLemma ==
  ASSUME TypeOK, NEW s \in Answers, NEW pc \in {"idle", "got", "removing", "done"},
         NEW o \in Obj \cup {None}
  PROVE  /\ AnswerAt(s, pc, o) \in [Answers -> AnswerThread]
         /\ AnswerAt(s, pc, o)[s].pc = pc
         /\ AnswerAt(s, pc, o)[s].ag = ans[s].ag
         /\ AnswerAt(s, pc, o)[s].obj = o
         /\ \A q \in Answers : q # s => AnswerAt(s, pc, o)[q] = ans[q]
<1>. DEFINE t == [pc |-> pc, ag |-> ans[s].ag, dev |-> ans[s].dev,
                  id |-> ans[s].id, obj |-> o]
<1>1. ans \in [Answers -> AnswerThread]
  BY DEF TypeOK
<1>2. t \in AnswerThread /\ t.pc = pc /\ t.ag = ans[s].ag /\ t.obj = o
  BY <1>1 DEF AnswerThread
<1>3. AnswerAt(s, pc, o) = [ans EXCEPT ![s] = t]
  BY DEF AnswerAt
<1>. HIDE DEF t
<1>. QED BY <1>1, <1>2, <1>3

(* A request thread that drops its object, or takes one that it may hold.  *)
LEMMA RequestRefs ==
  ASSUME TypeInv, NEW h, LiveRefs(h, req, ans, lock), UNCHANGED <<ans, lock>>,
         NEW r \in Reqs, req[r].pc # "idle",
         NEW pc \in ReqPc \ {"idle", "saving"}, NEW o \in Obj \cup {None}, NEW n \in {0, 1},
         req' = RequestAt(r, pc, o, n),
         o # None => Holds(h, o, req[r].ag)
  PROVE  /\ LiveRefs(h, req', ans', lock')
         /\ ThreadRefs'
         /\ req' \in [Reqs -> RequestThread]
<1>1. /\ req' \in [Reqs -> RequestThread]
      /\ req'[r].pc = pc /\ req'[r].ag = req[r].ag /\ req'[r].obj = o
      /\ \A q \in Reqs : q # r => req'[q] = req[q]
  BY RequestAtLemma DEF TypeInv
<1>2. LiveRefs(h, req', ans', lock')
  BY <1>1 DEF LiveRefs
<1>3. ThreadRefs'
  BY <1>1 DEF ThreadRefs, TypeInv
<1>. QED BY <1>1, <1>2, <1>3

(* The number of faults stays within its bound. *)
LEMMA DbLemma ==
  ASSUME TypeOK, DbWorks \/ DbFails
  PROVE  faults' \in 0..MaxFaults
BY HandleAssumption DEF TypeOK, DbWorks, DbFails

-----------------------------------------------------------------------------
(* TypeInv holds initially and is preserved by every step.                 *)

(* The initial state of the agents is well typed. *)
LEMMA InitTypeInv == Init => TypeInv
<1>. SUFFICES ASSUME Init PROVE TypeInv
  OBVIOUS
<1>1. /\ Idle \in RequestThread /\ IdlePoll \in PollThread
      /\ IdleAnswer \in AnswerThread /\ NoTimeout \in TimeoutHandler
  BY DEF Idle, IdlePoll, IdleAnswer, NoTimeout, RequestThread, PollThread,
         AnswerThread, TimeoutHandler, ReqPc, Status
<1>2. TypeOK
  BY <1>1, HandleAssumption DEF Init, TypeOK, StatusMessage, IdlePoll
<1>3. LiveRefs(heap, req, ans, lock) /\ ThreadRefs
  BY DEF Init, LiveRefs, ThreadRefs, Idle, IdleAnswer, NoTimeout
<1>. QED BY <1>2, <1>3 DEF TypeInv

(* updateCommand() preserves TypeInv. *)
LEMMA UpdateCommandTypeInv ==
  ASSUME TypeInv, NEW a \in Agents, NEW r \in Reqs, UpdateCommand(a, r)
  PROVE  TypeInv'
<1>. DEFINE o == NewAddress(heap)
            h == [heap EXCEPT ![o] = NewCommand(a, r, READY_FOR_READ)]
            t == [pc |-> "saving", ag |-> a, obj |-> o, n |-> 0]
<1>1. HeapOK(heap) /\ READY_FOR_READ \in Status
  BY DEF TypeInv, TypeOK, HeapOK, Status
<1>2. o \in Obj /\ HeapOK(h) /\ Keeps(heap, h) /\ NewCommand(a, r, READY_FOR_READ) # None
  BY <1>1, NewLemma DEF UpdateCommand
<1>3. Holds(h, o, a)
  BY <1>1, <1>2 DEF HeapOK, NewCommand, Holds
<1>4. req' = [req EXCEPT ![r] = t] /\ UNCHANGED <<lock, ans>> /\ SetHeap(Insert(h, o))
  BY DEF UpdateCommand
<1>5. t \in RequestThread /\ t.pc = "saving" /\ t.ag = a /\ t.obj = o
  BY <1>2 DEF RequestThread, ReqPc
<1>. HIDE DEF o, h, t
<1>6. HeapOK(Insert(h, o)) /\ Keeps(h, Insert(h, o))
  BY <1>2, <1>3, InsertLemma DEF Holds
<1>7. LiveRefs(Insert(h, o), req, ans, lock) /\ Holds(Insert(h, o), o, a)
  BY <1>2, <1>3, <1>6, KeepsRefs DEF TypeInv, Keeps, Holds
<1>8. /\ req' \in [Reqs -> RequestThread] /\ req'[r] = t
      /\ \A q \in Reqs : q # r => req'[q] = req[q]
  BY <1>4, <1>5 DEF TypeInv, TypeOK
<1>9. LiveRefs(Insert(h, o), req', ans', lock')
  BY <1>4, <1>5, <1>7, <1>8 DEF LiveRefs
<1>10. HeapOK(heap') /\ LiveRefs(heap', req', ans', lock')
  BY <1>4, <1>6, <1>9, SetHeapLemma
<1>11. cb' \in [Reqs -> StatusMessage]
  BY DEF UpdateCommand, TypeInv, TypeOK, StatusMessage
<1>12. TypeOK'
  BY <1>8, <1>10, <1>11 DEF UpdateCommand, TypeInv, TypeOK, HeapOK
<1>13. ThreadRefs'
  BY <1>2, <1>4, <1>5, <1>8, NoneAssumption DEF TypeInv, ThreadRefs
<1>. QED BY <1>10, <1>12, <1>13 DEF TypeInv

(* The later steps of a request preserve TypeInv. *)
LEMMA RequestTypeInv ==
  ASSUME TypeInv, NEW r \in Reqs, RequestStep(r)
  PROVE  TypeInv'
<1>a. HeapOK(heap) /\ TypeOK /\ LiveRefs(heap, req, ans, lock) /\ ThreadRefs
  BY DEF TypeInv, TypeOK, HeapOK
<1>b. req[r] \in RequestThread /\ req[r].n \in {0, 1} /\ IdOf[r] \in Ids
  BY <1>a, RequestAssumption DEF TypeOK, RequestThread
<1>1. CASE SaveCommand(r)
  <2>1. PICK pc \in ReqPc \ {"idle", "saving"} : req' = RequestAt(r, pc, None, 0)
    BY <1>1 DEF SaveCommand, AfterSave, ReqPc
  <2>2. LiveRefs(heap, req', ans', lock') /\ ThreadRefs' /\ req' \in [Reqs -> RequestThread]
    BY <1>1, <1>a, <2>1, RequestRefs DEF SaveCommand
  <2>3. HeapOK(heap') /\ LiveRefs(heap', req', ans', lock')
    BY <1>1, <1>a, <2>2, SetHeapLemma DEF SaveCommand
  <2>4. Stored(r) \in Document
    <3>1. heap[req[r].obj] \in Command
      BY <1>1, <1>a DEF SaveCommand, LiveRefs, ThreadRefs, Holds, HeapOK
    <3>. QED BY <3>1 DEF Stored, Document, Command
  <2>5. mongo' \in [Ids -> Document \cup {None}]
    BY <1>1, <1>a, <2>4 DEF SaveCommand, TypeOK
  <2>6. handed' \subseteq Entities \X Reqs
    BY <1>1, <1>a, RequestAssumption DEF SaveCommand, TypeOK
  <2>7. faults' \in 0..MaxFaults
    BY <1>1, <1>a, DbLemma DEF SaveCommand
  <2>8. TypeOK'
    BY <1>1, <1>a, <2>2, <2>3, <2>5, <2>6, <2>7 DEF SaveCommand, TypeOK, HeapOK
  <2>. QED BY <2>2, <2>3, <2>8 DEF TypeInv
<1>2. CASE CommandResponse(r)
  <2>1. PICK pc \in ReqPc \ {"idle", "saving"} : req' = RequestAt(r, pc, None, 0)
    BY <1>2 DEF CommandResponse, ReqPc
  <2>2. LiveRefs(heap, req', ans', lock') /\ ThreadRefs' /\ req' \in [Reqs -> RequestThread]
    BY <1>2, <1>a, <2>1, RequestRefs DEF CommandResponse
  <2>. QED BY <1>2, <1>a, <2>2 DEF CommandResponse, TypeInv, TypeOK
<1>3. CASE ResponseRemoveCache(r)
  <2>1. PICK h \in Remove(heap, req[r].ag, IdOf[r]) : SetHeap(h)
    BY <1>3 DEF ResponseRemoveCache
  <2>2. HeapOK(h) /\ LiveRefs(h, req, ans, lock)
    BY <1>a, RemoveLemma, KeepsRefs
  <2>3. PICK pc \in ReqPc \ {"idle", "saving"} : req' = RequestAt(r, pc, None, 0)
    BY <1>3 DEF ResponseRemoveCache, ReqPc
  <2>4. LiveRefs(h, req', ans', lock') /\ ThreadRefs' /\ req' \in [Reqs -> RequestThread]
    BY <1>3, <2>2, <2>3, RequestRefs DEF ResponseRemoveCache
  <2>5. HeapOK(heap') /\ LiveRefs(heap', req', ans', lock')
    BY <2>1, <2>2, <2>4, SetHeapLemma
  <2>6. TypeOK'
    BY <1>3, <1>a, <2>4, <2>5 DEF ResponseRemoveCache, TypeOK, HeapOK
  <2>. QED BY <2>4, <2>5, <2>6 DEF TypeInv
<1>4. CASE ResponseRemoveMongo(r)
  <2>1. LiveRefs(heap, req', ans', lock') /\ ThreadRefs' /\ req' \in [Reqs -> RequestThread]
    BY <1>4, <1>a, RequestRefs DEF ResponseRemoveMongo, ReqPc
  <2>2. mongo' \in [Ids -> Document \cup {None}] /\ cb' \in [Reqs -> StatusMessage]
    BY <1>4, <1>a DEF ResponseRemoveMongo, TypeOK, Take, StatusMessage
  <2>3. faults' \in 0..MaxFaults
    BY <1>4, <1>a, DbLemma DEF ResponseRemoveMongo
  <2>4. TypeOK'
    BY <1>4, <1>a, <2>1, <2>2, <2>3 DEF ResponseRemoveMongo, TypeOK
  <2>. QED BY <1>4, <2>1, <2>4 DEF ResponseRemoveMongo, TypeInv
<1>5. CASE AcceptedUpdateMongo(r)
  <2>1. PICK pc \in ReqPc \ {"idle", "saving"}, n \in {0, 1} : req' = RequestAt(r, pc, None, n)
    BY <1>5 DEF AcceptedUpdateMongo, ReqPc
  <2>2. LiveRefs(heap, req', ans', lock') /\ ThreadRefs' /\ req' \in [Reqs -> RequestThread]
    BY <1>5, <1>a, <2>1, RequestRefs DEF AcceptedUpdateMongo
  <2>3. mongo' \in [Ids -> Document \cup {None}]
    BY <1>5, <1>a, <1>b, MarkLemma DEF AcceptedUpdateMongo, TypeOK
  <2>4. faults' \in 0..MaxFaults
    BY <1>5, <1>a, DbLemma DEF AcceptedUpdateMongo
  <2>5. TypeOK'
    BY <1>5, <1>a, <2>2, <2>3, <2>4 DEF AcceptedUpdateMongo, TypeOK
  <2>. QED BY <1>5, <2>2, <2>5 DEF AcceptedUpdateMongo, TypeInv
<1>6. CASE AcceptedGetCommand(r)
  <2>1. PICK doc \in Document \cup {None} :
          \E g \in GetById(req[r].ag, IdOf[r], doc) :
             req' = RequestAt(r, "set", g.o, req[r].n) /\ SetHeap(g.h)
    BY <1>6 DEF AcceptedGetCommand
  <2>2. PICK g \in GetById(req[r].ag, IdOf[r], doc) :
             req' = RequestAt(r, "set", g.o, req[r].n) /\ SetHeap(g.h)
    BY <2>1
  <2>3. req[r].ag \in Agents
    BY <1>6, <1>a, <1>b DEF AcceptedGetCommand, ThreadRefs, RequestThread
  <2>4. /\ HeapOK(g.h) /\ Keeps(heap, g.h) /\ g.o \in Obj \cup {None}
        /\ g.o # None => Holds(g.h, g.o, req[r].ag)
    BY <1>6, <1>a, <2>3, GetByIdLemma DEF AcceptedGetCommand
  <2>5. LiveRefs(g.h, req, ans, lock)
    BY <1>a, <2>4, KeepsRefs
  <2>6. LiveRefs(g.h, req', ans', lock') /\ ThreadRefs' /\ req' \in [Reqs -> RequestThread]
    <3>1. "set" \in ReqPc \ {"idle", "saving"} /\ req[r].pc # "idle" /\ UNCHANGED <<ans, lock>>
      BY <1>6 DEF ReqPc, AcceptedGetCommand
    <3>. QED BY <3>1, <1>b, <2>2, <2>4, <2>5, RequestRefs
  <2>7. HeapOK(heap') /\ LiveRefs(heap', req', ans', lock')
    BY <2>2, <2>4, <2>6, SetHeapLemma
  <2>8. faults' \in 0..MaxFaults
    BY <1>6, <1>a, DbLemma DEF AcceptedGetCommand, FindById
  <2>9. TypeOK'
    BY <1>6, <1>a, <2>6, <2>7, <2>8 DEF AcceptedGetCommand, TypeOK, HeapOK
  <2>. QED BY <2>6, <2>7, <2>9 DEF TypeInv
<1>7. CASE AcceptedSetStatus(r)
  <2>. DEFINE h == IF req[r].obj = None THEN heap ELSE [heap EXCEPT ![req[r].obj].st = DELIVERED]
  <2>1. HeapOK(h) /\ Keeps(heap, h)
    <3>1. CASE req[r].obj = None
      BY <1>a, <3>1 DEF Keeps
    <3>2. CASE req[r].obj # None
      <4>1. req[r].obj \in Obj /\ heap[req[r].obj] # None
        BY <1>a, <3>2 DEF LiveRefs, Holds
      <4>. QED BY <1>a, <3>2, <4>1, StatusLemma
    <3>. QED BY <3>1, <3>2
  <2>2. LiveRefs(h, req, ans, lock) /\ SetHeap(h)
    BY <1>7, <1>a, <2>1, KeepsRefs DEF AcceptedSetStatus
  <2>. HIDE DEF h
  <2>3. LiveRefs(h, req', ans', lock') /\ ThreadRefs' /\ req' \in [Reqs -> RequestThread]
    BY <1>7, <1>b, <2>2, RequestRefs DEF AcceptedSetStatus, ReqPc
  <2>4. HeapOK(heap') /\ LiveRefs(heap', req', ans', lock')
    BY <2>1, <2>2, <2>3, SetHeapLemma
  <2>5. TypeOK'
    BY <1>7, <1>a, <2>3, <2>4 DEF AcceptedSetStatus, TypeOK, HeapOK
  <2>. QED BY <2>3, <2>4, <2>5 DEF TypeInv
<1>8. CASE AcceptedReport(r)
  <2>1. LiveRefs(heap, req', ans', lock') /\ ThreadRefs' /\ req' \in [Reqs -> RequestThread]
    BY <1>8, <1>a, RequestRefs DEF AcceptedReport, ReqPc
  <2>2. cb' \in [Reqs -> StatusMessage]
    BY <1>8, <1>a DEF AcceptedReport, TypeOK, StatusMessage
  <2>. QED BY <1>8, <1>a, <2>1, <2>2 DEF AcceptedReport, TypeInv, TypeOK
<1>. QED BY <1>1, <1>2, <1>3, <1>4, <1>5, <1>6, <1>7, <1>8 DEF RequestStep

(* get_all_command() preserves TypeInv. *)
LEMMA GetAllCommandTypeInv ==
  ASSUME TypeInv, NEW p \in Polls, NEW a \in Agents, NEW e \in Entities, GetAllCommand(p, a, e)
  PROVE  TypeInv'
<1>. DEFINE match == CachedReady(heap, a, e)
            start(S) == poll' = [poll EXCEPT ![p] =
                          [pc |-> "marking", ag |-> a, dev |-> e, todo |-> S, got |-> S]]
<1>a. HeapOK(heap) /\ TypeOK /\ LiveRefs(heap, req, ans, lock) /\ ThreadRefs
  BY DEF TypeInv, TypeOK, HeapOK
<1>b. DELIVERED \in Status /\ UNCHANGED <<req, lock, ans>>
  BY DEF Status, GetAllCommand
<1>c. ASSUME NEW S \in SUBSET Reqs, start(S)
      PROVE  PollsOK'
  <2>. DEFINE t == [pc |-> "marking", ag |-> a, dev |-> e, todo |-> S, got |-> S]
  <2>1. t \in PollThread /\ t.dev # None
    BY HandleAssumption DEF PollThread
  <2>2. poll' = [poll EXCEPT ![p] = t]
    BY <1>c
  <2>. HIDE DEF t
  <2>. QED BY <1>a, <2>1, <2>2 DEF TypeOK, PollsOK
<1>d. ASSUME NEW h, HeapOK(h), Keeps(heap, h), SetHeap(h)
      PROVE  HeapOK(heap') /\ LiveRefs(heap', req', ans', lock')
  BY <1>a, <1>b, <1>d, KeepsRefs, SetHeapLemma
<1>1. ASSUME NEW others \in SUBSET (Cached(heap, a) \ match),
             SetHeap(TouchAll(heap, match \cup others, DELIVERED)),
             start({heap[o].req : o \in match \cup others})
      PROVE  HeapOK(heap') /\ LiveRefs(heap', req', ans', lock') /\ PollsOK'
  <2>1. match \cup others \in SUBSET Live(heap)
    BY DEF CachedReady, Cached
  <2>2. HeapOK(TouchAll(heap, match \cup others, DELIVERED)) /\ Keeps(heap, TouchAll(heap, match \cup others, DELIVERED))
    BY <1>a, <1>b, <2>1, TouchLemma
  <2>3. {heap[o].req : o \in match \cup others} \in SUBSET Reqs
    <3>1. \A o \in match \cup others : heap[o] \in Command
      BY <1>a, <2>1 DEF Live, HeapOK
    <3>. HIDE DEF match
    <3>. QED BY <3>1 DEF Command
  <2>. QED BY <1>1, <1>c, <1>d, <2>2, <2>3
<1>2. ASSUME Unused(heap) # {}, NEW i \in Ids, mongo[i] # None,
             SetHeap(Insert([heap EXCEPT ![NewAddress(heap)] = NewCommand(a, mongo[i].req, DELIVERED)],
                            NewAddress(heap))),
             start({mongo[i].req})
      PROVE  HeapOK(heap') /\ LiveRefs(heap', req', ans', lock') /\ PollsOK'
  <2>. DEFINE o == NewAddress(heap)
              h == [heap EXCEPT ![o] = NewCommand(a, mongo[i].req, DELIVERED)]
  <2>1. mongo[i].req \in Reqs
    BY <1>2, <1>a DEF TypeOK, Document
  <2>2. o \in Obj /\ HeapOK(h) /\ Keeps(heap, h) /\ NewCommand(a, mongo[i].req, DELIVERED) # None
    BY <1>2, <1>a, <1>b, <2>1, NewLemma
  <2>3. h[o] # None
    BY <1>a, <2>2 DEF HeapOK
  <2>4. SetHeap(Insert(h, o)) /\ start({mongo[i].req})
    BY <1>2
  <2>. HIDE DEF o, h
  <2>5. HeapOK(Insert(h, o)) /\ Keeps(heap, Insert(h, o))
    BY <2>2, <2>3, InsertLemma DEF Keeps
  <2>6. PollsOK'
    BY <1>c, <2>1, <2>4
  <2>. QED BY <1>d, <2>4, <2>5, <2>6
<1>3. ASSUME poll' = [poll EXCEPT ![p] = [IdlePoll EXCEPT !.pc = "done", !.dev = e]],
             UNCHANGED heap
      PROVE  HeapOK(heap') /\ LiveRefs(heap', req', ans', lock') /\ PollsOK'
  <2>. DEFINE t == [IdlePoll EXCEPT !.pc = "done", !.dev = e]
  <2>1. t \in PollThread /\ t.pc = "done"
    BY DEF IdlePoll, PollThread
  <2>2. PollsOK'
    <3>. HIDE DEF t
    <3>1. poll' = [poll EXCEPT ![p] = t]
      BY <1>3 DEF t
    <3>. QED BY <1>a, <2>1, <3>1 DEF TypeOK, PollsOK
  <2>. QED BY <1>3, <1>a, <1>b, <2>2
<1>4. HeapOK(heap') /\ LiveRefs(heap', req', ans', lock') /\ PollsOK'
  BY <1>1, <1>2, <1>3, Zenon DEF GetAllCommand
<1>5. faults' \in 0..MaxFaults
  BY <1>a, DbLemma DEF GetAllCommand
<1>6. TypeOK'
  BY <1>a, <1>b, <1>4, <1>5 DEF GetAllCommand, TypeOK, HeapOK, PollsOK
<1>7. ThreadRefs'
  BY <1>a, <1>b DEF ThreadRefs
<1>. QED BY <1>4, <1>6, <1>7 DEF TypeInv

(* Marking the polled commands preserves TypeInv. *)
LEMMA PollTypeInv ==
  ASSUME TypeInv, NEW p \in Polls, PollStep(p)
  PROVE  TypeInv'
<1>a. TypeOK /\ LiveRefs(heap, req, ans, lock) /\ ThreadRefs
  BY DEF TypeInv
<1>1. PICK r \in Reqs : MarkDelivered(p, r)
  BY DEF PollStep
<1>2. poll[p] \in PollThread
  BY <1>a DEF TypeOK
<1>3. mongo' \in [Ids -> Document \cup {None}]
  BY <1>1, <1>a, MarkLemma, RequestAssumption DEF MarkDelivered, TypeOK
<1>4. cb' \in [Reqs -> StatusMessage]
  BY <1>1, <1>a DEF MarkDelivered, TypeOK, StatusMessage
<1>5. PollsOK'
  <2>1. PICK pc \in {"marking", "done"}, T \in SUBSET Reqs, G \in SUBSET Reqs :
          poll' = [poll EXCEPT ![p] = [poll[p] EXCEPT !.pc = pc, !.todo = T, !.got = G]]
    <3>1. CASE poll' = [poll EXCEPT ![p].todo = poll[p].todo \ {r},
                                     ![p].pc = IF poll[p].todo \ {r} = {} THEN "done" ELSE @]
      <4>1. poll[p].todo \ {r} \in SUBSET Reqs /\ poll[p].got \in SUBSET Reqs /\ poll[p].pc = "marking"
        BY <1>1, <1>2 DEF PollThread, MarkDelivered
      <4>2. poll' = [poll EXCEPT ![p] = [poll[p] EXCEPT
                       !.pc = IF poll[p].todo \ {r} = {} THEN "done" ELSE "marking",
                       !.todo = poll[p].todo \ {r}, !.got = poll[p].got]]
        BY <1>2, <1>a, <3>1, <4>1 DEF PollThread, TypeOK
      <4>. QED BY <4>1, <4>2
    <3>2. CASE poll' = [poll EXCEPT ![p].pc = "done", ![p].todo = {}, ![p].got = {}]
      <4>1. poll' = [poll EXCEPT ![p] = [poll[p] EXCEPT !.pc = "done", !.todo = {}, !.got = {}]]
        BY <1>2, <1>a, <3>2 DEF PollThread, TypeOK
      <4>. QED BY <4>1
    <3>. QED BY <1>1, <3>1, <3>2 DEF MarkDelivered
  <2>. DEFINE t == [poll[p] EXCEPT !.pc = pc, !.todo = T, !.got = G]
  <2>2. t \in PollThread /\ t.dev = poll[p].dev
    BY <1>2 DEF PollThread
  <2>3. poll[p].dev # None
    BY <1>1, <1>a DEF MarkDelivered, TypeOK
  <2>4. poll' = [poll EXCEPT ![p] = t]
    BY <2>1
  <2>. HIDE DEF t
  <2>. QED BY <1>a, <2>2, <2>3, <2>4 DEF TypeOK, PollsOK
<1>6. handed' \subseteq Entities \X Reqs
  <2>1. poll[p].got \subseteq Reqs
    BY <1>2 DEF PollThread
  <2>2. poll[p].dev \in Entities
    BY <1>1, <1>a, <1>2 DEF MarkDelivered, PollThread, TypeOK
  <2>. QED BY <1>1, <1>a, <2>1, <2>2 DEF MarkDelivered, TypeOK
<1>7. faults' \in 0..MaxFaults
  BY <1>1, <1>a, DbLemma DEF MarkDelivered
<1>8. TypeOK'
  BY <1>1, <1>a, <1>3, <1>4, <1>5, <1>6, <1>7 DEF MarkDelivered, TypeOK, PollsOK
<1>. QED BY <1>1, <1>a, <1>8 DEF MarkDelivered, TypeInv, ThreadRefs

(* Looking up an answered command preserves TypeInv. *)
LEMMA CommandResultTypeInv ==
  ASSUME TypeInv, NEW s \in Answers, NEW a \in Agents, NEW e \in Entities, NEW i \in Ids,
         CommandResult(s, a, e, i)
  PROVE  TypeInv'
<1>a. HeapOK(heap) /\ TypeOK /\ LiveRefs(heap, req, ans, lock) /\ ThreadRefs
  BY DEF TypeInv, TypeOK, HeapOK
<1>1. PICK doc \in Document \cup {None} :
        /\ DbWorks \/ DbFails
        /\ \E g \in GetById(a, i, doc) :
             /\ ans' = [ans EXCEPT ![s] = [pc |-> IF g.o = None THEN "done" ELSE "got",
                                           ag |-> a, dev |-> e, id |-> i, obj |-> g.o]]
             /\ SetHeap(g.h)
  BY DEF CommandResult, FindById
<1>2. PICK g \in GetById(a, i, doc) :
        /\ ans' = [ans EXCEPT ![s] = [pc |-> IF g.o = None THEN "done" ELSE "got",
                                      ag |-> a, dev |-> e, id |-> i, obj |-> g.o]]
        /\ SetHeap(g.h)
  BY <1>1
<1>3. /\ HeapOK(g.h) /\ Keeps(heap, g.h) /\ g.o \in Obj \cup {None}
      /\ g.o # None => Holds(g.h, g.o, a)
  BY <1>a, GetByIdLemma DEF CommandResult
<1>. DEFINE t == [pc |-> IF g.o = None THEN "done" ELSE "got",
                  ag |-> a, dev |-> e, id |-> i, obj |-> g.o]
<1>4. /\ t \in AnswerThread /\ t.obj = g.o /\ t.ag = a
      /\ t.pc \in {"got", "removing"} => g.o # None
  BY <1>3 DEF AnswerThread
<1>5. ans' = [ans EXCEPT ![s] = t]
  BY <1>2
<1>. HIDE DEF t
<1>6. ans' \in [Answers -> AnswerThread] /\ ans'[s] = t /\ \A q \in Answers : q # s => ans'[q] = ans[q]
  BY <1>a, <1>4, <1>5 DEF TypeOK
<1>7. LiveRefs(g.h, req, ans, lock)
  BY <1>a, <1>3, KeepsRefs
<1>8. LiveRefs(g.h, req', ans', lock')
  BY <1>3, <1>4, <1>6, <1>7 DEF CommandResult, LiveRefs
<1>9. HeapOK(heap') /\ LiveRefs(heap', req', ans', lock')
  BY <1>2, <1>3, <1>8, SetHeapLemma
<1>10. faults' \in 0..MaxFaults
  BY <1>a, <1>1, DbLemma
<1>11. TypeOK'
  BY <1>a, <1>6, <1>9, <1>10 DEF CommandResult, TypeOK, HeapOK
<1>12. ThreadRefs'
  BY <1>a, <1>4, <1>6 DEF CommandResult, ThreadRefs
<1>. QED BY <1>9, <1>11, <1>12 DEF TypeInv

(* Removing an answered command preserves TypeInv. *)
LEMMA AnswerTypeInv ==
  ASSUME TypeInv, NEW s \in Answers, AnswerStep(s)
  PROVE  TypeInv'
<1>a. HeapOK(heap) /\ TypeOK /\ LiveRefs(heap, req, ans, lock) /\ ThreadRefs
  BY DEF TypeInv, TypeOK, HeapOK
<1>b. ans[s] \in AnswerThread /\ ans[s].obj \in Obj \cup {None}
  BY <1>a DEF TypeOK, AnswerThread
<1>1. CASE ResultRemoveCache(s)
  <2>. DEFINE o == ans[s].obj
              h0 == [heap EXCEPT ![o].armed = FALSE]
  <2>1. Holds(heap, o, ans[s].ag)
    BY <1>1, <1>a DEF ResultRemoveCache, LiveRefs, ThreadRefs
  <2>2. HeapOK(h0) /\ Keeps(heap, h0)
    BY <1>a, <2>1, DisarmLemma DEF Holds
  <2>3. /\ ans' = AnswerAt(s, "removing", o)
        /\ UNCHANGED <<req, lock>>
        /\ \E h \in Remove(h0, ans[s].ag, ans[s].id) : SetHeap(h)
    BY <1>1 DEF ResultRemoveCache
  <2>. HIDE DEF h0
  <2>4. PICK h \in Remove(h0, ans[s].ag, ans[s].id) : SetHeap(h)
    BY <2>3
  <2>5. HeapOK(h) /\ Keeps(h0, h)
    BY <2>2, RemoveLemma
  <2>6. LiveRefs(h, req, ans, lock)
    BY <1>a, <2>2, <2>5, KeepsRefs
  <2>7. /\ ans' \in [Answers -> AnswerThread]
        /\ ans'[s].pc = "removing" /\ ans'[s].ag = ans[s].ag /\ ans'[s].obj = o
        /\ \A q \in Answers : q # s => ans'[q] = ans[q]
    BY <1>a, <1>b, <2>3, AnswerAtLemma
  <2>8. LiveRefs(h, req', ans', lock')
    BY <2>3, <2>6, <2>7 DEF LiveRefs
  <2>9. HeapOK(heap') /\ LiveRefs(heap', req', ans', lock')
    BY <2>4, <2>5, <2>8, SetHeapLemma
  <2>10. TypeOK'
    BY <1>1, <1>a, <2>7, <2>9 DEF ResultRemoveCache, TypeOK, HeapOK
  <2>11. ThreadRefs'
    BY <1>1, <1>a, <2>3, <2>7 DEF ResultRemoveCache, ThreadRefs
  <2>. QED BY <2>9, <2>10, <2>11 DEF TypeInv
<1>2. CASE ResultRemoveMongo(s)
  <2>1. /\ ans' \in [Answers -> AnswerThread]
        /\ ans'[s].pc = "done" /\ ans'[s].obj = None
        /\ \A q \in Answers : q # s => ans'[q] = ans[q]
    BY <1>2, <1>a, AnswerAtLemma DEF ResultRemoveMongo
  <2>2. LiveRefs(heap, req', ans', lock')
    BY <1>2, <1>a, <2>1 DEF ResultRemoveMongo, LiveRefs
  <2>3. HeapOK(heap') /\ LiveRefs(heap', req', ans', lock')
    BY <1>2, <1>a, <2>2, SetHeapLemma DEF ResultRemoveMongo
  <2>4. mongo' \in [Ids -> Document \cup {None}] /\ cb' \in [Reqs -> StatusMessage]
    BY <1>2, <1>a DEF ResultRemoveMongo, TypeOK, Take, StatusMessage
  <2>5. faults' \in 0..MaxFaults
    BY <1>2, <1>a, DbLemma DEF ResultRemoveMongo
  <2>6. TypeOK'
    BY <1>2, <1>a, <2>1, <2>3, <2>4, <2>5 DEF ResultRemoveMongo, TypeOK, HeapOK
  <2>7. ThreadRefs'
    BY <1>2, <1>a, <2>1 DEF ResultRemoveMongo, ThreadRefs
  <2>. QED BY <2>3, <2>6, <2>7 DEF TypeInv
<1>. QED BY <1>1, <1>2 DEF AnswerStep

(* Expiring timers and the check of timeout_f() preserve TypeInv. *)
LEMMA TimerTypeInv ==
  ASSUME TypeInv, NEW o \in Obj, TimerStep(o)
  PROVE  TypeInv'
<1>a. HeapOK(heap) /\ TypeOK /\ LiveRefs(heap, req, ans, lock) /\ ThreadRefs
  BY DEF TypeInv, TypeOK, HeapOK
<1>1. CASE TimerExpires(o)
  <2>1. HeapOK(heap') /\ Keeps(heap, heap')
    BY <1>1, <1>a, ExpireLemma DEF TimerExpires
  <2>2. LiveRefs(heap', req, ans, lock)
    BY <1>a, <2>1, KeepsRefs
  <2>3. TypeOK' /\ ThreadRefs' /\ UNCHANGED <<req, ans, lock>>
    BY <1>1, <1>a, <2>1 DEF TimerExpires, TypeOK, HeapOK, ThreadRefs
  <2>. QED BY <2>2, <2>3 DEF TypeInv
<1>2. CASE TimeoutCheck(o)
  <2>. DEFINE a == heap[o].ag
              h == [heap EXCEPT ![o].queued = FALSE]
  <2>1. heap[o] \in Command /\ heap[o] # None /\ a \in Agents /\ heap[o].st \in Status
    BY <1>2, <1>a DEF TimeoutCheck, HeapOK, Command
  <2>2. HeapOK(h) /\ Keeps(heap, h)
    BY <1>a, <2>1, UnqueueLemma
  <2>3. PICK pc \in {"refused", "expired"} :
             lock' = [lock EXCEPT ![a] = [pc |-> pc, obj |-> o, st |-> heap[o].st]]
    BY <1>2 DEF TimeoutCheck
  <2>4. SetHeap(h) /\ UNCHANGED <<req, ans>> /\ (DbWorks \/ DbFails)
    BY <1>2 DEF TimeoutCheck, FindById
  <2>. DEFINE t == [pc |-> pc, obj |-> o, st |-> heap[o].st]
  <2>5. t \in TimeoutHandler /\ t.obj = o
    BY <2>1 DEF TimeoutHandler
  <2>6. Holds(h, o, a)
    BY <2>1, <2>2 DEF Keeps, Holds
  <2>. HIDE DEF h, t
  <2>7. /\ lock' \in [Agents -> TimeoutHandler] /\ lock'[a] = t
        /\ \A b \in Agents : b # a => lock'[b] = lock[b]
    <3>1. lock' = [lock EXCEPT ![a] = t]
      BY <2>3 DEF t
    <3>. QED BY <1>a, <2>1, <2>5, <3>1 DEF TypeOK
  <2>8. LiveRefs(h, req, ans, lock)
    BY <1>a, <2>2, KeepsRefs
  <2>9. LiveRefs(h, req', ans', lock')
    <3>. HIDE DEF a
    <3>. QED BY <2>4, <2>5, <2>6, <2>7, <2>8 DEF LiveRefs
  <2>10. HeapOK(heap') /\ LiveRefs(heap', req', ans', lock')
    BY <2>2, <2>4, <2>9, SetHeapLemma
  <2>11. faults' \in 0..MaxFaults
    BY <1>a, <2>4, DbLemma
  <2>12. TypeOK'
    BY <1>2, <1>a, <2>7, <2>10, <2>11 DEF TimeoutCheck, TypeOK, HeapOK
  <2>13. ThreadRefs'
    BY <1>a, <2>4, <2>5, <2>7, NoneAssumption DEF ThreadRefs
  <2>. QED BY <2>10, <2>12, <2>13 DEF TypeInv
<1>. QED BY <1>1, <1>2 DEF TimerStep

(* The end of timeout_f() preserves TypeInv. *)
LEMMA TimeoutTypeInv ==
  ASSUME TypeInv, NEW a \in Agents, TimeoutStep(a)
  PROVE  TypeInv'
<1>a. HeapOK(heap) /\ TypeOK /\ LiveRefs(heap, req, ans, lock) /\ ThreadRefs
  BY DEF TypeInv, TypeOK, HeapOK
<1>1. lock' = [lock EXCEPT ![a] = NoTimeout] /\ UNCHANGED <<req, ans>>
  BY DEF TimeoutStep, TimeoutRefused, TimeoutExpired
<1>2. NoTimeout \in TimeoutHandler /\ NoTimeout.obj = None /\ NoTimeout.pc = "free"
  BY DEF NoTimeout, TimeoutHandler, Status
<1>3. /\ lock' \in [Agents -> TimeoutHandler] /\ lock'[a] = NoTimeout
      /\ \A b \in Agents : b # a => lock'[b] = lock[b]
  BY <1>a, <1>1, <1>2 DEF TypeOK
<1>4. ThreadRefs'
  BY <1>a, <1>1, <1>2, <1>3 DEF ThreadRefs
<1>5. ASSUME NEW h, HeapOK(h), Keeps(heap, h), SetHeap(h)
      PROVE  HeapOK(heap') /\ LiveRefs(heap', req', ans', lock')
  <2>1. LiveRefs(h, req, ans, lock)
    BY <1>5, <1>a, KeepsRefs
  <2>2. LiveRefs(h, req', ans', lock')
    BY <1>1, <1>2, <1>3, <2>1 DEF LiveRefs
  <2>. QED BY <1>5, <2>2, SetHeapLemma
<1>6. CASE TimeoutRefused(a)
  <2>1. PICK h \in Remove(heap, a, IdOf[heap[lock[a].obj].req]) : SetHeap(h)
    BY <1>6 DEF TimeoutRefused
  <2>2. HeapOK(heap') /\ LiveRefs(heap', req', ans', lock')
    BY <1>a, <1>5, <2>1, RemoveLemma
  <2>3. TypeOK'
    BY <1>6, <1>a, <1>3, <2>2 DEF TimeoutRefused, TypeOK, HeapOK
  <2>. QED BY <1>4, <2>2, <2>3 DEF TypeInv
<1>7. CASE TimeoutExpired(a)
  <2>. DEFINE r == heap[lock[a].obj].req
              i == IdOf[r]
  <2>1. r \in Reqs /\ i \in Ids
    <3>1. heap[lock[a].obj] \in Command
      BY <1>7, <1>a DEF TimeoutExpired, LiveRefs, ThreadRefs, Holds, HeapOK
    <3>. QED BY <3>1, RequestAssumption DEF Command
  <2>2. PICK h \in Remove(heap, a, i) : \E g \in Remove(h, a, i) : SetHeap(g)
    BY <1>7 DEF TimeoutExpired
  <2>3. PICK g \in Remove(h, a, i) : SetHeap(g)
    BY <2>2
  <2>4. HeapOK(g) /\ Keeps(heap, g)
    BY <1>a, RemoveLemma DEF Keeps
  <2>5. HeapOK(heap') /\ LiveRefs(heap', req', ans', lock')
    BY <1>5, <2>3, <2>4
  <2>6. mongo' \in [Ids -> Document \cup {None}]
    BY <1>7, <1>a DEF TimeoutExpired, TypeOK, Take
  <2>7. cb' \in [Reqs -> StatusMessage]
    BY <1>7, <1>a DEF TimeoutExpired, TypeOK, StatusMessage, ExpiredMessage
  <2>8. expiry' \subseteq [doc: Reqs, timer: Reqs, ag: Agents]
    <3>1. mongo[i] # None => mongo[i].req \in Reqs
      BY <1>a, <2>1 DEF TypeOK, Document
    <3>. DEFINE x == [doc |-> IF mongo[i] # None THEN mongo[i].req ELSE r, timer |-> r, ag |-> a]
    <3>2. x \in [doc: Reqs, timer: Reqs, ag: Agents]
      BY <2>1, <3>1
    <3>3. expiry' = expiry \/ expiry' = expiry \cup {x}
      BY <1>7 DEF TimeoutExpired
    <3>. HIDE DEF x
    <3>. QED BY <1>a, <3>2, <3>3 DEF TypeOK
  <2>9. faults' \in 0..MaxFaults
    BY <1>7, <1>a, DbLemma DEF TimeoutExpired
  <2>10. TypeOK'
    BY <1>7, <1>a, <1>1, <1>3, <2>5, <2>6, <2>7, <2>8, <2>9 DEF TimeoutExpired, TypeOK, HeapOK
  <2>. QED BY <1>4, <2>5, <2>10 DEF TypeInv
<1>. QED BY <1>6, <1>7 DEF TimeoutStep

(* The crash of one agent leaves the references of the others alone. *)
LEMMA CrashTypeInv ==
  ASSUME TypeInv, NEW a \in Agents, Crash(a)
  PROVE  TypeInv'
<1>a. HeapOK(heap) /\ TypeOK /\ LiveRefs(heap, req, ans, lock) /\ ThreadRefs
  BY DEF TypeInv, TypeOK, HeapOK
<1>1. heap' = [o \in Obj |-> IF heap[o] # None THEN (IF heap[o].ag = a THEN None ELSE heap[o])
                             ELSE None]
  BY DEF Crash
<1>2. HeapOK(heap') /\ \A o \in Obj : \A b : Holds(heap, o, b) /\ b # a => Holds(heap', o, b)
  BY <1>a, <1>1 DEF HeapOK, Holds
<1>3. /\ lock' \in [Agents -> TimeoutHandler]
      /\ lock'[a].obj = None /\ lock'[a].pc = "free"
      /\ \A b \in Agents : b # a => lock'[b] = lock[b]
  <2>1. NoTimeout \in TimeoutHandler /\ NoTimeout.obj = None /\ NoTimeout.pc = "free"
    BY DEF NoTimeout, TimeoutHandler, Status
  <2>. QED BY <1>a, <2>1 DEF Crash, TypeOK
<1>4. /\ req' \in [Reqs -> RequestThread]
      /\ \A r \in Reqs : \/ req'[r].obj = None /\ req'[r].pc = "done" /\ req'[r].ag # None
                         \/ req'[r] = req[r] /\ req[r].ag # a
  <2>. DEFINE t == [Idle EXCEPT !.pc = "done", !.ag = a]
  <2>1. t \in RequestThread /\ t.obj = None /\ t.pc = "done" /\ t.ag # None
    BY NoneAssumption DEF Idle, RequestThread, ReqPc
  <2>2. req' = [r \in Reqs |-> IF req[r].ag = a THEN t ELSE req[r]]
    BY DEF Crash
  <2>. HIDE DEF t
  <2>. QED BY <1>a, <2>1, <2>2 DEF TypeOK
<1>5. PollsOK'
  <2>. DEFINE t == [IdlePoll EXCEPT !.pc = "done"]
  <2>1. t \in PollThread /\ t.pc = "done"
    BY DEF IdlePoll, PollThread
  <2>2. poll' = [p \in Polls |-> IF poll[p].ag = a THEN t ELSE poll[p]]
    BY DEF Crash
  <2>. HIDE DEF t
  <2>. QED BY <1>a, <2>1, <2>2 DEF TypeOK, PollsOK
<1>6. /\ ans' \in [Answers -> AnswerThread]
      /\ \A s \in Answers : \/ ans'[s].obj = None /\ ans'[s].pc = "done"
                            \/ ans'[s] = ans[s] /\ ans[s].ag # a
  <2>. DEFINE t == [IdleAnswer EXCEPT !.pc = "done"]
  <2>1. t \in AnswerThread /\ t.obj = None /\ t.pc = "done"
    BY DEF IdleAnswer, AnswerThread
  <2>2. ans' = [s \in Answers |-> IF ans[s].ag = a THEN t ELSE ans[s]]
    BY DEF Crash
  <2>. HIDE DEF t
  <2>. QED BY <1>a, <2>1, <2>2 DEF TypeOK
<1>7. LiveRefs(heap', req', ans', lock')
  BY <1>a, <1>2, <1>3, <1>4, <1>6 DEF LiveRefs, Holds
<1>8. ThreadRefs'
  BY <1>a, <1>3, <1>4, <1>6 DEF ThreadRefs
<1>9. crashes' \in 0..MaxCrashes
  BY <1>a, HandleAssumption DEF Crash, TypeOK
<1>10. TypeOK'
  BY <1>a, <1>2, <1>3, <1>4, <1>5, <1>6, <1>9 DEF Crash, TypeOK, HeapOK, PollsOK
<1>. QED BY <1>7, <1>8, <1>10 DEF TypeInv

(* TypeInv is inductive. *)
LEMMA NextTypeInv == TypeInv /\ [Next]_vars => TypeInv'
<1>. SUFFICES ASSUME TypeInv, [Next]_vars PROVE TypeInv'
  OBVIOUS
<1>1. CASE UNCHANGED vars
  BY <1>1 DEF vars, TypeInv, TypeOK, LiveRefs, Holds, ThreadRefs
<1>2. CASE Next
  BY <1>2, UpdateCommandTypeInv, RequestTypeInv, GetAllCommandTypeInv, PollTypeInv,
     CommandResultTypeInv, AnswerTypeInv, TimerTypeInv, TimeoutTypeInv, CrashTypeInv
  DEF Next
<1>. QED BY <1>1, <1>2

(* Every step of every thread, in every interleaving, with any number of   *)
(* agents, faults and crashes, keeps the state well typed; in particular   *)
(* the object a thread holds across an unlocked mutex stays alive.         *)
THEOREM TypeCorrect == Spec => []TypeOK
<1>1. TypeInv => TypeOK
  BY DEF TypeInv
<1>. QED BY <1>1, InitTypeInv, NextTypeInv, PTL DEF Spec

-----------------------------------------------------------------------------
(***************************************************************************)
(* What the agents together promise about a command, for any number of     *)
(* agents, commands, devices, faults and crashes: its expiry is reported   *)
(* at most once, its life follows CommandLife, its copies agree with what  *)
(* was done with it, and what is cached has a timer.                       *)
(*                                                                         *)
(* All follow from what a step may do to the shared collection (Effect:    *)
(* give up requests that were not stored yet, store a document that was    *)
(* not there, mark one, or take one out) and to the objects (HeapStep and  *)
(* Touches).                                                               *)
(*                                                                         *)
(* Last, that nobody is forgotten, for agents whom nobody disturbs.        *)
(***************************************************************************)

(* Requests that save_command() has been left for.                         *)
Started == {r \in Reqs : req[r].pc \notin {"idle", "saving"}}

(* updateCommand() ends, or its agent does, with nothing stored. *)
GiveUp(S) ==
  /\ S \cap Started = {}
  /\ Started' = Started \cup S
  /\ UNCHANGED <<mongo, expiry>>

(* table.insert() of a new document, with the status its object has. *)
Store(r) ==
  /\ r \notin Started
  /\ Started' = Started \cup {r}
  /\ mongo[IdOf[r]] = None
  /\ \E d \in Document : /\ d.req = r /\ d.st = heap[req[r].obj].st
                         /\ mongo' = [mongo EXCEPT ![IdOf[r]] = d]
  /\ UNCHANGED expiry

(* table.update() of a stored document. *)
MarkIt(i) ==
  /\ mongo[i] # None
  /\ \E d \in Document : /\ d.req = mongo[i].req /\ d.st = DELIVERED
                         /\ mongo' = [mongo EXCEPT ![i] = d]
  /\ UNCHANGED <<Started, expiry>>

(* table.remove(), with or without a report of the expiry. *)
TakeOut(i) ==
  /\ mongo' = [mongo EXCEPT ![i] = None]
  /\ UNCHANGED Started
  /\ \/ UNCHANGED expiry
     \/ \E x : mongo[i] # None /\ x.doc = mongo[i].req /\ expiry' = expiry \cup {x}

Effect ==
  \/ \E S \in SUBSET Reqs : GiveUp(S)
  \/ \E r \in Reqs : Store(r)
  \/ \E i \in Ids : MarkIt(i)
  \/ \E i \in Ids : TakeOut(i)

(* A step that leaves the collection and the reports alone. *)
LEMMA NoEffect == UNCHANGED <<Started, mongo, expiry>> => Effect
<1>1. UNCHANGED <<Started, mongo, expiry>> => GiveUp({})
  BY DEF GiveUp
<1>. QED BY <1>1 DEF Effect

(* table.update() marks one document or none. *)
LEMMA MarkEffect ==
  ASSUME TypeOK, NEW i \in Ids, NEW r, mongo' = Mark(i, r), UNCHANGED <<Started, expiry>>
  PROVE  Effect
<1>1. CASE mongo[i] = None
  BY <1>1, NoEffect DEF Mark
<1>2. CASE mongo[i] # None
  <2>1. mongo' = [mongo EXCEPT ![i] = [mongo[i] EXCEPT !.st = DELIVERED]]
    BY <1>2 DEF Mark, TypeOK, Document
  <2>2. /\ [mongo[i] EXCEPT !.st = DELIVERED] \in Document
        /\ [mongo[i] EXCEPT !.st = DELIVERED].req = mongo[i].req
        /\ [mongo[i] EXCEPT !.st = DELIVERED].st = DELIVERED
    BY <1>2 DEF TypeOK, Document, Status
  <2>3. MarkIt(i)
    BY <1>2, <2>1, <2>2 DEF MarkIt
  <2>. QED BY <2>3 DEF Effect
<1>. QED BY <1>1, <1>2

(* A request that was left for save_command() stays so. *)
LEMMA SameStarted ==
  ASSUME TypeOK, NEW r \in Started, NEW pc \in ReqPc \ {"idle", "saving"},
         NEW o \in Obj \cup {None}, NEW n \in {0, 1}, req' = RequestAt(r, pc, o, n)
  PROVE  UNCHANGED Started
<1>1. r \in Reqs
  BY DEF Started
<1>2. /\ req'[r].pc = pc
      /\ \A q \in Reqs : q # r => req'[q] = req[q]
  BY <1>1, RequestAtLemma
<1>. QED BY <1>1, <1>2 DEF Started

(* The steps of a request have one of the four effects. *)
LEMMA RequestEffect ==
  ASSUME TypeInv, NEW r \in Reqs, RequestStep(r)
  PROVE  Effect
<1>a. TypeOK /\ IdOf[r] \in Ids /\ req[r] \in RequestThread /\ req[r].n \in {0, 1}
  BY RequestAssumption DEF TypeInv, TypeOK, RequestThread
<1>1. CASE SaveCommand(r)
  <2>1. PICK pc \in ReqPc \ {"idle", "saving"} : req' = RequestAt(r, pc, None, 0)
    BY <1>1 DEF SaveCommand, AfterSave, ReqPc
  <2>2. /\ req'[r].pc = pc
        /\ \A q \in Reqs : q # r => req'[q] = req[q]
    BY <1>a, <2>1, RequestAtLemma
  <2>3. r \notin Started /\ Started' = Started \cup {r}
    BY <1>1, <2>2 DEF SaveCommand, Started
  <2>4. CASE UNCHANGED mongo
    <3>1. GiveUp({r})
      BY <1>1, <2>3, <2>4 DEF GiveUp, SaveCommand
    <3>. QED BY <3>1 DEF Effect
  <2>5. CASE mongo' # mongo
    <3>1. Stored(r) \in Document /\ Stored(r).req = r /\ Stored(r).st = heap[req[r].obj].st
      <4>1. heap[req[r].obj] \in Command
        BY <1>1 DEF SaveCommand, TypeInv, TypeOK, LiveRefs, ThreadRefs, Holds
      <4>. QED BY <4>1 DEF Stored, Document, Command
    <3>2. mongo[IdOf[r]] = None /\ mongo' = [mongo EXCEPT ![IdOf[r]] = Stored(r)]
      BY <1>1, <2>5 DEF SaveCommand
    <3>3. Store(r)
      BY <1>1, <2>3, <3>1, <3>2 DEF Store, SaveCommand
    <3>. QED BY <3>3 DEF Effect
  <2>. QED BY <2>4, <2>5
<1>2. CASE ~SaveCommand(r)
  <2>1. r \in Started
    BY <1>2 DEF RequestStep, CommandResponse, ResponseRemoveCache, ResponseRemoveMongo,
         AcceptedUpdateMongo, AcceptedGetCommand, AcceptedSetStatus, AcceptedReport, Started
  <2>2. CASE CommandResponse(r)
    BY <1>a, <2>1, <2>2, SameStarted, NoEffect DEF CommandResponse, ReqPc
  <2>3. CASE ResponseRemoveCache(r)
    BY <1>a, <2>1, <2>3, SameStarted, NoEffect DEF ResponseRemoveCache, ReqPc
  <2>4. CASE ResponseRemoveMongo(r)
    <3>1. UNCHANGED Started
      BY <1>a, <2>1, <2>4, SameStarted DEF ResponseRemoveMongo, ReqPc
    <3>2. CASE UNCHANGED mongo
      BY <2>4, <3>1, <3>2, NoEffect DEF ResponseRemoveMongo
    <3>3. CASE mongo' = Take(IdOf[r])
      <4>1. TakeOut(IdOf[r])
        BY <2>4, <3>1, <3>3 DEF ResponseRemoveMongo, TakeOut, Take
      <4>. QED BY <1>a, <4>1 DEF Effect
    <3>. QED BY <2>4, <3>2, <3>3 DEF ResponseRemoveMongo
  <2>5. CASE AcceptedUpdateMongo(r)
    <3>1. UNCHANGED Started
      BY <1>a, <2>1, <2>5, SameStarted DEF AcceptedUpdateMongo, ReqPc
    <3>. QED BY <1>a, <2>5, <3>1, NoEffect, MarkEffect DEF AcceptedUpdateMongo
  <2>6. CASE AcceptedGetCommand(r)
    <3>1. HeapOK(heap) /\ req[r].ag \in Agents
      BY <1>a, <2>6 DEF TypeInv, TypeOK, HeapOK, AcceptedGetCommand, ThreadRefs, RequestThread
    <3>2. PICK doc \in Document \cup {None} : \E g \in GetById(req[r].ag, IdOf[r], doc) :
                 req' = RequestAt(r, "set", g.o, req[r].n)
      BY <2>6 DEF AcceptedGetCommand
    <3>3. PICK g \in GetById(req[r].ag, IdOf[r], doc) : req' = RequestAt(r, "set", g.o, req[r].n)
      BY <3>2
    <3>4. g.o \in Obj \cup {None}
      BY <2>6, <3>1, GetByIdLemma DEF AcceptedGetCommand
    <3>5. UNCHANGED Started
      BY <1>a, <2>1, <3>3, <3>4, SameStarted DEF ReqPc
    <3>. QED BY <2>6, <3>5, NoEffect DEF AcceptedGetCommand
  <2>7. CASE AcceptedSetStatus(r)
    BY <1>a, <2>1, <2>7, SameStarted, NoEffect DEF AcceptedSetStatus, ReqPc
  <2>8. CASE AcceptedReport(r)
    BY <1>a, <2>1, <2>8, SameStarted, NoEffect DEF AcceptedReport, ReqPc
  <2>. QED BY <1>2, <2>2, <2>3, <2>4, <2>5, <2>6, <2>7, <2>8 DEF RequestStep
<1>. QED BY <1>1, <1>2

(* Every step of every agent has one of the four effects. *)
LEMMA NextEffect == TypeInv /\ [Next]_vars => Effect
<1>. SUFFICES ASSUME TypeInv, [Next]_vars PROVE Effect
  OBVIOUS
<1>a. TypeOK
  BY DEF TypeInv
<1>b. UNCHANGED req => UNCHANGED Started
  BY DEF Started
<1>1. CASE UNCHANGED vars
  BY <1>1, <1>b, NoEffect DEF vars
<1>2. ASSUME NEW a \in Agents, NEW r \in Reqs, UpdateCommand(a, r) PROVE Effect
  <2>1. /\ req'[r].pc = "saving" /\ req[r].pc = "idle"
        /\ \A q \in Reqs : q # r => req'[q] = req[q]
    BY <1>2, <1>a DEF UpdateCommand, TypeOK, RequestThread
  <2>2. UNCHANGED Started
    BY <2>1 DEF Started
  <2>. QED BY <1>2, <2>2, NoEffect DEF UpdateCommand
<1>3. ASSUME NEW r \in Reqs, RequestStep(r) PROVE Effect
  BY <1>3, RequestEffect
<1>4. ASSUME NEW p \in Polls, NEW a \in Agents, NEW e \in Entities, GetAllCommand(p, a, e)
      PROVE  Effect
  BY <1>4, <1>b, NoEffect DEF GetAllCommand
<1>5. ASSUME NEW p \in Polls, PollStep(p) PROVE Effect
  <2>1. PICK r \in Reqs : MarkDelivered(p, r)
    BY <1>5 DEF PollStep
  <2>2. UNCHANGED Started /\ UNCHANGED expiry
    BY <1>b, <2>1 DEF MarkDelivered
  <2>. QED BY <1>a, <2>1, <2>2, MarkEffect, NoEffect, RequestAssumption DEF MarkDelivered
<1>6. ASSUME NEW s \in Answers, NEW a \in Agents, NEW e \in Entities, NEW i \in Ids,
             CommandResult(s, a, e, i)
      PROVE  Effect
  BY <1>6, <1>b, NoEffect DEF CommandResult
<1>7. ASSUME NEW s \in Answers, AnswerStep(s) PROVE Effect
  <2>1. CASE ResultRemoveCache(s)
    BY <1>b, <2>1, NoEffect DEF ResultRemoveCache
  <2>2. CASE ResultRemoveMongo(s)
    <3>1. UNCHANGED Started /\ UNCHANGED expiry
      BY <1>b, <2>2 DEF ResultRemoveMongo
    <3>2. CASE UNCHANGED mongo
      BY <3>1, <3>2, NoEffect
    <3>3. CASE mongo' = Take(ans[s].id) /\ mongo' # mongo
      <4>1. ans[s].id \in Ids
        BY <1>a, <3>3 DEF Take, TypeOK, AnswerThread
      <4>2. TakeOut(ans[s].id)
        BY <3>1, <3>3 DEF TakeOut, Take
      <4>. QED BY <4>1, <4>2 DEF Effect
    <3>. QED BY <2>2, <3>2, <3>3 DEF ResultRemoveMongo
  <2>. QED BY <1>7, <2>1, <2>2 DEF AnswerStep
<1>8. ASSUME NEW o \in Obj, TimerStep(o) PROVE Effect
  BY <1>8, <1>b, NoEffect DEF TimerStep, TimerExpires, TimeoutCheck
<1>9. ASSUME NEW a \in Agents, TimeoutStep(a) PROVE Effect
  <2>1. CASE TimeoutRefused(a)
    BY <1>b, <2>1, NoEffect DEF TimeoutRefused
  <2>2. CASE TimeoutExpired(a)
    <3>. DEFINE r == heap[lock[a].obj].req
                i == IdOf[r]
                x == [doc |-> mongo[i].req, timer |-> r, ag |-> a]
    <3>1. i \in Ids
      <4>1. heap[lock[a].obj] \in Command
        BY <2>2 DEF TypeInv, TypeOK, TimeoutExpired, LiveRefs, ThreadRefs, Holds
      <4>. QED BY <4>1, RequestAssumption DEF Command
    <3>2. UNCHANGED Started
      BY <1>b, <2>2 DEF TimeoutExpired
    <3>3. CASE UNCHANGED <<mongo, expiry>>
      BY <3>2, <3>3, NoEffect
    <3>4. CASE mongo' = Take(i) /\ UNCHANGED expiry
      <4>1. TakeOut(i)
        BY <3>2, <3>4 DEF TakeOut, Take
      <4>. QED BY <3>1, <4>1 DEF Effect
    <3>5. CASE mongo' = Take(i) /\ mongo[i] # None /\ expiry' = expiry \cup {x}
      <4>1. x.doc = mongo[i].req
        OBVIOUS
      <4>. HIDE DEF x
      <4>2. TakeOut(i)
        BY <3>2, <3>5, <4>1 DEF TakeOut, Take
      <4>. QED BY <3>1, <4>2 DEF Effect
    <3>. QED BY <2>2, <3>3, <3>4, <3>5 DEF TimeoutExpired, Removed
  <2>. QED BY <1>9, <2>1, <2>2 DEF TimeoutStep
<1>10. ASSUME NEW a \in Agents, Crash(a) PROVE Effect
  <2>. DEFINE S == {r \in Reqs : req[r].ag = a /\ r \notin Started}
  <2>1. /\ \A r \in Reqs : req[r].ag = a => req'[r].pc = "done"
        /\ \A r \in Reqs : req[r].ag # a => req'[r] = req[r]
    BY <1>10 DEF Crash, Idle
  <2>2. Started' = Started \cup S
    BY <2>1 DEF Started
  <2>3. GiveUp(S) /\ S \in SUBSET Reqs
    BY <1>10, <2>2 DEF GiveUp, Crash
  <2>. QED BY <2>3 DEF Effect
<1>. QED BY <1>1, <1>2, <1>3, <1>4, <1>5, <1>6, <1>7, <1>8, <1>9, <1>10 DEF Next

-----------------------------------------------------------------------------
(* A document is stored under the id of its request, which has been left   *)
(* for; a command whose expiry was reported is stored no longer, and its   *)
(* request cannot store it again.                                          *)
DocInv ==
  \A i \in Ids : mongo[i] # None => IdOf[mongo[i].req] = i /\ mongo[i].req \in Started
ExpiryInv ==
  \A x \in expiry : x.doc \in Started /\ \A i \in Ids : mongo[i] # None => mongo[i].req # x.doc

LifeInv == TypeInv /\ DocInv /\ ExpiryInv /\ OneExpiry

(* Documents keep being stored under the id of their request. *)
LEMMA DocStep ==
  ASSUME TypeOK, DocInv, Effect
  PROVE  DocInv'
<1>a. mongo \in [Ids -> Document \cup {None}]
  BY DEF TypeOK
<1>1. ASSUME NEW S \in SUBSET Reqs, GiveUp(S) PROVE DocInv'
  BY <1>1 DEF GiveUp, DocInv
<1>2. ASSUME NEW r \in Reqs, Store(r) PROVE DocInv'
  BY <1>2, <1>a DEF Store, DocInv
<1>3. ASSUME NEW i \in Ids, MarkIt(i) PROVE DocInv'
  BY <1>3, <1>a DEF MarkIt, DocInv
<1>4. ASSUME NEW i \in Ids, TakeOut(i) PROVE DocInv'
  BY <1>4, <1>a DEF TakeOut, DocInv
<1>. QED BY <1>1, <1>2, <1>3, <1>4 DEF Effect

(* What has expired is not stored again, and expires once. *)
LEMMA ExpiryStep ==
  ASSUME TypeOK, DocInv, ExpiryInv, OneExpiry, Effect
  PROVE  ExpiryInv' /\ OneExpiry'
<1>a. mongo \in [Ids -> Document \cup {None}]
  BY DEF TypeOK
<1>1. ASSUME NEW S \in SUBSET Reqs, GiveUp(S) PROVE ExpiryInv' /\ OneExpiry'
  BY <1>1 DEF GiveUp, ExpiryInv, OneExpiry
<1>2. ASSUME NEW r \in Reqs, Store(r) PROVE ExpiryInv' /\ OneExpiry'
  BY <1>2, <1>a DEF Store, ExpiryInv, OneExpiry
<1>3. ASSUME NEW i \in Ids, MarkIt(i) PROVE ExpiryInv' /\ OneExpiry'
  BY <1>3, <1>a DEF MarkIt, ExpiryInv, OneExpiry
<1>4. ASSUME NEW i \in Ids, TakeOut(i) PROVE ExpiryInv' /\ OneExpiry'
  <2>1. /\ mongo'[i] = None /\ \A j \in Ids : j # i => mongo'[j] = mongo[j]
        /\ UNCHANGED Started
    BY <1>4, <1>a DEF TakeOut
  <2>2. CASE UNCHANGED expiry
    BY <2>1, <2>2 DEF ExpiryInv, OneExpiry
  <2>3. ASSUME NEW x, mongo[i] # None, x.doc = mongo[i].req, expiry' = expiry \cup {x}
        PROVE  ExpiryInv' /\ OneExpiry'
    <3>1. x.doc \in Started /\ \A y \in expiry : y.doc # x.doc
      BY <2>3 DEF DocInv, ExpiryInv
    <3>2. \A j \in Ids : mongo'[j] # None => mongo'[j].req # x.doc
      BY <2>1, <2>3 DEF DocInv
    <3>. QED BY <2>1, <2>3, <3>1, <3>2 DEF ExpiryInv, OneExpiry
  <2>. QED BY <1>4, <2>2, <2>3 DEF TakeOut
<1>. QED BY <1>1, <1>2, <1>3, <1>4 DEF Effect

(* LifeInv holds of agents that have just been started. *)
LEMMA InitLifeInv == Init => LifeInv
<1>. SUFFICES ASSUME Init PROVE LifeInv
  OBVIOUS
<1>1. DocInv /\ ExpiryInv /\ OneExpiry
  BY DEF Init, DocInv, ExpiryInv, OneExpiry
<1>. QED BY <1>1, InitTypeInv DEF LifeInv

(* LifeInv is inductive. *)
LEMMA NextLifeInv == LifeInv /\ [Next]_vars => LifeInv'
<1>. SUFFICES ASSUME LifeInv, [Next]_vars PROVE LifeInv'
  OBVIOUS
<1>1. TypeInv /\ TypeOK /\ DocInv /\ ExpiryInv /\ OneExpiry
  BY DEF LifeInv, TypeInv
<1>2. TypeInv' /\ Effect
  BY <1>1, NextTypeInv, NextEffect
<1>3. DocInv' /\ ExpiryInv' /\ OneExpiry'
  BY <1>1, <1>2, DocStep, ExpiryStep
<1>. QED BY <1>2, <1>3 DEF LifeInv

(* LifeInv is an invariant of the agents. *)
LEMMA LifeInvariant == Spec => []LifeInv
BY InitLifeInv, NextLifeInv, PTL DEF Spec

(* However many agents share the collection, and whatever they crash and   *)
(* lose, no two of them (and no agent twice) report the expiry of the same *)
(* stored command: timeout_f() reports only what it has taken out itself.  *)
THEOREM ExpiryReportedOnce == Spec => []OneExpiry
<1>1. LifeInv => OneExpiry
  BY DEF LifeInv
<1>. QED BY <1>1, LifeInvariant, PTL

-----------------------------------------------------------------------------
(* The refinement: each effect is a step of CommandLife, or none.          *)
LEMMA PhaseStep ==
  ASSUME TypeOK, DocInv, DocInv', Effect
  PROVE  [Life!LifeNext]_([r \in Reqs |-> PhaseOf(r)])
<1>. DEFINE ph == [r \in Reqs |-> PhaseOf(r)]
<1>a. mongo \in [Ids -> Document \cup {None}] /\ \A r \in Reqs : IdOf[r] \in Ids
  BY RequestAssumption DEF TypeOK
<1>p. \A r \in Reqs :
        ph[r] = IF r \notin Started THEN "new"
                ELSE IF mongo[IdOf[r]] = None THEN "closed"
                ELSE IF mongo[IdOf[r]].req # r THEN "closed"
                ELSE IF mongo[IdOf[r]].st = READY_FOR_READ THEN "pending" ELSE "delivered"
  BY DEF PhaseOf, Started
<1>q. \A r \in Reqs :
        ph'[r] = IF r \notin Started' THEN "new"
                 ELSE IF mongo'[IdOf[r]] = None THEN "closed"
                 ELSE IF mongo'[IdOf[r]].req # r THEN "closed"
                 ELSE IF mongo'[IdOf[r]].st = READY_FOR_READ THEN "pending" ELSE "delivered"
  BY DEF PhaseOf, Started
<1>f. ph = [r \in Reqs |-> ph[r]] /\ ph' = [r \in Reqs |-> ph'[r]]
  BY Zenon
<1>u. (\A r \in Reqs : ph'[r] = ph[r]) => ph' = ph
  OBVIOUS
<1>. HIDE DEF ph
<1>1. ASSUME NEW S \in SUBSET Reqs, GiveUp(S)
      PROVE  \A r \in Reqs : ph'[r] = IF r \in S THEN "closed" ELSE ph[r]
  <2>1. \A r \in S : mongo[IdOf[r]] # None => mongo[IdOf[r]].req # r
    BY <1>1, <1>a DEF GiveUp, DocInv
  <2>. QED BY <1>1, <1>a, <1>p, <1>q, <2>1 DEF GiveUp
<1>2. ASSUME NEW S \in SUBSET Reqs, GiveUp(S) PROVE Life!Abandon(S)
  <2>1. \A r \in S : ph[r] = "new"
    BY <1>2, <1>p DEF GiveUp
  <2>2. ph' = [r \in Reqs |-> IF r \in S THEN "closed" ELSE ph[r]]
    BY <1>1, <1>2, <1>f
  <2>. QED BY <2>1, <2>2 DEF Life!Abandon, ph
<1>3. ASSUME NEW r \in Reqs, Store(r) PROVE Life!Open(r)
  <2>1. PICK d \in Document : d.req = r /\ mongo' = [mongo EXCEPT ![IdOf[r]] = d]
    BY <1>3 DEF Store
  <2>2. ph[r] = "new" /\ ph'[r] \in {"pending", "delivered"}
    <3>1. mongo'[IdOf[r]] = d /\ d # None
      BY <1>a, <2>1, HandleAssumption DEF Document
    <3>. QED BY <1>3, <1>p, <1>q, <2>1, <3>1 DEF Store
  <2>3. \A q \in Reqs : q # r => ph'[q] = ph[q]
    <3>1. \A q \in Reqs : q # r => (q \in Started' <=> q \in Started)
      BY <1>3 DEF Store
    <3>2. \A q \in Reqs : IdOf[q] # IdOf[r] => mongo'[IdOf[q]] = mongo[IdOf[q]]
      BY <1>a, <2>1
    <3>3. mongo[IdOf[r]] = None /\ mongo'[IdOf[r]].req = r
      BY <1>3, <1>a, <2>1 DEF Store
    <3>. QED BY <1>p, <1>q, <3>1, <3>2, <3>3
  <2>4. ph' = [ph EXCEPT ![r] = ph'[r]]
    BY <1>f, <2>3
  <2>. QED BY <2>2, <2>4 DEF Life!Open, ph
<1>4. ASSUME NEW i \in Ids, MarkIt(i) PROVE Life!LifeNext \/ ph' = ph
  <2>1. PICK d \in Document : d.req = mongo[i].req /\ d.st = DELIVERED /\ mongo' = [mongo EXCEPT ![i] = d]
    BY <1>4 DEF MarkIt
  <2>2. mongo[i] # None /\ mongo'[i] = d /\ d # None /\ \A j \in Ids : j # i => mongo'[j] = mongo[j]
    BY <1>4, <1>a, <2>1, HandleAssumption DEF MarkIt, Document
  <2>. DEFINE r == mongo[i].req
  <2>3. r \in Reqs /\ IdOf[r] = i /\ r \in Started
    BY <2>2 DEF DocInv, Started
  <2>4. \A q \in Reqs : q # r => ph'[q] = ph[q]
    BY <1>4, <1>a, <1>p, <1>q, <2>1, <2>2 DEF MarkIt
  <2>5. ph'[r] = "delivered" /\ ph[r] \in {"pending", "delivered"}
    BY <1>4, <1>p, <1>q, <2>1, <2>2, <2>3 DEF MarkIt, DELIVERED, READY_FOR_READ
  <2>6. ph' = [ph EXCEPT ![r] = "delivered"]
    BY <1>f, <2>4, <2>5
  <2>7. CASE ph[r] = "pending"
    <3>1. Life!Deliver(r)
      BY <2>6, <2>7 DEF Life!Deliver, ph
    <3>. QED BY <2>3, <3>1 DEF Life!LifeNext
  <2>8. CASE ph[r] = "delivered"
    BY <1>u, <2>4, <2>5, <2>8
  <2>. QED BY <2>5, <2>7, <2>8
<1>5. ASSUME NEW i \in Ids, TakeOut(i) PROVE Life!LifeNext \/ ph' = ph
  <2>1. mongo'[i] = None /\ (\A j \in Ids : j # i => mongo'[j] = mongo[j]) /\ UNCHANGED Started
    BY <1>5, <1>a DEF TakeOut
  <2>2. CASE mongo[i] = None
    BY <1>a, <1>p, <1>q, <1>u, <2>1, <2>2
  <2>3. CASE mongo[i] # None
    <3>. DEFINE r == mongo[i].req
    <3>1. r \in Reqs /\ IdOf[r] = i /\ r \in Started
      BY <2>3 DEF DocInv, Started
    <3>2. \A q \in Reqs : q # r => ph'[q] = ph[q]
      BY <1>a, <1>p, <1>q, <2>1
    <3>3. ph'[r] = "closed" /\ ph[r] # "closed"
      BY <1>p, <1>q, <2>1, <2>3, <3>1
    <3>4. ph' = [ph EXCEPT ![r] = "closed"]
      BY <1>f, <3>2, <3>3
    <3>5. Life!Close(r)
      BY <3>3, <3>4 DEF Life!Close, ph
    <3>. QED BY <3>1, <3>5 DEF Life!LifeNext
  <2>. QED BY <2>2, <2>3
<1>. QED
  BY <1>2, <1>3, <1>4, <1>5 DEF Effect, Life!LifeNext, ph

(* CommandHandle implements CommandLife: no interleaving, failure or crash *)
(* of any number of agents reopens a closed command, takes back a          *)
(* delivered one or opens one twice, with or without unique command ids.   *)
THEOREM LifeRefinement == Spec => LifeCycle
<1>1. Init => Life!LifeInit
  BY DEF Init, Idle, PhaseOf, Life!LifeInit
<1>2. LifeInv /\ LifeInv' /\ [Next]_vars => [Life!LifeNext]_([r \in Reqs |-> PhaseOf(r)])
  <2>. SUFFICES ASSUME LifeInv, LifeInv', [Next]_vars
                PROVE  [Life!LifeNext]_([r \in Reqs |-> PhaseOf(r)])
    OBVIOUS
  <2>1. TypeInv /\ TypeOK /\ DocInv /\ DocInv'
    BY DEF LifeInv, TypeInv
  <2>. QED BY <2>1, NextEffect, PhaseStep
<1>. QED BY <1>1, <1>2, LifeInvariant, PTL DEF Spec, LifeCycle, Life!LifeSpec

-----------------------------------------------------------------------------
(* The cache of each agent: finite, within its capacity, and with one      *)
(* object per sequence.                                                    *)
CacheOK(h) ==
  \A a \in Agents :
    /\ IsFiniteSet(Cached(h, a))
    /\ Cardinality(Cached(h, a)) <= MAX_SIZE_CACHE
    /\ \A o, p \in Cached(h, a) : SeqOf[h[o].req] = SeqOf[h[p].req] => o = p

(* Nothing enters the cache: it stays within its bounds. *)
LEMMA SmallerCache ==
  ASSUME NEW h, CacheOK(h), NEW g,
         \A o \in Obj : g[o] # None /\ g[o].cached =>
           h[o] # None /\ h[o].cached /\ g[o].ag = h[o].ag /\ g[o].req = h[o].req
  PROVE  CacheOK(g)
<1>. SUFFICES ASSUME NEW a \in Agents
              PROVE  /\ IsFiniteSet(Cached(g, a))
                     /\ Cardinality(Cached(g, a)) <= MAX_SIZE_CACHE
                     /\ \A o, p \in Cached(g, a) : SeqOf[g[o].req] = SeqOf[g[p].req] => o = p
  BY DEF CacheOK
<1>1. Cached(g, a) \subseteq Cached(h, a) /\ \A o \in Cached(g, a) : g[o].req = h[o].req
  BY DEF Cached, Live
<1>2. IsFiniteSet(Cached(h, a)) /\ Cardinality(Cached(h, a)) <= MAX_SIZE_CACHE
  BY DEF CacheOK
<1>3. IsFiniteSet(Cached(g, a)) /\ Cardinality(Cached(g, a)) <= Cardinality(Cached(h, a))
  BY <1>1, <1>2, FS_Subset
<1>4. Cardinality(Cached(g, a)) \in Nat /\ Cardinality(Cached(h, a)) \in Nat
  BY <1>2, <1>3, FS_CardinalityType
<1>5. Cardinality(Cached(g, a)) <= MAX_SIZE_CACHE
  BY <1>2, <1>3, <1>4, CacheAssumption
<1>. QED BY <1>1, <1>3, <1>5 DEF CacheOK

(* insert() respects the capacity and the unique index on the sequence. *)
LEMMA InsertCache ==
  ASSUME NEW h, HeapOK(h), CacheOK(h), NEW o \in Obj, h[o] # None
  PROVE  /\ CacheOK(Insert(h, o))
         /\ \A p \in Obj : Insert(h, o)[p] # None => h[p] # None
<1>. DEFINE g == Insert(h, o)
            a == h[o].ag
            twin == {p \in Cached(h, a) \ {o} : SeqOf[h[p].req] = SeqOf[h[o].req]}
            c == h[o].cached \/ twin = {}
            m == h[o].armed \/ CommandTimeout > 0
            n == [h[o] EXCEPT !.cached = c, !.armed = m]
<1>. SUFFICES CacheOK(g) /\ \A p \in Obj : g[p] # None => h[p] # None
  OBVIOUS
<1>1. CASE ~HasRoom(h, a)
  BY <1>1 DEF Insert
<1>2. CASE HasRoom(h, a)
  <2>1. c \in BOOLEAN /\ m \in BOOLEAN
    BY Zenon
  <2>2. h[o] \in Command
    BY DEF HeapOK
  <2>3. n.ag = a /\ n.req = h[o].req /\ (n.cached <=> c) /\ n \in Command
    <3>. HIDE DEF c, m
    <3>. QED BY <2>1, <2>2 DEF Command
  <2>4. g = [h EXCEPT ![o] = n]
    BY <1>2, <2>2 DEF Insert, HeapOK, Command
  <2>5. /\ g[o] = n /\ n # None
        /\ \A p \in Obj : p # o => g[p] = h[p]
    <3>. HIDE DEF n, g
    <3>. QED BY <2>3, <2>4, NoneAssumption DEF HeapOK
  <2>. HIDE DEF n, g
  <2>6. \A p \in Obj :
          /\ g[p] # None <=> h[p] # None
          /\ h[p] # None => g[p].ag = h[p].ag /\ g[p].req = h[p].req
    BY <2>3, <2>5
  <2>7. CASE h[o].cached \/ ~c
    <3>1. AddsNothing(h, g)
      <4>. HIDE DEF twin
      <4>. QED BY <2>3, <2>5, <2>6, <2>7 DEF AddsNothing
    <3>. QED BY <2>6, <3>1, SmallerCache DEF AddsNothing
  <2>8. CASE ~h[o].cached /\ c
    <3>1. twin = {}
      BY <2>8
    <3>2. Cached(g, a) = Cached(h, a) \cup {o} /\ o \notin Cached(h, a)
      BY <2>3, <2>5, <2>6, <2>8 DEF Cached, Live
    <3>3. \A b \in Agents : b # a => Cached(g, b) = Cached(h, b)
      BY <2>3, <2>5, <2>6 DEF Cached, Live
    <3>4. a \in Agents /\ IsFiniteSet(Cached(h, a)) /\ Cardinality(Cached(h, a)) < MAX_SIZE_CACHE
      BY <1>2, <2>2 DEF HasRoom, CacheOK, Command
    <3>5. /\ IsFiniteSet(Cached(g, a))
          /\ Cardinality(Cached(g, a)) = Cardinality(Cached(h, a)) + 1
          /\ Cardinality(Cached(h, a)) \in Nat
      BY <3>2, <3>4, FS_AddElement, FS_CardinalityType
    <3>6. Cardinality(Cached(g, a)) <= MAX_SIZE_CACHE
      BY <3>4, <3>5, CacheAssumption
    <3>7. \A p \in Cached(h, a) : SeqOf[h[p].req] # SeqOf[h[o].req]
      BY <3>1, <3>2
    <3>8. ASSUME NEW b, NEW p \in Cached(h, b) PROVE g[p].req = h[p].req
      <4>1. p \in Obj /\ h[p] # None
        BY <3>8 DEF Cached, Live
      <4>. QED BY <2>6, <4>1
    <3>9. \A p, q \in Cached(g, a) : SeqOf[g[p].req] = SeqOf[g[q].req] => p = q
      <4>1. \A p, q \in Cached(h, a) : SeqOf[h[p].req] = SeqOf[h[q].req] => p = q
        BY <3>4 DEF CacheOK
      <4>2. g[o].req = h[o].req
        BY <2>6
      <4>. HIDE DEF a, twin
      <4>. QED BY <3>2, <3>7, <3>8, <4>1, <4>2
    <3>. HIDE DEF a
    <3>10. CacheOK(g)
      BY <3>3, <3>5, <3>6, <3>8, <3>9 DEF CacheOK
    <3>. QED BY <2>6, <3>10
  <2>. QED BY <2>7, <2>8
<1>. QED BY <1>1, <1>2
(* A new object is not in the cache yet. *)
LEMMA NewCache ==
  ASSUME NEW h, HeapOK(h), CacheOK(h), Unused(h) # {},
         NEW a \in Agents, NEW r \in Reqs, NEW st \in Status
  PROVE  CacheOK([h EXCEPT ![NewAddress(h)] = NewCommand(a, r, st)])
<1>. DEFINE o == NewAddress(h)
            n == NewCommand(a, r, st)
            g == [h EXCEPT ![o] = n]
<1>1. o \in Obj /\ ~n.cached
  BY NewLemma DEF NewCommand
<1>. HIDE DEF o, n
<1>2. g[o] = n /\ \A p \in Obj : p # o => g[p] = h[p]
  BY <1>1 DEF HeapOK
<1>. HIDE DEF g
<1>3. \A p \in Obj : g[p] # None /\ g[p].cached =>
        h[p] # None /\ h[p].cached /\ g[p].ag = h[p].ag /\ g[p].req = h[p].req
  BY <1>1, <1>2
<1>4. CacheOK(g)
  BY <1>3, SmallerCache
<1>. QED BY <1>4 DEF g, o, n

(* What a step does to the heap: the caches stay in bounds, an object that *)
(* stays is no less delivered than it was, a new one is a copy of a        *)
(* command of R.                                                           *)
HeapStep(R) ==
  /\ CacheOK(heap')
  /\ \A o \in Obj : heap'[o] # None =>
       /\ heap[o] # None => /\ heap'[o].req = heap[o].req
                            /\ heap[o].st = DELIVERED => heap'[o].st = DELIVERED
       /\ heap[o] = None => heap'[o].req \in R

LEMMA GrownHeap ==
  ASSUME NEW h, HeapOK(h), CacheOK(h), Keeps(heap, h), SetHeap(h), NEW R,
         \A o \in Obj : heap[o] = None /\ h[o] # None => h[o].req \in R
  PROVE  HeapStep(R)
<1>1. \A o \in Obj : heap'[o] # None => heap'[o] = h[o]
  BY CollectLemma DEF SetHeap
<1>2. CacheOK(heap')
  BY <1>1, SmallerCache
<1>. QED BY <1>1, <1>2 DEF HeapStep, Keeps

LEMMA SameHeap ==
  ASSUME CacheOK(heap), NEW h, HeapOK(h), Keeps(heap, h), AddsNothing(heap, h),
         SetHeap(h) \/ heap' = h, NEW R
  PROVE  HeapStep(R)
<1>1. CacheOK(h)
  BY SmallerCache DEF AddsNothing
<1>2. \A o \in Obj : heap[o] = None => h[o] = None
  BY DEF AddsNothing
<1>3. CASE SetHeap(h)
  BY <1>1, <1>2, <1>3, GrownHeap
<1>4. CASE heap' = h
  BY <1>1, <1>2, <1>4 DEF HeapStep, Keeps
<1>. QED BY <1>3, <1>4

(* get_by_id() adds at most a copy of the document it has read. *)
LEMMA GetByIdCache ==
  ASSUME HeapOK(heap), CacheOK(heap), Unused(heap) # {}, NEW a \in Agents, NEW i,
         NEW doc \in Document \cup {None}, NEW g \in GetById(a, i, doc), NEW R,
         doc # None => doc.req \in R, SetHeap(g.h)
  PROVE  HeapStep(R)
<1>1. HeapOK(g.h) /\ Keeps(heap, g.h)
  BY GetByIdLemma
<1>2. CASE CachedById(heap, a, i) # {}
  <2>1. PICK o \in CachedById(heap, a, i) : g = [h |-> Insert(heap, o), o |-> o]
    BY <1>2 DEF GetById
  <2>2. o \in Obj /\ heap[o] # None
    BY DEF CachedById, Cached, Live
  <2>3. CacheOK(g.h) /\ \A p \in Obj : g.h[p] # None => heap[p] # None
    BY <2>1, <2>2, InsertCache
  <2>. QED BY <1>1, <2>3, GrownHeap
<1>3. CASE CachedById(heap, a, i) = {} /\ doc # None
  <2>. DEFINE o == NewAddress(heap)
              n == NewCommand(a, doc.req, doc.st)
              h == [heap EXCEPT ![o] = n]
  <2>1. doc.req \in Reqs /\ doc.st \in Status /\ n.req = doc.req
    BY <1>3 DEF Document, NewCommand
  <2>2. g = [h |-> Insert(h, o), o |-> o]
    BY <1>3 DEF GetById
  <2>3. o \in Obj /\ HeapOK(h) /\ n # None /\ CacheOK(h)
    BY <2>1, NewLemma, NewCache
  <2>. HIDE DEF o, n
  <2>4. h[o] = n /\ \A p \in Obj : p # o => h[p] = heap[p]
    BY <2>3 DEF HeapOK
  <2>. HIDE DEF h
  <2>5. /\ CacheOK(Insert(h, o)) /\ Keeps(h, Insert(h, o))
        /\ \A p \in Obj : Insert(h, o)[p] # None => h[p] # None
    BY <2>3, <2>4, InsertCache, InsertLemma
  <2>6. \A p \in Obj : heap[p] = None /\ g.h[p] # None => g.h[p].req \in R
    <3>. SUFFICES ASSUME NEW p \in Obj, heap[p] = None, g.h[p] # None PROVE g.h[p].req \in R
      OBVIOUS
    <3>1. p = o
      BY <2>2, <2>4, <2>5
    <3>. QED BY <1>3, <2>1, <2>2, <2>3, <2>4, <2>5, <3>1 DEF Keeps
  <2>. QED BY <1>1, <2>2, <2>5, <2>6, GrownHeap
<1>4. CASE CachedById(heap, a, i) = {} /\ doc = None
  <2>1. g.h = heap
    BY <1>4 DEF GetById
  <2>. QED BY <1>1, <2>1, GrownHeap
<1>. QED BY <1>2, <1>3, <1>4

(* updateCommand() makes the one object that its thread holds. *)
LEMMA UpdateHeap ==
  ASSUME TypeInv, CacheOK(heap), NEW a \in Agents, NEW r \in Reqs, UpdateCommand(a, r)
  PROVE  /\ HeapStep({r})
         /\ \A o \in Obj : heap[o] = None /\ heap'[o] # None => req'[r].obj = o
<1>. DEFINE o == NewAddress(heap)
            n == NewCommand(a, r, READY_FOR_READ)
            h == [heap EXCEPT ![o] = n]
<1>1. HeapOK(heap) /\ READY_FOR_READ \in Status
  BY DEF TypeInv, TypeOK, HeapOK, Status
<1>2. SetHeap(Insert(h, o)) /\ req'[r].obj = o
  BY DEF UpdateCommand, TypeInv, TypeOK
<1>3. o \in Obj /\ HeapOK(h) /\ Keeps(heap, h) /\ n # None /\ CacheOK(h) /\ n.req = r
  BY <1>1, NewLemma, NewCache DEF UpdateCommand, NewCommand
<1>. HIDE DEF o, n
<1>4. h[o] = n /\ \A p \in Obj : p # o => h[p] = heap[p]
  BY <1>1, <1>3 DEF HeapOK
<1>. HIDE DEF h
<1>5. /\ CacheOK(Insert(h, o)) /\ HeapOK(Insert(h, o)) /\ Keeps(h, Insert(h, o))
      /\ \A p \in Obj : Insert(h, o)[p] # None => h[p] # None
  BY <1>3, <1>4, InsertCache, InsertLemma
<1>6. \A p \in Obj : heap[p] = None /\ Insert(h, o)[p] # None => p = o
  BY <1>4, <1>5
<1>7. Keeps(heap, Insert(h, o)) /\ Insert(h, o)[o].req = r
  BY <1>3, <1>4, <1>5 DEF Keeps
<1>8. HeapStep({r})
  BY <1>2, <1>5, <1>6, <1>7, GrownHeap
<1>9. \A p \in Obj : heap'[p] # None => Insert(h, o)[p] # None
  BY <1>2, <1>5, CollectLemma DEF SetHeap
<1>. QED BY <1>2, <1>6, <1>8, <1>9

(* No other step makes an object, but for copies of stored commands. *)
LEMMA NextHeap ==
  ASSUME TypeInv, DocInv, CacheOK(heap), [Next]_vars,
         ~ \E a \in Agents, r \in Reqs : UpdateCommand(a, r)
  PROVE  HeapStep(Started)
<1>a. HeapOK(heap) /\ TypeOK /\ LiveRefs(heap, req, ans, lock) /\ ThreadRefs
  BY DEF TypeInv, TypeOK, HeapOK
<1>b. Keeps(heap, heap) /\ AddsNothing(heap, heap)
  BY DEF Keeps, AddsNothing
<1>c. UNCHANGED heap \/ SetHeap(heap) => HeapStep(Started)
  BY <1>a, <1>b, SameHeap
<1>d. ASSUME NEW i, NEW doc, i \in Ids, FindById(i, doc), doc # None
      PROVE  doc.req \in Started
  BY <1>d DEF FindById, DocInv
<1>1. CASE UNCHANGED vars
  BY <1>1, <1>c DEF vars
<1>2. ASSUME NEW r \in Reqs, RequestStep(r) PROVE HeapStep(Started)
  <2>1. CASE SaveCommand(r)
    BY <1>c, <2>1 DEF SaveCommand
  <2>2. CASE CommandResponse(r) \/ ResponseRemoveMongo(r) \/ AcceptedUpdateMongo(r)
               \/ AcceptedReport(r)
    BY <1>c, <2>2
       DEF CommandResponse, ResponseRemoveMongo, AcceptedUpdateMongo, AcceptedReport
  <2>3. CASE ResponseRemoveCache(r)
    <3>1. PICK h \in Remove(heap, req[r].ag, IdOf[r]) : SetHeap(h)
      BY <2>3 DEF ResponseRemoveCache
    <3>. QED BY <1>a, <3>1, RemoveLemma, SameHeap
  <2>4. CASE AcceptedGetCommand(r)
    <3>1. req[r].ag \in Agents /\ IdOf[r] \in Ids /\ Unused(heap) # {}
      BY <1>a, <2>4, RequestAssumption DEF AcceptedGetCommand, ThreadRefs, TypeOK, RequestThread
    <3>2. PICK doc \in Document \cup {None} :
            /\ doc = None \/ FindById(IdOf[r], doc)
            /\ \E g \in GetById(req[r].ag, IdOf[r], doc) : SetHeap(g.h)
      BY <2>4 DEF AcceptedGetCommand
    <3>3. doc # None => doc.req \in Started
      BY <1>d, <3>1, <3>2
    <3>. QED BY <1>a, <3>1, <3>2, <3>3, GetByIdCache
  <2>5. CASE AcceptedSetStatus(r)
    <3>1. CASE req[r].obj = None
      BY <1>c, <2>5, <3>1 DEF AcceptedSetStatus
    <3>2. CASE req[r].obj # None
      <4>1. req[r].obj \in Obj /\ heap[req[r].obj] # None
        BY <1>a, <3>2 DEF LiveRefs, Holds
      <4>2. SetHeap([heap EXCEPT ![req[r].obj].st = DELIVERED])
        BY <2>5, <3>2 DEF AcceptedSetStatus
      <4>. QED BY <1>a, <4>1, <4>2, StatusLemma, SameHeap
    <3>. QED BY <3>1, <3>2
  <2>. QED BY <1>2, <2>1, <2>2, <2>3, <2>4, <2>5 DEF RequestStep
<1>3. ASSUME NEW p \in Polls, NEW a \in Agents, NEW e \in Entities, GetAllCommand(p, a, e)
      PROVE  HeapStep(Started)
  <2>1. ASSUME NEW others \in SUBSET (Cached(heap, a) \ CachedReady(heap, a, e)),
               SetHeap(TouchAll(heap, CachedReady(heap, a, e) \cup others, DELIVERED))
        PROVE  HeapStep(Started)
    <3>1. CachedReady(heap, a, e) \cup others \in SUBSET Live(heap)
      BY DEF CachedReady, Cached
    <3>. QED BY <1>a, <2>1, <3>1, TouchLemma, SameHeap
  <2>2. ASSUME Unused(heap) # {}, NEW i \in Ids, mongo[i] # None,
               SetHeap(Insert([heap EXCEPT ![NewAddress(heap)] = NewCommand(a, mongo[i].req, DELIVERED)],
                              NewAddress(heap)))
        PROVE  HeapStep(Started)
    <3>. DEFINE o == NewAddress(heap)
                n == NewCommand(a, mongo[i].req, DELIVERED)
                h == [heap EXCEPT ![o] = n]
    <3>1. mongo[i].req \in Started /\ mongo[i].req \in Reqs /\ DELIVERED \in Status
      BY <2>2 DEF DocInv, Started, Status
    <3>2. /\ o \in Obj /\ HeapOK(h) /\ Keeps(heap, h) /\ n # None /\ CacheOK(h)
          /\ n.req = mongo[i].req
      BY <1>a, <2>2, <3>1, NewLemma, NewCache DEF NewCommand
    <3>3. SetHeap(Insert(h, o))
      BY <2>2
    <3>. HIDE DEF o, n
    <3>4. h[o] = n /\ \A q \in Obj : q # o => h[q] = heap[q]
      BY <1>a, <3>2 DEF HeapOK
    <3>. HIDE DEF h
    <3>5. /\ CacheOK(Insert(h, o)) /\ HeapOK(Insert(h, o)) /\ Keeps(h, Insert(h, o))
          /\ \A q \in Obj : Insert(h, o)[q] # None => h[q] # None
      BY <3>2, <3>4, InsertCache, InsertLemma
    <3>6. \A q \in Obj : heap[q] = None /\ Insert(h, o)[q] # None => q = o
      BY <3>4, <3>5
    <3>7. Keeps(heap, Insert(h, o)) /\ Insert(h, o)[o].req \in Started
      BY <3>1, <3>2, <3>4, <3>5 DEF Keeps
    <3>. QED BY <3>3, <3>5, <3>6, <3>7, GrownHeap
  <2>. QED BY <1>c, <1>3, <2>1, <2>2, Zenon DEF GetAllCommand
<1>4. ASSUME NEW p \in Polls, PollStep(p) PROVE HeapStep(Started)
  BY <1>c, <1>4 DEF PollStep, MarkDelivered
<1>5. ASSUME NEW s \in Answers, NEW a \in Agents, NEW e \in Entities, NEW i \in Ids,
             CommandResult(s, a, e, i)
      PROVE  HeapStep(Started)
  <2>1. PICK doc \in Document \cup {None} :
          /\ doc = None \/ FindById(i, doc)
          /\ \E g \in GetById(a, i, doc) : SetHeap(g.h)
    BY <1>5 DEF CommandResult
  <2>2. doc # None => doc.req \in Started
    BY <1>d, <2>1
  <2>3. Unused(heap) # {}
    BY <1>5 DEF CommandResult
  <2>. QED BY <1>a, <2>1, <2>2, <2>3, GetByIdCache
<1>6. ASSUME NEW s \in Answers, AnswerStep(s) PROVE HeapStep(Started)
  <2>1. CASE ResultRemoveCache(s)
    <3>. DEFINE h0 == [heap EXCEPT ![ans[s].obj].armed = FALSE]
    <3>1. Holds(heap, ans[s].obj, ans[s].ag)
      BY <1>a, <2>1 DEF ResultRemoveCache, LiveRefs, ThreadRefs
    <3>2. HeapOK(h0) /\ Keeps(heap, h0) /\ AddsNothing(heap, h0)
      BY <1>a, <3>1, DisarmLemma DEF Holds
    <3>3. PICK h \in Remove(h0, ans[s].ag, ans[s].id) : SetHeap(h)
      BY <2>1 DEF ResultRemoveCache
    <3>. HIDE DEF h0
    <3>4. HeapOK(h) /\ Keeps(h0, h) /\ AddsNothing(h0, h)
      BY <3>2, RemoveLemma
    <3>5. Keeps(heap, h) /\ AddsNothing(heap, h)
      BY <3>2, <3>4 DEF Keeps, AddsNothing
    <3>. QED BY <3>3, <3>4, <3>5, SameHeap
  <2>2. CASE ResultRemoveMongo(s)
    BY <1>c, <2>2 DEF ResultRemoveMongo
  <2>. QED BY <1>6, <2>1, <2>2 DEF AnswerStep
<1>7. ASSUME NEW o \in Obj, TimerStep(o) PROVE HeapStep(Started)
  <2>1. CASE TimerExpires(o)
    BY <1>a, <2>1, ExpireLemma, SameHeap DEF TimerExpires
  <2>2. CASE TimeoutCheck(o)
    BY <1>a, <2>2, UnqueueLemma, SameHeap DEF TimeoutCheck
  <2>. QED BY <1>7, <2>1, <2>2 DEF TimerStep
<1>8. ASSUME NEW a \in Agents, TimeoutStep(a) PROVE HeapStep(Started)
  <2>1. CASE TimeoutRefused(a)
    <3>1. PICK h \in Remove(heap, a, IdOf[heap[lock[a].obj].req]) : SetHeap(h)
      BY <2>1 DEF TimeoutRefused
    <3>. QED BY <1>a, <3>1, RemoveLemma, SameHeap
  <2>2. CASE TimeoutExpired(a)
    <3>. DEFINE i == IdOf[heap[lock[a].obj].req]
    <3>1. PICK h \in Remove(heap, a, i) : \E g \in Remove(h, a, i) : SetHeap(g)
      BY <2>2 DEF TimeoutExpired
    <3>2. PICK g \in Remove(h, a, i) : SetHeap(g)
      BY <3>1
    <3>3. HeapOK(h) /\ Keeps(heap, h) /\ AddsNothing(heap, h)
      BY <1>a, RemoveLemma
    <3>4. HeapOK(g) /\ Keeps(h, g) /\ AddsNothing(h, g)
      BY <3>3, RemoveLemma
    <3>5. Keeps(heap, g) /\ AddsNothing(heap, g)
      BY <3>3, <3>4 DEF Keeps, AddsNothing
    <3>. QED BY <3>2, <3>4, <3>5, SameHeap
  <2>. QED BY <1>8, <2>1, <2>2 DEF TimeoutStep
<1>9. ASSUME NEW a \in Agents, Crash(a) PROVE HeapStep(Started)
  <2>1. \A o \in Obj : heap'[o] # None => heap'[o] = heap[o]
    BY <1>9 DEF Crash
  <2>2. CacheOK(heap')
    BY <2>1, SmallerCache
  <2>. QED BY <2>1, <2>2 DEF HeapStep
<1>. QED BY <1>1, <1>2, <1>3, <1>4, <1>5, <1>6, <1>7, <1>8, <1>9 DEF Next

-----------------------------------------------------------------------------
(* Of a command that is not stored yet there is one object, the one that   *)
(* save_command() is about to write.                                       *)
ObjInv ==
  \A o \in Obj : heap[o] # None =>
    \/ heap[o].req \in Started
    \/ req[heap[o].req].pc = "saving" /\ req[heap[o].req].obj = o

(* The command of r can no longer be stored READY_FOR_READ ... *)
Safe(r) == r \in Started \/ (req[r].pc = "saving" /\ heap[req[r].obj].st = DELIVERED)
(* ... and is not stored so. *)
Marked(r) ==
  mongo[IdOf[r]] # None /\ mongo[IdOf[r]].req = r => mongo[IdOf[r]].st = DELIVERED

(* The commands a poll has found are safe, and marked as far as it got. *)
PollInv ==
  \A p \in Polls : \A r \in poll[p].got : Safe(r) /\ (r \in poll[p].todo \/ Marked(r))
HandInv == \A c \in handed : c[2] \in Push \/ (Safe(c[2]) /\ Marked(c[2]))

CopiesInv == LifeInv /\ CacheOK(heap) /\ ObjInv /\ PollInv /\ HandInv

(* A thread in save_command() ends it, or keeps its object. *)
LEMMA SavingKept ==
  ASSUME TypeInv, [Next]_vars, NEW r \in Reqs, req[r].pc = "saving"
  PROVE  r \in Started' \/ req'[r] = req[r]
<1>a. TypeOK /\ req \in [Reqs -> RequestThread]
  BY DEF TypeInv, TypeOK
<1>1. CASE UNCHANGED req
  BY <1>1
<1>2. ASSUME NEW a \in Agents, NEW q \in Reqs, UpdateCommand(a, q) PROVE req'[r] = req[r]
  BY <1>2, <1>a DEF UpdateCommand
<1>3. ASSUME NEW q \in Reqs, RequestStep(q) PROVE r \in Started' \/ req'[r] = req[r]
  <2>1. CASE q # r
    <3>1. \E pc, o, n : req' = RequestAt(q, pc, o, n)
      BY <1>3 DEF RequestStep, SaveCommand, CommandResponse, ResponseRemoveCache,
           ResponseRemoveMongo, AcceptedUpdateMongo, AcceptedGetCommand, AcceptedSetStatus,
           AcceptedReport
    <3>. QED BY <1>a, <2>1, <3>1 DEF RequestAt
  <2>2. CASE q = r
    <3>1. SaveCommand(r)
      BY <1>3, <2>2 DEF RequestStep, CommandResponse, ResponseRemoveCache,
           ResponseRemoveMongo, AcceptedUpdateMongo, AcceptedGetCommand, AcceptedSetStatus,
           AcceptedReport
    <3>2. PICK pc \in ReqPc \ {"idle", "saving"} : req' = RequestAt(r, pc, None, 0)
      BY <3>1 DEF SaveCommand, AfterSave, ReqPc
    <3>3. req'[r].pc = pc
      BY <1>a, <3>2, RequestAtLemma
    <3>. QED BY <3>3 DEF Started
  <2>. QED BY <2>1, <2>2
<1>4. ASSUME NEW a \in Agents, Crash(a) PROVE r \in Started' \/ req'[r] = req[r]
  <2>1. req'[r] = req[r] \/ req'[r].pc = "done"
    BY <1>4 DEF Crash, Idle
  <2>. QED BY <2>1 DEF Started
<1>5. CASE UNCHANGED vars
  BY <1>1, <1>5 DEF vars
<1>. QED
  BY <1>1, <1>2, <1>3, <1>4, <1>5
     DEF Next, GetAllCommand, PollStep, MarkDelivered, CommandResult, AnswerStep,
         ResultRemoveCache, ResultRemoveMongo, TimerStep, TimerExpires, TimeoutCheck,
         TimeoutStep, TimeoutRefused, TimeoutExpired

(* Whoever is through with save_command() stays so. *)
LEMMA StartedGrows == ASSUME Effect PROVE Started \subseteq Started'
BY DEF Effect, GiveUp, Store, MarkIt, TakeOut

(* What is safe stays safe: the object of a thread lives as long as the    *)
(* thread holds it, and its status never goes back.                        *)
LEMMA SafeStep ==
  ASSUME TypeInv, TypeInv', [Next]_vars, Effect, NEW R, HeapStep(R),
         NEW r \in Reqs, Safe(r)
  PROVE  Safe(r)'
<1>1. CASE r \in Started
  BY <1>1, StartedGrows DEF Safe
<1>2. CASE r \notin Started
  <2>. DEFINE o == req[r].obj
  <2>1. req[r].pc = "saving" /\ heap[o].st = DELIVERED
    BY <1>2 DEF Safe
  <2>2. o \in Obj /\ heap[o] # None
    BY <2>1 DEF TypeInv, ThreadRefs, LiveRefs, Holds
  <2>3. CASE r \in Started'
    BY <2>3 DEF Safe
  <2>4. CASE req'[r] = req[r]
    <3>1. heap'[o] # None
      BY <2>1, <2>4 DEF TypeInv, ThreadRefs, LiveRefs, Holds
    <3>2. heap'[o].st = DELIVERED
      BY <2>1, <2>2, <3>1 DEF HeapStep
    <3>. QED BY <2>1, <2>4, <3>2 DEF Safe
  <2>. QED BY <2>1, <2>3, <2>4, SavingKept
<1>. QED BY <1>1, <1>2

(* What is safe and marked stays marked. *)
LEMMA MarkedStep ==
  ASSUME TypeOK, Effect, NEW r \in Reqs, Safe(r), Marked(r)
  PROVE  Marked(r)'
<1>a. mongo \in [Ids -> Document \cup {None}] /\ IdOf[r] \in Ids
  BY RequestAssumption DEF TypeOK
<1>1. ASSUME NEW S \in SUBSET Reqs, GiveUp(S) PROVE Marked(r)'
  BY <1>1 DEF GiveUp, Marked
<1>2. ASSUME NEW q \in Reqs, Store(q) PROVE Marked(r)'
  <2>1. PICK d \in Document : /\ d.req = q /\ d.st = heap[req[q].obj].st
                              /\ mongo' = [mongo EXCEPT ![IdOf[q]] = d]
    BY <1>2 DEF Store
  <2>2. q = r => d.st = DELIVERED
    BY <1>2, <2>1 DEF Store, Safe
  <2>. QED BY <1>a, <2>1, <2>2 DEF Marked
<1>3. ASSUME NEW i \in Ids, MarkIt(i) PROVE Marked(r)'
  BY <1>3, <1>a DEF MarkIt, Marked
<1>4. ASSUME NEW i \in Ids, TakeOut(i) PROVE Marked(r)'
  BY <1>4, <1>a DEF TakeOut, Marked
<1>. QED BY <1>1, <1>2, <1>3, <1>4 DEF Effect

(* The objects that are there, after any step. *)
LEMMA ObjStep ==
  ASSUME TypeInv, TypeInv', DocInv, CacheOK(heap), ObjInv, [Next]_vars, Effect
  PROVE  ObjInv' /\ \E R : HeapStep(R)
<1>a. heap \in [Obj -> Command \cup {None}]
  BY DEF TypeInv, TypeOK
<1>b. ASSUME NEW R, HeapStep(R), NEW o \in Obj, heap[o] # None, heap'[o] # None
      PROVE  \/ heap'[o].req \in Started'
             \/ req'[heap'[o].req].pc = "saving" /\ req'[heap'[o].req].obj = o
  <2>1. heap'[o].req = heap[o].req /\ heap[o].req \in Reqs
    BY <1>a, <1>b DEF HeapStep, Command
  <2>2. CASE heap[o].req \in Started
    BY <2>1, <2>2, StartedGrows
  <2>3. CASE heap[o].req \notin Started
    BY <1>b, <2>1, <2>3, SavingKept DEF ObjInv
  <2>. QED BY <2>2, <2>3
<1>1. ASSUME NEW a \in Agents, NEW r \in Reqs, UpdateCommand(a, r)
      PROVE  ObjInv' /\ HeapStep({r})
  <2>1. /\ HeapStep({r})
        /\ \A o \in Obj : heap[o] = None /\ heap'[o] # None => req'[r].obj = o
    BY <1>1, UpdateHeap
  <2>2. req'[r].pc = "saving"
    BY <1>1 DEF UpdateCommand, TypeInv, TypeOK
  <2>3. ASSUME NEW o \in Obj, heap[o] = None, heap'[o] # None
        PROVE  req'[heap'[o].req].pc = "saving" /\ req'[heap'[o].req].obj = o
    <3>1. heap'[o].req = r
      BY <2>1, <2>3 DEF HeapStep
    <3>. QED BY <2>1, <2>2, <2>3, <3>1
  <2>. QED BY <1>b, <2>1, <2>3 DEF ObjInv
<1>2. ASSUME ~ \E a \in Agents, r \in Reqs : UpdateCommand(a, r)
      PROVE  ObjInv' /\ HeapStep(Started)
  <2>1. HeapStep(Started)
    BY <1>2, NextHeap
  <2>2. ASSUME NEW o \in Obj, heap[o] = None, heap'[o] # None
        PROVE  heap'[o].req \in Started'
    BY <2>1, <2>2, StartedGrows DEF HeapStep
  <2>. QED BY <1>b, <2>1, <2>2 DEF ObjInv
<1>. QED BY <1>1, <1>2

(* A poll finds what is safe. *)
LEMMA FoundSafe ==
  ASSUME TypeInv, DocInv, ObjInv, TypeInv',
         NEW p \in Polls, NEW a \in Agents, NEW e \in Entities, GetAllCommand(p, a, e)
  PROVE  /\ \A q \in Polls : q # p => poll'[q] = poll[q]
         /\ \A r \in poll'[p].got : Safe(r)' /\ r \in poll'[p].todo
<1>. DEFINE match == CachedReady(heap, a, e)
            T(S) == [pc |-> "marking", ag |-> a, dev |-> e, todo |-> S, got |-> S]
<1>a. /\ HeapOK(heap) /\ poll \in [Polls -> PollThread]
      /\ UNCHANGED req /\ Started' = Started
  BY DEF TypeInv, TypeOK, HeapOK, GetAllCommand, Started
<1>1. ASSUME NEW others \in SUBSET (Cached(heap, a) \ match),
             SetHeap(TouchAll(heap, match \cup others, DELIVERED)),
             poll' = [poll EXCEPT ![p] = T({heap[o].req : o \in match \cup others})]
      PROVE  /\ \A q \in Polls : q # p => poll'[q] = poll[q]
             /\ \A r \in poll'[p].got : Safe(r)' /\ r \in poll'[p].todo
  <2>. DEFINE found == match \cup others
              h == TouchAll(heap, found, DELIVERED)
  <2>1. found \in SUBSET Live(heap)
    BY DEF CachedReady, Cached
  <2>2. HeapOK(h) /\ \A o \in found : h[o].st = DELIVERED
    BY <1>a, <2>1, TouchLemma
  <2>3. /\ poll'[p].got = {heap[o].req : o \in found} /\ poll'[p].todo = poll'[p].got
        /\ \A q \in Polls : q # p => poll'[q] = poll[q]
    BY <1>1, <1>a
  <2>4. SetHeap(h)
    BY <1>1
  <2>. HIDE DEF found, h
  <2>5. ASSUME NEW o \in found, NEW r, r = heap[o].req PROVE Safe(r)'
    <3>1. o \in Obj /\ heap[o] # None /\ r \in Reqs
      BY <1>a, <2>1, <2>5 DEF Live, HeapOK, Command
    <3>2. CASE r \in Started
      BY <1>a, <3>2 DEF Safe
    <3>3. CASE r \notin Started
      <4>1. req'[r].pc = "saving" /\ req'[r].obj = o
        BY <1>a, <2>5, <3>1, <3>3 DEF ObjInv
      <4>2. heap'[o] # None
        BY <3>1, <4>1 DEF TypeInv, ThreadRefs, LiveRefs, Holds
      <4>3. heap'[o].st = DELIVERED
        BY <2>2, <2>4, <3>1, <4>2, CollectLemma DEF SetHeap
      <4>. QED BY <4>1, <4>3 DEF Safe
    <3>. QED BY <3>2, <3>3
  <2>. QED BY <2>3, <2>5
<1>2. ASSUME NEW i \in Ids, mongo[i] # None, poll' = [poll EXCEPT ![p] = T({mongo[i].req})]
      PROVE  /\ \A q \in Polls : q # p => poll'[q] = poll[q]
             /\ \A r \in poll'[p].got : Safe(r)' /\ r \in poll'[p].todo
  <2>1. mongo[i].req \in Started'
    BY <1>a, <1>2 DEF DocInv
  <2>2. /\ poll'[p].got = {mongo[i].req} /\ poll'[p].todo = poll'[p].got
        /\ \A q \in Polls : q # p => poll'[q] = poll[q]
    BY <1>2, <1>a
  <2>. QED BY <2>1, <2>2 DEF Safe
<1>3. ASSUME poll' = [poll EXCEPT ![p] = [IdlePoll EXCEPT !.pc = "done", !.dev = e]]
      PROVE  /\ \A q \in Polls : q # p => poll'[q] = poll[q]
             /\ \A r \in poll'[p].got : Safe(r)' /\ r \in poll'[p].todo
  <2>1. poll'[p].got = {} /\ \A q \in Polls : q # p => poll'[q] = poll[q]
    BY <1>3, <1>a DEF IdlePoll
  <2>. QED BY <2>1
<1>. QED BY <1>1, <1>2, <1>3, Zenon DEF GetAllCommand

(* What polls have found and devices have got, after any step. *)
LEMMA HandStep ==
  ASSUME TypeInv, TypeInv', DocInv, ObjInv, PollInv, HandInv, [Next]_vars, Effect,
         NEW R, HeapStep(R)
  PROVE  PollInv' /\ HandInv'
<1>a. /\ TypeOK /\ poll \in [Polls -> PollThread] /\ handed \subseteq Entities \X Reqs
      /\ \A p \in Polls : poll[p].got \subseteq Reqs
  BY DEF TypeInv, TypeOK, PollThread
<1>b. \A r \in Reqs : /\ Safe(r) => Safe(r)'
                      /\ Safe(r) /\ Marked(r) => Marked(r)'
  BY <1>a, SafeStep, MarkedStep
<1>c. ASSUME NEW p \in Polls, poll'[p] = poll[p], NEW r \in poll[p].got
      PROVE  Safe(r)' /\ (r \in poll'[p].todo \/ Marked(r)')
  BY <1>a, <1>b, <1>c DEF PollInv
<1>d. ASSUME NEW c \in handed PROVE c[2] \in Push \/ (Safe(c[2])' /\ Marked(c[2])')
  <2>1. c[2] \in Reqs
    BY <1>a
  <2>. QED BY <1>b, <2>1 DEF HandInv
<1>e. UNCHANGED poll => PollInv'
  BY <1>c DEF PollInv
<1>f. UNCHANGED handed => HandInv'
  BY <1>d DEF HandInv
<1>1. CASE UNCHANGED <<poll, handed>>
  BY <1>1, <1>e, <1>f
<1>2. ASSUME NEW r \in Reqs, SaveCommand(r) PROVE PollInv' /\ HandInv'
  <2>1. UNCHANGED poll /\ (handed' = handed \/ (r \in Push /\ handed' = handed \cup {<<EntityOf[r], r>>}))
    BY <1>2 DEF SaveCommand
  <2>. QED BY <1>d, <1>e, <2>1 DEF HandInv
<1>3. ASSUME NEW p \in Polls, NEW a \in Agents, NEW e \in Entities, GetAllCommand(p, a, e)
      PROVE  PollInv' /\ HandInv'
  <2>1. HandInv'
    BY <1>3, <1>f DEF GetAllCommand
  <2>2. /\ \A q \in Polls : q # p => poll'[q] = poll[q]
        /\ \A r \in poll'[p].got : Safe(r)' /\ r \in poll'[p].todo
    BY <1>3, FoundSafe
  <2>. QED BY <1>c, <2>1, <2>2 DEF PollInv
<1>4. ASSUME NEW p \in Polls, NEW r \in Reqs, MarkDelivered(p, r)
      PROVE  PollInv' /\ HandInv'
  <2>1. \A q \in Polls : q # p => poll'[q] = poll[q]
    BY <1>4, <1>a DEF MarkDelivered
  <2>2. CASE DbWorks /\ mongo' = Mark(IdOf[r], r)
                /\ poll'[p].todo = poll[p].todo \ {r} /\ poll'[p].got = poll[p].got
                /\ handed' = IF poll[p].todo \ {r} = {}
                             THEN handed \cup ({poll[p].dev} \X poll[p].got) ELSE handed
    <3>1. Marked(r)'
      <4>1. IdOf[r] \in Ids /\ mongo \in [Ids -> Document \cup {None}]
        BY <1>a, RequestAssumption DEF TypeOK
      <4>. QED BY <2>2, <4>1, MarkLemma DEF Marked
    <3>2. \A x \in poll[p].got : Safe(x)' /\ (x \in poll[p].todo \ {r} \/ Marked(x)')
      BY <1>a, <1>b, <3>1 DEF PollInv
    <3>3. PollInv'
      BY <1>c, <2>1, <2>2, <3>2 DEF PollInv
    <3>4. ASSUME NEW c \in handed' PROVE c[2] \in Push \/ (Safe(c[2])' /\ Marked(c[2])')
      <4>1. CASE c \in handed
        BY <1>d, <4>1
      <4>2. CASE c \notin handed
        <5>1. poll[p].todo \ {r} = {} /\ c[2] \in poll[p].got
          BY <2>2, <3>4, <4>2
        <5>. QED BY <3>2, <5>1
      <4>. QED BY <4>1, <4>2
    <3>. QED BY <3>3, <3>4 DEF HandInv
  <2>3. CASE poll'[p].got = {} /\ UNCHANGED handed
    BY <1>c, <1>f, <2>1, <2>3 DEF PollInv
  <2>4. \/ /\ DbWorks /\ mongo' = Mark(IdOf[r], r)
           /\ poll' = [poll EXCEPT ![p].todo = poll[p].todo \ {r},
                                   ![p].pc = IF poll[p].todo \ {r} = {} THEN "done" ELSE @]
           /\ handed' = IF poll[p].todo \ {r} = {}
                        THEN handed \cup ({poll[p].dev} \X poll[p].got) ELSE handed
        \/ /\ poll' = [poll EXCEPT ![p].pc = "done", ![p].todo = {}, ![p].got = {}]
           /\ UNCHANGED handed
    BY <1>4 DEF MarkDelivered
  <2>5. CASE poll' = [poll EXCEPT ![p].todo = poll[p].todo \ {r},
                                  ![p].pc = IF poll[p].todo \ {r} = {} THEN "done" ELSE @]
    <3>1. poll'[p].todo = poll[p].todo \ {r} /\ poll'[p].got = poll[p].got
      BY <1>a, <2>5 DEF PollThread
    <3>2. \/ poll' # [poll EXCEPT ![p].pc = "done", ![p].todo = {}, ![p].got = {}]
          \/ poll'[p].got = {}
      BY <1>a DEF PollThread
    <3>. QED BY <2>2, <2>3, <2>4, <3>1, <3>2
  <2>6. CASE poll' = [poll EXCEPT ![p].pc = "done", ![p].todo = {}, ![p].got = {}]
              /\ UNCHANGED handed
    <3>1. poll'[p].got = {}
      BY <1>a, <2>6 DEF PollThread
    <3>. QED BY <2>3, <2>6, <3>1
  <2>. QED BY <2>4, <2>5, <2>6
<1>5. ASSUME NEW a \in Agents, Crash(a) PROVE PollInv' /\ HandInv'
  <2>1. \A p \in Polls : poll'[p] = poll[p] \/ poll'[p].got = {}
    BY <1>5 DEF Crash, IdlePoll
  <2>2. PollInv'
    BY <1>c, <2>1 DEF PollInv
  <2>. QED BY <1>5, <1>f, <2>2 DEF Crash
<1>. QED
  BY <1>1, <1>2, <1>3, <1>4, <1>5
     DEF Next, vars, UpdateCommand, RequestStep, CommandResponse, ResponseRemoveCache,
         ResponseRemoveMongo, AcceptedUpdateMongo, AcceptedGetCommand, AcceptedSetStatus,
         AcceptedReport, PollStep, CommandResult, AnswerStep, ResultRemoveCache,
         ResultRemoveMongo, TimerStep, TimerExpires, TimeoutCheck, TimeoutStep,
         TimeoutRefused, TimeoutExpired

LEMMA CopiesInvariant == Spec => []CopiesInv
<1>1. Init => CopiesInv
  <2>. SUFFICES ASSUME Init PROVE CopiesInv
    OBVIOUS
  <2>1. \A a \in Agents : Cached(heap, a) = {}
    BY DEF Init, Cached, Live
  <2>2. CacheOK(heap)
    BY <2>1, FS_EmptySet, CacheAssumption DEF CacheOK
  <2>3. ObjInv /\ PollInv /\ HandInv
    BY DEF Init, ObjInv, PollInv, HandInv, IdlePoll
  <2>. QED BY <2>2, <2>3, InitLifeInv DEF CopiesInv
<1>2. CopiesInv /\ [Next]_vars => CopiesInv'
  <2>. SUFFICES ASSUME CopiesInv, [Next]_vars PROVE CopiesInv'
    OBVIOUS
  <2>1. LifeInv /\ TypeInv /\ DocInv /\ CacheOK(heap) /\ ObjInv /\ PollInv /\ HandInv
    BY DEF CopiesInv, LifeInv
  <2>2. LifeInv' /\ TypeInv' /\ Effect
    BY <2>1, NextLifeInv, NextTypeInv, NextEffect
  <2>3. ObjInv' /\ \E R : HeapStep(R)
    BY <2>1, <2>2, ObjStep
  <2>4. PICK R : HeapStep(R)
    BY <2>3
  <2>5. PollInv' /\ HandInv'
    BY <2>1, <2>2, <2>4, HandStep
  <2>6. CacheOK(heap)'
    BY <2>4 DEF HeapStep
  <2>. QED BY <2>2, <2>3, <2>5, <2>6 DEF CopiesInv
<1>. QED BY <1>1, <1>2, PTL DEF Spec

(* A device never has a command that the database calls READY_FOR_READ,    *)
(* however a poll races with save_command(), other polls, failures and     *)
(* crashes; and the cache of an agent never exceeds its capacity or holds  *)
(* two objects of one sequence.                                            *)
THEOREM CopiesStayTrue == Spec => []CopiesAreTrue
<1>1. CopiesInv => CopiesAreTrue
  <2>. SUFFICES ASSUME CopiesInv PROVE MarkedBeforeHanded /\ CacheConsistent
    BY DEF CopiesAreTrue
  <2>1. CacheConsistent
    BY DEF CopiesInv, CacheOK, CacheConsistent
  <2>2. MarkedBeforeHanded
    BY DEF CopiesInv, HandInv, Marked, MarkedBeforeHanded
  <2>. QED BY <2>1, <2>2
<1>. QED BY <1>1, CopiesInvariant, PTL

-----------------------------------------------------------------------------
(* What the operations of the cache do to each object, field by field.     *)

(* insert() changes one object: it enters the cache and its timer starts.  *)
LEMMA InsertIs ==
  ASSUME NEW h, HeapOK(h), NEW o \in Obj, h[o] # None, NEW g, g = Insert(h, o)
  PROVE  /\ \A p \in Obj : p # o => g[p] = h[p]
         /\ g[o] \in Command /\ g[o] # None
         /\ g[o].ag = h[o].ag /\ g[o].req = h[o].req /\ g[o].st = h[o].st
         /\ g[o].queued = h[o].queued
         /\ h[o].armed => g[o].armed
         /\ h[o].cached => g[o].cached
         /\ CommandTimeout > 0 /\ g[o].cached => h[o].cached \/ g[o].armed
         /\ HasRoom(h, h[o].ag) =>
              /\ CommandTimeout > 0 => g[o].armed
              /\ (\A p \in Cached(h, h[o].ag) : SeqOf[h[p].req] # SeqOf[h[o].req])
                   => g[o].cached
<1>. DEFINE twin == {p \in Cached(h, h[o].ag) \ {o} : SeqOf[h[p].req] = SeqOf[h[o].req]}
            c == h[o].cached \/ twin = {}
            m == h[o].armed \/ CommandTimeout > 0
            n == [h[o] EXCEPT !.cached = c, !.armed = m]
<1>1. h[o] \in Command
  BY DEF HeapOK
<1>2. c \in BOOLEAN /\ m \in BOOLEAN
  BY Zenon
<1>3. /\ n \in Command /\ n.ag = h[o].ag /\ n.req = h[o].req /\ n.st = h[o].st
      /\ n.queued = h[o].queued /\ (n.cached <=> c) /\ (n.armed <=> m)
  <2>. HIDE DEF c, m
  <2>. QED BY <1>1, <1>2 DEF Command
<1>4. n # None
  BY <1>3, NoneAssumption
<1>5. CASE HasRoom(h, h[o].ag)
  <2>1. g = [h EXCEPT ![o] = n]
    BY <1>5, <1>1 DEF Insert, HeapOK, Command
  <2>. HIDE DEF n
  <2>2. g[o] = n /\ \A p \in Obj : p # o => g[p] = h[p]
    BY <2>1 DEF HeapOK
  <2>3. /\ (\A p \in Cached(h, h[o].ag) : SeqOf[h[p].req] # SeqOf[h[o].req]) => c
        /\ h[o].cached => c
        /\ m <=> h[o].armed \/ CommandTimeout > 0
    OBVIOUS
  <2>. HIDE DEF c, m
  <2>. QED BY <2>2, <2>3, <1>3, <1>4
<1>6. CASE ~HasRoom(h, h[o].ag)
  BY <1>1, <1>6 DEF Insert
<1>. QED BY <1>5, <1>6

(* A new object, in the cache of its agent or not. *)
LEMMA NewInsert ==
  ASSUME HeapOK(heap), NEW a \in Agents, NEW r \in Reqs, NEW st \in Status,
         NEW o \in Obj, heap[o] = None, NEW h, HeapOK(h), h[o] # None,
         h[o] = NewCommand(a, r, st), \A p \in Obj : p # o => h[p] = heap[p],
         NEW g, g = Insert(h, o)
  PROVE  /\ \A p \in Obj : p # o => g[p] = heap[p]
         /\ g[o] # None /\ g[o].ag = a /\ g[o].req = r /\ g[o].st = st /\ ~g[o].queued
         /\ CommandTimeout > 0 /\ g[o].cached => g[o].armed
         /\ HasRoom(heap, a) =>
              /\ CommandTimeout > 0 => g[o].armed
              /\ (\A p \in Cached(heap, a) : SeqOf[heap[p].req] # SeqOf[r]) => g[o].cached
<1>1. /\ h[o].ag = a /\ h[o].req = r /\ h[o].st = st
      /\ h[o].cached = FALSE /\ h[o].queued = FALSE
  BY DEF NewCommand
<1>2. Cached(h, a) = Cached(heap, a) /\ o \notin Cached(heap, a)
  BY <1>1 DEF Cached, Live
<1>3. \A p \in Cached(heap, a) : h[p].req = heap[p].req
  BY <1>2 DEF Cached, Live
<1>4. /\ \A p \in Obj : p # o => g[p] = h[p]
      /\ g[o] # None
      /\ g[o].ag = h[o].ag /\ g[o].req = h[o].req /\ g[o].st = h[o].st
      /\ g[o].queued = h[o].queued
      /\ CommandTimeout > 0 /\ g[o].cached => h[o].cached \/ g[o].armed
      /\ HasRoom(h, h[o].ag) =>
           /\ CommandTimeout > 0 => g[o].armed
           /\ (\A p \in Cached(h, h[o].ag) : SeqOf[h[p].req] # SeqOf[h[o].req])
                => g[o].cached
  BY InsertIs
<1>5. HasRoom(heap, a) <=> HasRoom(h, a)
  BY <1>2 DEF HasRoom
<1>. QED BY <1>1, <1>2, <1>3, <1>4, <1>5

(* In g there is one object more than in the heap, inserted at o. *)
Added(g, o, a, r, st) ==
  /\ o \in Obj /\ heap[o] = None /\ HeapOK(g)
  /\ \A p \in Obj : p # o => g[p] = heap[p]
  /\ g[o] # None /\ g[o].ag = a /\ g[o].req = r /\ g[o].st = st /\ ~g[o].queued
  /\ CommandTimeout > 0 /\ g[o].cached => g[o].armed
  /\ HasRoom(heap, a) =>
       /\ CommandTimeout > 0 => g[o].armed
       /\ (\A p \in Cached(heap, a) : SeqOf[heap[p].req] # SeqOf[r]) => g[o].cached

(* insert() of a new object. *)
LEMMA NewIs ==
  ASSUME HeapOK(heap), Unused(heap) # {}, NEW a \in Agents, NEW r \in Reqs, NEW st \in Status
  PROVE  Added(Insert([heap EXCEPT ![NewAddress(heap)] = NewCommand(a, r, st)], NewAddress(heap)),
               NewAddress(heap), a, r, st)
<1>. DEFINE o == NewAddress(heap)
            n == NewCommand(a, r, st)
            h == [heap EXCEPT ![o] = n]
            g == Insert(h, o)
<1>1. /\ o \in Obj /\ heap[o] = None /\ n # None /\ HeapOK(h)
  BY NewLemma
<1>. HIDE DEF o
<1>2. h[o] = n /\ \A p \in Obj : p # o => h[p] = heap[p]
  BY <1>1 DEF HeapOK
<1>. HIDE DEF h
<1>3. HeapOK(g)
  BY <1>1, <1>2, InsertLemma
<1>. HIDE DEF g
<1>4. g = Insert(h, o)
  BY DEF g
<1>5. /\ \A p \in Obj : p # o => g[p] = heap[p]
      /\ g[o] # None /\ g[o].ag = a /\ g[o].req = r /\ g[o].st = st /\ ~g[o].queued
      /\ CommandTimeout > 0 /\ g[o].cached => g[o].armed
      /\ HasRoom(heap, a) =>
           /\ CommandTimeout > 0 => g[o].armed
           /\ (\A p \in Cached(heap, a) : SeqOf[heap[p].req] # SeqOf[r]) => g[o].cached
  BY <1>1, <1>2, <1>4, NewInsert
<1>6. Added(g, o, a, r, st)
  BY <1>1, <1>3, <1>5 DEF Added
<1>. QED BY <1>6, Zenon DEF o, h, g

(* remove() takes one object of the id out of the cache, if there is one.  *)
LEMMA RemoveIs ==
  ASSUME NEW h, HeapOK(h), NEW a, NEW i, NEW g \in Remove(h, a, i)
  PROVE  \/ CachedById(h, a, i) = {} /\ g = h
         \/ \E o \in CachedById(h, a, i) :
              /\ \A p \in Obj : p # o => g[p] = h[p]
              /\ g[o] # None /\ g[o].ag = a /\ g[o].req = h[o].req /\ g[o].st = h[o].st
              /\ ~g[o].cached /\ ~g[o].armed /\ g[o].queued = h[o].queued
<1>1. CASE CachedById(h, a, i) = {}
  BY <1>1 DEF Remove
<1>2. CASE CachedById(h, a, i) # {}
  <2>1. PICK o \in CachedById(h, a, i) : g = Uncache(h, o)
    BY <1>2 DEF Remove
  <2>2. o \in Obj /\ h[o] # None /\ h[o] \in Command /\ h[o].ag = a
    BY DEF CachedById, Cached, Live, HeapOK
  <2>. DEFINE n == [h[o] EXCEPT !.cached = FALSE, !.armed = FALSE]
  <2>3. /\ n.ag = a /\ n.req = h[o].req /\ n.st = h[o].st
        /\ ~n.cached /\ ~n.armed /\ n.queued = h[o].queued /\ n \in Command
    BY <2>2 DEF Command
  <2>4. g = [h EXCEPT ![o] = n]
    BY <2>1, <2>2 DEF Uncache, HeapOK, Command
  <2>5. n # None
    BY <2>3, NoneAssumption
  <2>. HIDE DEF n
  <2>6. g[o] = n /\ \A p \in Obj : p # o => g[p] = h[p]
    BY <2>2, <2>4 DEF HeapOK
  <2>. QED BY <2>3, <2>5, <2>6
<1>. QED BY <1>1, <1>2

(* The loop of get_by_entityV restarts the timers of what it returns. *)
LEMMA TouchIs ==
  ASSUME NEW h, HeapOK(h), NEW S \in SUBSET Live(h), NEW g, g = TouchAll(h, S, DELIVERED)
  PROVE  /\ \A o \in Obj \ S : g[o] = h[o]
         /\ \A o \in S :
              /\ g[o] # None /\ g[o].ag = h[o].ag /\ g[o].req = h[o].req
              /\ g[o].st = DELIVERED /\ g[o].cached = h[o].cached
              /\ g[o].queued = h[o].queued /\ (h[o].armed => g[o].armed)
              /\ HasRoom(h, h[o].ag) /\ CommandTimeout > 0 => g[o].armed
<1>. DEFINE m(o) == h[o].armed \/ (HasRoom(h, h[o].ag) /\ CommandTimeout > 0)
            n(o) == [h[o] EXCEPT !.st = DELIVERED, !.armed = m(o)]
<1>1. ASSUME NEW o \in Obj, h[o] # None
      PROVE  /\ n(o) # None /\ n(o).ag = h[o].ag /\ n(o).req = h[o].req
             /\ n(o).st = DELIVERED /\ n(o).cached = h[o].cached
             /\ n(o).queued = h[o].queued /\ (n(o).armed <=> m(o))
  <2>1. h[o] \in Command
    BY <1>1 DEF HeapOK
  <2>2. m(o) \in BOOLEAN
    BY Zenon
  <2>3. /\ n(o) \in Command /\ n(o).ag = h[o].ag /\ n(o).req = h[o].req
        /\ n(o).st = DELIVERED /\ n(o).cached = h[o].cached
        /\ n(o).queued = h[o].queued /\ (n(o).armed <=> m(o))
    <3>. HIDE DEF m
    <3>. QED BY <2>1, <2>2 DEF Command, Status
  <2>. QED BY <2>3, NoneAssumption
<1>2. g = [o \in Obj |-> IF o \in S THEN n(o) ELSE h[o]]
  BY Zenon DEF TouchAll
<1>3. \A o \in S : o \in Obj /\ h[o] # None
  BY DEF Live
<1>. HIDE DEF n
<1>. QED BY <1>1, <1>2, <1>3

(* A handler that starts is no longer queued: one flag of one object. *)
LEMMA UnqueueIs ==
  ASSUME NEW h, HeapOK(h), NEW o \in Obj, h[o] # None, NEW g, g = [h EXCEPT ![o].queued = FALSE]
  PROVE  /\ \A p \in Obj : p # o => g[p] = h[p]
         /\ g[o] # None /\ g[o].ag = h[o].ag /\ g[o].req = h[o].req /\ g[o].st = h[o].st
         /\ g[o].cached = h[o].cached /\ g[o].armed = h[o].armed /\ ~g[o].queued
<1>1. h[o] \in Command
  BY DEF HeapOK
<1>2. HeapOK(g) /\ Keeps(h, g)
  BY UnqueueLemma
<1>. QED BY <1>1, <1>2 DEF HeapOK, Command, Keeps

(* A timer whose deadline passes: its handler is queued. *)
LEMMA ExpireIs ==
  ASSUME NEW h, HeapOK(h), NEW o \in Obj, h[o] # None, NEW g, g = Expire(h, o)
  PROVE  /\ \A p \in Obj : p # o => g[p] = h[p]
         /\ g[o] # None /\ g[o].ag = h[o].ag /\ g[o].req = h[o].req /\ g[o].st = h[o].st
         /\ g[o].cached = h[o].cached /\ ~g[o].armed /\ g[o].queued
<1>1. h[o] \in Command
  BY DEF HeapOK
<1>2. HeapOK(g) /\ Keeps(h, g)
  BY ExpireLemma
<1>. QED BY <1>1, <1>2 DEF HeapOK, Command, Keeps, Expire

(* set_status() changes the status of one object only. *)
LEMMA StatusIs ==
  ASSUME NEW h, HeapOK(h), NEW o \in Obj, h[o] # None,
         NEW g, g = [h EXCEPT ![o].st = DELIVERED]
  PROVE  /\ \A p \in Obj : p # o => g[p] = h[p]
         /\ g[o] # None /\ g[o].ag = h[o].ag /\ g[o].req = h[o].req
         /\ g[o].cached = h[o].cached /\ g[o].armed = h[o].armed /\ g[o].queued = h[o].queued
<1>1. h[o] \in Command
  BY DEF HeapOK
<1>2. HeapOK(g) /\ Keeps(h, g)
  BY StatusLemma
<1>. QED BY <1>1, <1>2 DEF HeapOK, Command, Keeps

(* What is cached or timed is not destroyed. *)
LEMMA SetHeapIs ==
  ASSUME NEW h, HeapOK(h), SetHeap(h), NEW o \in Obj
  PROVE  /\ heap'[o] # None => heap'[o] = h[o]
         /\ h[o] # None /\ (h[o].cached \/ h[o].armed \/ h[o].queued) => heap'[o] = h[o]
BY DEF SetHeap, Collect, HeapOK

-----------------------------------------------------------------------------
(* A cached object has a running timer, a queued handler or a running one. *)

(* No two commands have an id or a sequence in common: the id is the uuid  *)
(* of the updateContext or one made for it (transform_command), and the    *)
(* updateContext asks for one command.  An Ultralight id, device@command,  *)
(* is used again, and that is not covered.                                 *)
Distinct ==
  \A q, r \in Reqs : IdOf[q] = IdOf[r] \/ SeqOf[q] = SeqOf[r] => q = r

TimedIn(h, lk) ==
  \A o \in Obj : h[o] # None /\ h[o].cached =>
    h[o].armed \/ h[o].queued \/ lk[h[o].ag].obj = o

(* The object a result has found is one of the command it answers. *)
AnswersMatch ==
  \A s \in Answers : ans[s].pc \in {"got", "removing"} =>
    IdOf[heap[ans[s].obj].req] = ans[s].id

(* A mutex that is free is held by no handler. *)
FreeLocks == \A a \in Agents : lock[a].pc = "free" => lock[a].obj = None

TimedInv == TimedIn(heap, lock) /\ AnswersMatch /\ FreeLocks

(* An agent has at most one cached object of an id. *)
LEMMA OnePerId ==
  ASSUME Distinct, NEW h, HeapOK(h), CacheOK(h), NEW a \in Agents, NEW i,
         NEW o \in CachedById(h, a, i), NEW p \in CachedById(h, a, i)
  PROVE  o = p
<1>1. /\ o \in Cached(h, a) /\ p \in Cached(h, a)
      /\ IdOf[h[o].req] = i /\ IdOf[h[p].req] = i
  BY DEF CachedById
<1>2. h[o].req \in Reqs /\ h[p].req \in Reqs
  BY <1>1 DEF Cached, Live, HeapOK, Command
<1>3. h[o].req = h[p].req
  BY <1>1, <1>2 DEF Distinct
<1>. QED BY <1>1, <1>3 DEF CacheOK

(* Objects that are destroyed, or whose fields a step leaves alone. *)
LEMMA TimedSame ==
  ASSUME NEW h, HeapOK(h), SetHeap(h) \/ heap' = h, NEW lk, TimedIn(h, lk)
  PROVE  TimedIn(heap', lk)
BY SetHeapIs DEF TimedIn

(* remove() leaves nothing of the id cached without a timer. *)
LEMMA TimedRemove ==
  ASSUME NEW h, HeapOK(h), NEW a \in Agents, NEW i, NEW g \in Remove(h, a, i), NEW lk,
         TimedIn(h, lk)
  PROVE  TimedIn(g, lk) /\ HeapOK(g)
<1>1. HeapOK(g)
  BY RemoveLemma
<1>2. CASE g = h
  BY <1>1, <1>2
<1>3. ASSUME NEW o \in CachedById(h, a, i), \A p \in Obj : p # o => g[p] = h[p], ~g[o].cached
      PROVE  TimedIn(g, lk)
  BY <1>3 DEF TimedIn
<1>. QED BY <1>1, <1>2, <1>3, RemoveIs

(* ... also when one object of the id had none: it is the one removed.     *)
LEMMA TimedRemoveOne ==
  ASSUME Distinct, NEW h, HeapOK(h), CacheOK(h), NEW a \in Agents, NEW o \in Obj,
         h[o] # None, h[o].ag = a, NEW g \in Remove(h, a, IdOf[h[o].req]), NEW lk,
         \A p \in Obj : p # o /\ h[p] # None /\ h[p].cached =>
           h[p].armed \/ h[p].queued \/ lk[h[p].ag].obj = p
  PROVE  TimedIn(g, lk) /\ HeapOK(g)
<1>. DEFINE i == IdOf[h[o].req]
<1>1. HeapOK(g)
  BY RemoveLemma
<1>2. h[o].cached => o \in CachedById(h, a, i)
  BY DEF CachedById, Cached, Live
<1>3. CASE CachedById(h, a, i) = {} /\ g = h
  BY <1>1, <1>2, <1>3 DEF TimedIn
<1>4. ASSUME NEW q \in CachedById(h, a, i), \A p \in Obj : p # q => g[p] = h[p], ~g[q].cached
      PROVE  TimedIn(g, lk)
  <2>1. h[o].cached => o = q
    BY <1>2, OnePerId
  <2>. QED BY <1>4, <2>1 DEF TimedIn
<1>. QED BY <1>1, <1>3, <1>4, RemoveIs

(* insert() starts the timer of what it puts into the cache. *)
LEMMA TimedInsert ==
  ASSUME CommandTimeout > 0, NEW h, HeapOK(h), NEW o \in Obj, h[o] # None, NEW lk,
         TimedIn(h, lk)
  PROVE  TimedIn(Insert(h, o), lk)
<1>. DEFINE g == Insert(h, o)
<1>1. /\ \A p \in Obj : p # o => g[p] = h[p]
      /\ g[o].ag = h[o].ag /\ g[o].queued = h[o].queued /\ (h[o].armed => g[o].armed)
      /\ g[o].cached => h[o].cached \/ g[o].armed
  BY InsertIs
<1>. HIDE DEF g
<1>2. TimedIn(g, lk)
  BY <1>1 DEF TimedIn
<1>. QED BY <1>2 DEF g

(* A new object is timed as soon as it is cached. *)
LEMMA TimedNew ==
  ASSUME CommandTimeout > 0, HeapOK(heap), Unused(heap) # {}, NEW a \in Agents,
         NEW r \in Reqs, NEW st \in Status, NEW lk, TimedIn(heap, lk)
  PROVE  LET o == NewAddress(heap)
             h == [heap EXCEPT ![o] = NewCommand(a, r, st)]
         IN  HeapOK(Insert(h, o)) /\ TimedIn(Insert(h, o), lk)
<1>. DEFINE o == NewAddress(heap)
            h == [heap EXCEPT ![o] = NewCommand(a, r, st)]
            g == Insert(h, o)
<1>1. Added(g, o, a, r, st)
  BY NewIs, Zenon
<1>. HIDE DEF o, h, g
<1>2. TimedIn(g, lk) /\ HeapOK(g)
  BY <1>1 DEF TimedIn, Added
<1>. QED BY <1>1, <1>2 DEF o, h, g

(* get_by_id() starts the timer of what it returns. *)
LEMMA TimedGet ==
  ASSUME CommandTimeout > 0, HeapOK(heap), Unused(heap) # {}, NEW a \in Agents, NEW i,
         NEW doc \in Document \cup {None}, NEW g \in GetById(a, i, doc), NEW lk,
         TimedIn(heap, lk)
  PROVE  HeapOK(g.h) /\ TimedIn(g.h, lk)
<1>1. CASE CachedById(heap, a, i) # {}
  <2>1. PICK o \in CachedById(heap, a, i) : g = [h |-> Insert(heap, o), o |-> o]
    BY <1>1 DEF GetById
  <2>2. o \in Obj /\ heap[o] # None
    BY DEF CachedById, Cached, Live
  <2>3. HeapOK(Insert(heap, o)) /\ TimedIn(Insert(heap, o), lk)
    BY <2>2, InsertLemma, TimedInsert
  <2>. QED BY <2>1, <2>3
<1>2. CASE CachedById(heap, a, i) = {} /\ doc # None
  <2>. DEFINE o == NewAddress(heap)
              h == [heap EXCEPT ![o] = NewCommand(a, doc.req, doc.st)]
  <2>1. doc.req \in Reqs /\ doc.st \in Status
    BY <1>2 DEF Document
  <2>2. g = [h |-> Insert(h, o), o |-> o]
    BY <1>2 DEF GetById
  <2>3. HeapOK(Insert(h, o)) /\ TimedIn(Insert(h, o), lk)
    BY <2>1, TimedNew
  <2>. QED BY <2>2, <2>3
<1>3. CASE CachedById(heap, a, i) = {} /\ doc = None
  BY <1>3 DEF GetById
<1>. QED BY <1>1, <1>2, <1>3

(* What get_by_id() returns is an object of the id it was asked for. *)
LEMMA GetMatches ==
  ASSUME HeapOK(heap), Unused(heap) # {}, NEW a \in Agents, NEW i,
         NEW doc \in Document \cup {None}, doc # None => IdOf[doc.req] = i,
         NEW g \in GetById(a, i, doc), g.o # None
  PROVE  g.o \in Obj /\ g.h[g.o] # None /\ IdOf[g.h[g.o].req] = i
<1>1. CASE CachedById(heap, a, i) # {}
  <2>1. PICK o \in CachedById(heap, a, i) : g = [h |-> Insert(heap, o), o |-> o]
    BY <1>1 DEF GetById
  <2>2. o \in Obj /\ heap[o] # None /\ IdOf[heap[o].req] = i
    BY DEF CachedById, Cached, Live
  <2>3. Insert(heap, o)[o] # None /\ Insert(heap, o)[o].req = heap[o].req
    BY <2>2, InsertIs
  <2>. QED BY <2>1, <2>2, <2>3
<1>2. CASE CachedById(heap, a, i) = {} /\ doc # None
  <2>. DEFINE o == NewAddress(heap)
              h == [heap EXCEPT ![o] = NewCommand(a, doc.req, doc.st)]
  <2>1. doc.req \in Reqs /\ doc.st \in Status
    BY <1>2 DEF Document
  <2>2. g = [h |-> Insert(h, o), o |-> o]
    BY <1>2 DEF GetById
  <2>3. Added(Insert(h, o), o, a, doc.req, doc.st)
    BY <2>1, NewIs, Zenon
  <2>. HIDE DEF o, h
  <2>. QED BY <1>2, <2>2, <2>3 DEF Added
<1>3. CASE CachedById(heap, a, i) = {} /\ doc = None
  BY <1>3 DEF GetById
<1>. QED BY <1>1, <1>2, <1>3

(* What is cached stays timed, at every step of every agent. *)
LEMMA TimedStep ==
  ASSUME Distinct, CommandTimeout > 0, TypeInv, DocInv, CacheOK(heap), AnswersMatch,
         FreeLocks, TimedIn(heap, lock), [Next]_vars
  PROVE  TimedIn(heap', lock')
<1>a. HeapOK(heap) /\ TypeOK /\ LiveRefs(heap, req, ans, lock) /\ ThreadRefs
  BY DEF TypeInv, TypeOK, HeapOK
<1>b. UNCHANGED lock /\ (UNCHANGED heap \/ SetHeap(heap)) => TimedIn(heap', lock')
  BY <1>a, TimedSame
<1>c. ASSUME UNCHANGED lock, NEW h, HeapOK(h), TimedIn(h, lock), SetHeap(h)
      PROVE  TimedIn(heap', lock')
  BY <1>c, TimedSame
<1>1. CASE UNCHANGED vars
  BY <1>1, <1>b DEF vars
<1>2. ASSUME NEW a \in Agents, NEW r \in Reqs, UpdateCommand(a, r) PROVE TimedIn(heap', lock')
  <2>. DEFINE o == NewAddress(heap)
              h == [heap EXCEPT ![o] = NewCommand(a, r, READY_FOR_READ)]
  <2>1. UNCHANGED lock /\ SetHeap(Insert(h, o)) /\ Unused(heap) # {}
    BY <1>2 DEF UpdateCommand
  <2>2. READY_FOR_READ \in Status
    BY DEF Status
  <2>3. HeapOK(Insert(h, o)) /\ TimedIn(Insert(h, o), lock)
    BY <1>a, <2>1, <2>2, TimedNew
  <2>. HIDE DEF o, h
  <2>. QED BY <1>c, <2>1, <2>3
<1>3. ASSUME NEW r \in Reqs, RequestStep(r) PROVE TimedIn(heap', lock')
  <2>1. CASE SaveCommand(r)
    BY <1>b, <2>1 DEF SaveCommand
  <2>2. CASE CommandResponse(r) \/ ResponseRemoveMongo(r) \/ AcceptedUpdateMongo(r)
               \/ AcceptedReport(r)
    BY <1>b, <2>2
       DEF CommandResponse, ResponseRemoveMongo, AcceptedUpdateMongo, AcceptedReport
  <2>3. CASE ResponseRemoveCache(r)
    <3>1. PICK h \in Remove(heap, req[r].ag, IdOf[r]) : SetHeap(h)
      BY <2>3 DEF ResponseRemoveCache
    <3>2. req[r].ag \in Agents /\ UNCHANGED lock
      BY <1>a, <2>3 DEF ResponseRemoveCache, ThreadRefs, TypeOK, RequestThread
    <3>. QED BY <1>a, <1>c, <3>1, <3>2, TimedRemove
  <2>4. CASE AcceptedGetCommand(r)
    <3>1. req[r].ag \in Agents /\ Unused(heap) # {} /\ UNCHANGED lock
      BY <1>a, <2>4 DEF AcceptedGetCommand, ThreadRefs, TypeOK, RequestThread
    <3>2. PICK doc \in Document \cup {None} :
            \E g \in GetById(req[r].ag, IdOf[r], doc) : SetHeap(g.h)
      BY <2>4 DEF AcceptedGetCommand
    <3>. QED BY <1>a, <1>c, <3>1, <3>2, TimedGet
  <2>5. CASE AcceptedSetStatus(r)
    <3>1. CASE req[r].obj = None
      BY <1>b, <2>5, <3>1 DEF AcceptedSetStatus
    <3>2. CASE req[r].obj # None
      <4>. DEFINE o == req[r].obj
                  h == [heap EXCEPT ![o].st = DELIVERED]
      <4>1. o \in Obj /\ heap[o] # None
        BY <1>a, <3>2 DEF LiveRefs, Holds
      <4>2. SetHeap(h) /\ UNCHANGED lock
        BY <2>5, <3>2 DEF AcceptedSetStatus
      <4>3. HeapOK(h)
        BY <1>a, <4>1, StatusLemma
      <4>4. /\ \A p \in Obj : p # o => h[p] = heap[p]
            /\ h[o].ag = heap[o].ag /\ h[o].cached = heap[o].cached
            /\ h[o].armed = heap[o].armed /\ h[o].queued = heap[o].queued
        BY <1>a, <4>1, StatusIs
      <4>. HIDE DEF o, h
      <4>5. TimedIn(h, lock)
        BY <4>1, <4>4 DEF TimedIn
      <4>. QED BY <1>c, <4>2, <4>3, <4>5
    <3>. QED BY <3>1, <3>2
  <2>. QED BY <1>3, <2>1, <2>2, <2>3, <2>4, <2>5 DEF RequestStep
<1>4. ASSUME NEW p \in Polls, NEW a \in Agents, NEW e \in Entities, GetAllCommand(p, a, e)
      PROVE  TimedIn(heap', lock')
  <2>0. UNCHANGED lock
    BY <1>4 DEF GetAllCommand
  <2>1. ASSUME NEW others \in SUBSET (Cached(heap, a) \ CachedReady(heap, a, e)),
               SetHeap(TouchAll(heap, CachedReady(heap, a, e) \cup others, DELIVERED))
        PROVE  TimedIn(heap', lock')
    <3>. DEFINE S == CachedReady(heap, a, e) \cup others
                h == TouchAll(heap, S, DELIVERED)
    <3>1. S \in SUBSET Live(heap)
      BY DEF CachedReady, Cached
    <3>2. SetHeap(h)
      BY <2>1
    <3>. HIDE DEF S
    <3>3. HeapOK(h)
      BY <1>a, <3>1, TouchLemma
    <3>4. /\ \A o \in Obj \ S : h[o] = heap[o]
          /\ \A o \in S : /\ h[o].ag = heap[o].ag /\ h[o].cached = heap[o].cached
                          /\ h[o].queued = heap[o].queued /\ (heap[o].armed => h[o].armed)
      BY <1>a, <3>1, TouchIs
    <3>5. \A o \in S : heap[o] # None
      BY <3>1 DEF Live
    <3>. HIDE DEF h
    <3>6. TimedIn(h, lock)
      BY <3>4, <3>5 DEF TimedIn
    <3>. QED BY <1>c, <2>0, <3>2, <3>3, <3>6
  <2>2. ASSUME Unused(heap) # {}, NEW i \in Ids, mongo[i] # None,
               SetHeap(Insert([heap EXCEPT ![NewAddress(heap)] = NewCommand(a, mongo[i].req, DELIVERED)],
                              NewAddress(heap)))
        PROVE  TimedIn(heap', lock')
    <3>. DEFINE o == NewAddress(heap)
                h == [heap EXCEPT ![o] = NewCommand(a, mongo[i].req, DELIVERED)]
    <3>1. mongo[i].req \in Reqs /\ DELIVERED \in Status
      BY <2>2 DEF DocInv, Started, Status
    <3>2. SetHeap(Insert(h, o))
      BY <2>2
    <3>3. HeapOK(Insert(h, o)) /\ TimedIn(Insert(h, o), lock)
      BY <1>a, <2>2, <3>1, TimedNew
    <3>. HIDE DEF o, h
    <3>. QED BY <1>c, <2>0, <3>2, <3>3
  <2>. QED BY <1>b, <1>4, <2>0, <2>1, <2>2, Zenon DEF GetAllCommand
<1>5. ASSUME NEW p \in Polls, PollStep(p) PROVE TimedIn(heap', lock')
  BY <1>b, <1>5 DEF PollStep, MarkDelivered
<1>6. ASSUME NEW s \in Answers, NEW a \in Agents, NEW e \in Entities, NEW i \in Ids,
             CommandResult(s, a, e, i)
      PROVE  TimedIn(heap', lock')
  <2>1. PICK doc \in Document \cup {None} : \E g \in GetById(a, i, doc) : SetHeap(g.h)
    BY <1>6 DEF CommandResult
  <2>2. Unused(heap) # {} /\ UNCHANGED lock
    BY <1>6 DEF CommandResult
  <2>. QED BY <1>a, <1>c, <2>1, <2>2, TimedGet
<1>7. ASSUME NEW s \in Answers, AnswerStep(s) PROVE TimedIn(heap', lock')
  <2>1. CASE ResultRemoveCache(s)
    <3>. DEFINE o == ans[s].obj
                h0 == [heap EXCEPT ![o].armed = FALSE]
    <3>1. /\ Holds(heap, o, ans[s].ag) /\ IdOf[heap[o].req] = ans[s].id
          /\ UNCHANGED lock
      BY <1>a, <2>1 DEF ResultRemoveCache, LiveRefs, ThreadRefs, AnswersMatch
    <3>2. ans[s].ag \in Agents
      BY <1>a, <3>1 DEF HeapOK, Holds, Command
    <3>3. HeapOK(h0) /\ AddsNothing(heap, h0)
      BY <1>a, <3>1, DisarmLemma DEF Holds
    <3>4. /\ \A p \in Obj : p # o => h0[p] = heap[p]
          /\ h0[o] # None /\ h0[o].ag = heap[o].ag /\ h0[o].req = heap[o].req
      <4>1. o \in Obj /\ heap[o] # None
        BY <3>1 DEF Holds
      <4>2. \A p \in Obj : p # o => h0[p] = heap[p]
        BY <1>a DEF HeapOK
      <4>3. Keeps(heap, h0)
        BY <1>a, <4>1, DisarmLemma
      <4>. HIDE DEF o, h0
      <4>. QED BY <4>1, <4>2, <4>3 DEF Keeps
    <3>5. PICK h \in Remove(h0, ans[s].ag, ans[s].id) : SetHeap(h)
      BY <2>1 DEF ResultRemoveCache
    <3>. HIDE DEF o, h0
    <3>6. CacheOK(h0)
      BY <3>3, SmallerCache DEF AddsNothing
    <3>7. h \in Remove(h0, ans[s].ag, IdOf[h0[o].req])
      BY <3>1, <3>4, <3>5
    <3>8. \A p \in Obj : p # o /\ h0[p] # None /\ h0[p].cached =>
            h0[p].armed \/ h0[p].queued \/ lock[h0[p].ag].obj = p
      BY <3>4 DEF TimedIn
    <3>9. o \in Obj /\ h0[o] # None /\ h0[o].ag = ans[s].ag
      BY <3>1, <3>4 DEF Holds
    <3>10. TimedIn(h, lock) /\ HeapOK(h)
      BY <3>2, <3>3, <3>6, <3>7, <3>8, <3>9, TimedRemoveOne
    <3>. QED BY <1>c, <3>1, <3>5, <3>10
  <2>2. CASE ResultRemoveMongo(s)
    BY <1>b, <2>2 DEF ResultRemoveMongo
  <2>. QED BY <1>7, <2>1, <2>2 DEF AnswerStep
<1>8. ASSUME NEW o \in Obj, TimerStep(o) PROVE TimedIn(heap', lock')
  <2>0. heap[o] # None /\ heap[o].ag \in Agents
    BY <1>a, <1>8 DEF TimerStep, TimerExpires, TimeoutCheck, HeapOK, Command
  <2>1. CASE TimerExpires(o)
    <3>1. heap' = Expire(heap, o) /\ UNCHANGED lock
      BY <2>1 DEF TimerExpires
    <3>2. /\ \A p \in Obj : p # o => heap'[p] = heap[p]
          /\ heap'[o].queued
      BY <1>a, <2>0, <3>1, ExpireIs
    <3>. QED BY <3>1, <3>2 DEF TimedIn
  <2>2. CASE TimeoutCheck(o)
    <3>. DEFINE a == heap[o].ag
                h == [heap EXCEPT ![o].queued = FALSE]
    <3>1. /\ \A p \in Obj : p # o => h[p] = heap[p]
          /\ h[o].ag = a
      BY <1>a, <2>0, UnqueueIs
    <3>2. HeapOK(h)
      BY <1>a, <2>0, UnqueueLemma
    <3>3. /\ SetHeap(h) /\ lock'[a].obj = o
          /\ \A b \in Agents : b # a => lock'[b] = lock[b]
          /\ Unlocked(a)
      BY <1>a, <2>0, <2>2 DEF TimeoutCheck, TypeOK
    <3>. HIDE DEF h
    <3>4. ASSUME NEW p \in Obj, p # o, heap[p] # None, heap[p].ag = a, heap[p].cached
          PROVE  heap[p].armed \/ heap[p].queued
      <4>1. heap[p].armed \/ heap[p].queued \/ lock[a].obj = p
        BY <3>4 DEF TimedIn
      <4>2. lock[a].obj = None
        BY <2>0, <3>3 DEF Unlocked, FreeLocks
      <4>. QED BY <3>4, <4>1, <4>2, NoneAssumption
    <3>5. TimedIn(h, lock')
      <4>. SUFFICES ASSUME NEW p \in Obj, h[p] # None, h[p].cached
                    PROVE  h[p].armed \/ h[p].queued \/ lock'[h[p].ag].obj = p
        BY DEF TimedIn
      <4>1. CASE p = o
        BY <3>1, <3>3, <4>1
      <4>2. CASE p # o /\ heap[p].ag = a
        BY <3>1, <3>4, <4>2
      <4>3. CASE p # o /\ heap[p].ag # a
        <5>1. h[p] = heap[p] /\ heap[p].ag \in Agents
          BY <1>a, <3>1, <4>3 DEF HeapOK, Command
        <5>2. lock'[h[p].ag] = lock[h[p].ag]
          BY <3>3, <4>3, <5>1
        <5>. QED BY <5>1, <5>2 DEF TimedIn
      <4>. QED BY <4>1, <4>2, <4>3
    <3>. QED BY <3>2, <3>3, <3>5, TimedSame
  <2>. QED BY <1>8, <2>1, <2>2 DEF TimerStep
<1>9. ASSUME NEW a \in Agents, TimeoutStep(a) PROVE TimedIn(heap', lock')
  <2>. DEFINE o == lock[a].obj
              i == IdOf[heap[o].req]
  <2>1. Holds(heap, o, a) /\ \A b \in Agents : b # a => lock'[b] = lock[b]
    BY <1>9, <1>a DEF TimeoutStep, TimeoutRefused, TimeoutExpired, LiveRefs, ThreadRefs, TypeOK
  <2>2. \A p \in Obj : p # o /\ heap[p] # None /\ heap[p].cached =>
          heap[p].armed \/ heap[p].queued \/ lock'[heap[p].ag].obj = p
    <3>. SUFFICES ASSUME NEW p \in Obj, p # o, heap[p] # None, heap[p].cached
                  PROVE  heap[p].armed \/ heap[p].queued \/ lock'[heap[p].ag].obj = p
      OBVIOUS
    <3>1. heap[p].ag \in Agents
      BY <1>a DEF HeapOK, Command
    <3>. QED BY <2>1, <3>1 DEF TimedIn
  <2>3. ASSUME NEW h \in Remove(heap, a, i) PROVE TimedIn(h, lock') /\ HeapOK(h)
    <3>1. o \in Obj /\ heap[o] # None /\ heap[o].ag = a
      BY <2>1 DEF Holds
    <3>. HIDE DEF o
    <3>. QED BY <1>a, <2>2, <3>1, TimedRemoveOne
  <2>4. CASE TimeoutRefused(a)
    <3>1. PICK h \in Remove(heap, a, i) : SetHeap(h)
      BY <2>4 DEF TimeoutRefused
    <3>. QED BY <2>3, <3>1, TimedSame
  <2>5. CASE TimeoutExpired(a)
    <3>1. PICK h \in Remove(heap, a, i) : \E g \in Remove(h, a, i) : SetHeap(g)
      BY <2>5 DEF TimeoutExpired
    <3>2. PICK g \in Remove(h, a, i) : SetHeap(g)
      BY <3>1
    <3>3. TimedIn(g, lock') /\ HeapOK(g)
      BY <2>3, TimedRemove
    <3>. QED BY <3>2, <3>3, TimedSame
  <2>. QED BY <1>9, <2>4, <2>5 DEF TimeoutStep
<1>10. ASSUME NEW a \in Agents, Crash(a) PROVE TimedIn(heap', lock')
  <2>1. /\ \A o \in Obj : heap'[o] # None => heap'[o] = heap[o] /\ heap[o].ag # a
        /\ \A b \in Agents : b # a => lock'[b] = lock[b]
    BY <1>10, <1>a DEF Crash, TypeOK
  <2>2. \A o \in Obj : heap[o] # None => heap[o].ag \in Agents
    BY <1>a DEF HeapOK, Command
  <2>. QED BY <2>1, <2>2 DEF TimedIn
<1>. QED BY <1>1, <1>2, <1>3, <1>4, <1>5, <1>6, <1>7, <1>8, <1>9, <1>10 DEF Next

(* Results and mutexes, after any step. *)
LEMMA MatchStep ==
  ASSUME TypeInv, TypeInv', DocInv, AnswersMatch, FreeLocks, [Next]_vars,
         NEW R, HeapStep(R)
  PROVE  AnswersMatch' /\ FreeLocks'
<1>a. HeapOK(heap) /\ TypeOK /\ ThreadRefs /\ LiveRefs(heap, req, ans, lock)
  BY DEF TypeInv, TypeOK, HeapOK
<1>b. ASSUME NEW s \in Answers, ans'[s].pc \in {"got", "removing"},
             ans[s].pc \in {"got", "removing"}, ans'[s].obj = ans[s].obj, ans'[s].id = ans[s].id
      PROVE  IdOf[heap'[ans'[s].obj].req] = ans'[s].id
  <2>. DEFINE o == ans[s].obj
  <2>1. o \in Obj /\ heap[o] # None
    BY <1>a, <1>b DEF ThreadRefs, LiveRefs, Holds
  <2>2. heap'[o] # None
    BY <1>b DEF TypeInv, ThreadRefs, LiveRefs, Holds
  <2>3. heap'[o].req = heap[o].req
    BY <2>1, <2>2 DEF HeapStep
  <2>. QED BY <1>b, <2>3 DEF AnswersMatch
<1>c. UNCHANGED ans => AnswersMatch'
  BY <1>b DEF AnswersMatch
<1>d. UNCHANGED lock => FreeLocks'
  BY DEF FreeLocks
<1>1. CASE UNCHANGED <<ans, lock>>
  BY <1>1, <1>c, <1>d
<1>2. ASSUME NEW s \in Answers, NEW a \in Agents, NEW e \in Entities, NEW i \in Ids,
             CommandResult(s, a, e, i)
      PROVE  AnswersMatch' /\ FreeLocks'
  <2>1. PICK doc \in Document \cup {None} :
          /\ doc = None \/ FindById(i, doc)
          /\ \E g \in GetById(a, i, doc) :
               /\ ans' = [ans EXCEPT ![s] =
                           [pc |-> IF g.o = None THEN "done" ELSE "got",
                            ag |-> a, dev |-> e, id |-> i, obj |-> g.o]]
               /\ SetHeap(g.h)
    BY <1>2 DEF CommandResult
  <2>2. PICK g \in GetById(a, i, doc) :
               /\ ans' = [ans EXCEPT ![s] =
                           [pc |-> IF g.o = None THEN "done" ELSE "got",
                            ag |-> a, dev |-> e, id |-> i, obj |-> g.o]]
               /\ SetHeap(g.h)
    BY <2>1
  <2>3. doc # None => IdOf[doc.req] = i
    BY <2>1 DEF FindById, DocInv
  <2>4. Unused(heap) # {} /\ UNCHANGED lock
    BY <1>2 DEF CommandResult
  <2>5. /\ ans'[s].pc = (IF g.o = None THEN "done" ELSE "got")
        /\ ans'[s].id = i /\ ans'[s].obj = g.o
        /\ \A t \in Answers : t # s => ans'[t] = ans[t]
    BY <1>a, <2>2 DEF TypeOK
  <2>6. CASE g.o = None
    BY <1>b, <1>d, <2>4, <2>5, <2>6 DEF AnswersMatch
  <2>7. CASE g.o # None
    <3>1. g.o \in Obj /\ g.h[g.o] # None /\ IdOf[g.h[g.o].req] = i
      BY <1>a, <2>3, <2>4, <2>7, GetMatches
    <3>2. HeapOK(g.h)
      BY <1>a, <2>4, GetByIdLemma
    <3>3. heap'[g.o] # None
      BY <2>5, <2>7 DEF TypeInv, LiveRefs, Holds
    <3>4. heap'[g.o] = g.h[g.o]
      BY <2>2, <3>1, <3>2, <3>3, SetHeapIs
    <3>. QED BY <1>b, <1>d, <2>4, <2>5, <3>1, <3>4 DEF AnswersMatch
  <2>. QED BY <2>6, <2>7
<1>3. ASSUME NEW s \in Answers, AnswerStep(s) PROVE AnswersMatch' /\ FreeLocks'
  <2>1. \/ ResultRemoveCache(s) /\ ans' = AnswerAt(s, "removing", ans[s].obj)
        \/ ans' = AnswerAt(s, "done", None)
    BY <1>3 DEF AnswerStep, ResultRemoveCache, ResultRemoveMongo
  <2>2. UNCHANGED lock /\ ans[s].pc \in {"got", "removing"}
    BY <1>3 DEF AnswerStep, ResultRemoveCache, ResultRemoveMongo
  <2>3. /\ \A t \in Answers : t # s => ans'[t] = ans[t]
        /\ ans'[s].id = ans[s].id
        /\ ans'[s].pc = "done" \/ ans'[s].obj = ans[s].obj
    BY <1>a, <2>1 DEF AnswerAt, TypeOK
  <2>. QED BY <1>b, <1>d, <2>2, <2>3 DEF AnswersMatch
<1>4. ASSUME NEW o \in Obj, TimeoutCheck(o) PROVE AnswersMatch' /\ FreeLocks'
  <2>1. heap[o].ag \in Agents
    BY <1>a, <1>4 DEF TimeoutCheck, HeapOK, Command
  <2>2. \A b \in Agents : lock'[b] = lock[b] \/ lock'[b].pc \in {"refused", "expired"}
    BY <1>4, <1>a, <2>1 DEF TimeoutCheck, TypeOK
  <2>3. FreeLocks'
    BY <2>2 DEF FreeLocks
  <2>. QED BY <1>4, <1>c, <2>3 DEF TimeoutCheck
<1>5. ASSUME NEW a \in Agents, TimeoutStep(a) PROVE AnswersMatch' /\ FreeLocks'
  <2>1. \A b \in Agents : lock'[b] = lock[b] \/ lock'[b].obj = None
    <3>1. lock' = [lock EXCEPT ![a] = NoTimeout]
      BY <1>5 DEF TimeoutStep, TimeoutRefused, TimeoutExpired
    <3>. QED BY <3>1, <1>a DEF TypeOK, NoTimeout
  <2>2. FreeLocks'
    BY <2>1 DEF FreeLocks
  <2>. QED BY <1>5, <1>c, <2>2 DEF TimeoutStep, TimeoutRefused, TimeoutExpired
<1>6. ASSUME NEW a \in Agents, Crash(a) PROVE AnswersMatch' /\ FreeLocks'
  <2>1. \A b \in Agents : lock'[b] = lock[b] \/ lock'[b].obj = None
    BY <1>6, <1>a DEF Crash, TypeOK, NoTimeout
  <2>2. \A s \in Answers : ans'[s] = ans[s] \/ ans'[s].pc = "done"
    BY <1>6, <1>a DEF Crash, IdleAnswer
  <2>3. FreeLocks'
    BY <2>1 DEF FreeLocks
  <2>. QED BY <1>b, <2>2, <2>3 DEF AnswersMatch
<1>. QED
  BY <1>1, <1>2, <1>3, <1>4, <1>5, <1>6
     DEF Next, vars, UpdateCommand, RequestStep, SaveCommand, CommandResponse,
         ResponseRemoveCache, ResponseRemoveMongo, AcceptedUpdateMongo, AcceptedGetCommand,
         AcceptedSetStatus, AcceptedReport, GetAllCommand, PollStep, MarkDelivered,
         TimerStep, TimerExpires

(* What is cached is timed, as an inductive invariant. *)
LEMMA TimedInvariant ==
  ASSUME Distinct, CommandTimeout > 0
  PROVE  Spec => [](CopiesInv /\ TimedInv)
<1>1. Init => TimedInv
  <2>. SUFFICES ASSUME Init PROVE TimedInv
    OBVIOUS
  <2>1. TimedIn(heap, lock)
    BY DEF Init, TimedIn
  <2>2. AnswersMatch
    BY DEF Init, AnswersMatch, IdleAnswer
  <2>3. FreeLocks
    BY DEF Init, FreeLocks, NoTimeout
  <2>. QED BY <2>1, <2>2, <2>3 DEF TimedInv
<1>2. CopiesInv /\ CopiesInv' /\ TimedInv /\ [Next]_vars => TimedInv'
  <2>. SUFFICES ASSUME CopiesInv, CopiesInv', TimedInv, [Next]_vars PROVE TimedInv'
    OBVIOUS
  <2>1. /\ TypeInv /\ DocInv /\ CacheOK(heap) /\ ObjInv /\ TypeInv'
        /\ AnswersMatch /\ FreeLocks /\ TimedIn(heap, lock)
    BY DEF CopiesInv, LifeInv, TimedInv
  <2>2. Effect
    BY <2>1, NextEffect
  <2>3. PICK R : HeapStep(R)
    BY <2>1, <2>2, ObjStep
  <2>4. AnswersMatch' /\ FreeLocks'
    BY <2>1, <2>3, MatchStep
  <2>5. TimedIn(heap', lock')
    BY <2>1, TimedStep
  <2>. QED BY <2>4, <2>5 DEF TimedInv, TimedIn
<1>. QED BY <1>1, <1>2, CopiesInvariant, PTL DEF Spec

(* No command stays in a cache without a timer, a queued handler or one    *)
(* that is running, whatever fails or crashes: insert() starts the timer   *)
(* of what it puts in, and whoever stops one takes the object out.         *)
THEOREM CachedStaysTimed ==
  ASSUME Distinct, CommandTimeout > 0
  PROVE  Spec => []CachedIsTimed
<1>1. CopiesInv /\ TimedInv => CachedIsTimed
  BY DEF TimedInv, TimedIn, CachedIsTimed, Cached, Live
<1>. QED BY <1>1, TimedInvariant, PTL

-----------------------------------------------------------------------------
(* Nobody disturbs the agents: no database operation fails, no agent       *)
(* crashes, no command is pushed, the database insertion of save_command() *)
(* comes before the next poll, result or expiry at its agent, and a cache  *)
(* has room for all the commands.                                          *)
Undisturbed ==
  /\ Distinct /\ CommandTimeout > 0
  /\ SaveRaces = FALSE /\ MaxFaults = 0 /\ MaxCrashes = 0 /\ Push = {}
  /\ IsFiniteSet(Reqs) /\ Cardinality(Reqs) < MAX_SIZE_CACHE

(* There is room in every cache: it has one object per command. *)
LEMMA RoomLemma ==
  ASSUME Undisturbed, NEW h, HeapOK(h), CacheOK(h), NEW a \in Agents
  PROVE  HasRoom(h, a)
<1>. DEFINE S == Cached(h, a)
            f == [o \in S |-> h[o].req]
<1>1. \A o \in S : o \in Obj /\ h[o] \in Command
  BY DEF Cached, Live, HeapOK
<1>2. f \in [S -> Reqs]
  BY <1>1 DEF Command
<1>3. \A o, p \in S : f[o] = f[p] => o = p
  BY DEF CacheOK
<1>4. f \in Injection(S, Reqs)
  BY <1>2, <1>3 DEF Injection, IsInjective
<1>5. IsFiniteSet(Reqs) /\ Cardinality(Reqs) < MAX_SIZE_CACHE
  BY DEF Undisturbed
<1>. HIDE DEF f
<1>6. IsFiniteSet(S) /\ Cardinality(S) <= Cardinality(Reqs)
  BY <1>4, <1>5, FS_Injection
<1>7. Cardinality(S) \in Nat /\ Cardinality(Reqs) \in Nat
  BY <1>5, <1>6, FS_CardinalityType
<1>8. Cardinality(S) < MAX_SIZE_CACHE
  BY <1>5, <1>6, <1>7, CacheAssumption
<1>. QED BY <1>8 DEF HasRoom

(* The objects of r that count, those in the cache or with a timer, are    *)
(* the same after a step, and there is no other one.                       *)
Alive(c) == c # None /\ (c.cached \/ c.armed \/ c.queued)
Untouched(r) ==
  \A o \in Obj :
    /\ heap'[o] # None /\ heap'[o].req = r => heap'[o] = heap[o]
    /\ Alive(heap[o]) /\ heap[o].req = r => heap'[o] = heap[o]

(* A command whose objects are not changed is untouched. *)
LEMMA UntouchedLemma ==
  ASSUME NEW h, HeapOK(h), SetHeap(h) \/ heap' = h, NEW r,
         \A o \in Obj : \/ h[o] # None /\ h[o].req = r
                        \/ heap[o] # None /\ heap[o].req = r
                        => h[o] = heap[o]
  PROVE  Untouched(r)
<1>1. CASE heap' = h
  BY <1>1 DEF Untouched, Alive
<1>2. CASE SetHeap(h)
  BY <1>2, SetHeapIs DEF Untouched, Alive
<1>. QED BY <1>1, <1>2

(* insert() of a new object touches its command only. *)
LEMMA AddedTouches ==
  ASSUME NEW g, NEW o, NEW a, NEW q, NEW st, Added(g, o, a, q, st), SetHeap(g),
         NEW r, r # q
  PROVE  Untouched(r)
<1>1. HeapOK(g) /\ \A p \in Obj : p # o => g[p] = heap[p]
  BY DEF Added
<1>2. heap[o] = None /\ g[o].req = q
  BY DEF Added
<1>. QED BY <1>1, <1>2, UntouchedLemma

(* remove() of an id leaves the objects of other ids alone. *)
LEMMA RemoveSame ==
  ASSUME NEW h, HeapOK(h), NEW a, NEW i, NEW g \in Remove(h, a, i),
         NEW o \in Obj, h[o] = None \/ IdOf[h[o].req] # i
  PROVE  HeapOK(g) /\ g[o] = h[o]
<1>1. HeapOK(g)
  BY RemoveLemma
<1>2. o \notin CachedById(h, a, i)
  BY DEF CachedById, Cached, Live
<1>. QED BY <1>1, <1>2, RemoveIs

(* remove() of an id touches the commands of that id only. *)
LEMMA RemoveTouches ==
  ASSUME HeapOK(heap), NEW a, NEW i, NEW g \in Remove(heap, a, i), SetHeap(g),
         NEW r, IdOf[r] # i
  PROVE  Untouched(r)
<1>1. HeapOK(g) /\ AddsNothing(heap, g)
  BY RemoveLemma
<1>2. ASSUME NEW o \in Obj, (g[o] # None /\ g[o].req = r) \/ (heap[o] # None /\ heap[o].req = r)
      PROVE  g[o] = heap[o]
  <2>1. heap[o] # None /\ heap[o].req = r
    BY <1>1, <1>2 DEF AddsNothing
  <2>. QED BY <2>1, RemoveSame
<1>. QED BY <1>1, <1>2, UntouchedLemma

(* get_by_id() of an id touches the commands of that id only. *)
LEMMA GetTouches ==
  ASSUME HeapOK(heap), Unused(heap) # {}, NEW a \in Agents, NEW i,
         NEW doc \in Document \cup {None}, doc # None => IdOf[doc.req] = i,
         NEW g \in GetById(a, i, doc), SetHeap(g.h), NEW r, IdOf[r] # i \/ g.o = None
  PROVE  Untouched(r)
<1>1. CASE CachedById(heap, a, i) # {}
  <2>1. PICK o \in CachedById(heap, a, i) : g = [h |-> Insert(heap, o), o |-> o]
    BY <1>1 DEF GetById
  <2>2. o \in Obj /\ heap[o] # None /\ IdOf[heap[o].req] = i
    BY DEF CachedById, Cached, Live
  <2>. DEFINE h == Insert(heap, o)
  <2>3. g.h = h /\ g.o = o
    BY <2>1
  <2>4. HeapOK(h)
    BY <2>2, InsertLemma
  <2>5. h[o].req = heap[o].req /\ \A p \in Obj : p # o => h[p] = heap[p]
    BY <2>2, InsertIs
  <2>6. IdOf[r] # i
    BY <2>2, <2>3, NoneAssumption
  <2>. HIDE DEF h
  <2>7. \A p \in Obj : \/ h[p] # None /\ h[p].req = r
                       \/ heap[p] # None /\ heap[p].req = r
                       => h[p] = heap[p]
    BY <2>2, <2>5, <2>6
  <2>. QED BY <2>3, <2>4, <2>7, UntouchedLemma
<1>2. CASE CachedById(heap, a, i) = {} /\ doc # None
  <2>. DEFINE o == NewAddress(heap)
              h == [heap EXCEPT ![o] = NewCommand(a, doc.req, doc.st)]
  <2>1. doc.req \in Reqs /\ doc.st \in Status
    BY <1>2 DEF Document
  <2>2. g.h = Insert(h, o) /\ g.o = o
    BY <1>2 DEF GetById
  <2>3. Added(g.h, o, a, doc.req, doc.st)
    <3>1. Added(Insert(h, o), o, a, doc.req, doc.st)
      BY <2>1, NewIs, Zenon
    <3>. HIDE DEF h, o
    <3>. QED BY <2>2, <3>1
  <2>4. o \in Obj
    BY <2>3 DEF Added
  <2>5. r # doc.req
    BY <1>2, <2>2, <2>4, NoneAssumption
  <2>. HIDE DEF h, o
  <2>. QED BY <2>3, <2>5, AddedTouches
<1>3. CASE CachedById(heap, a, i) = {} /\ doc = None
  <2>1. g.h = heap
    BY <1>3 DEF GetById
  <2>. QED BY <2>1, UntouchedLemma
<1>. QED BY <1>1, <1>2, <1>3

(* A poll delivers the objects of r at agent a, or loads a delivered one.  *)
PollTouch(a, r) ==
  /\ r \in Started \/ \E o \in Obj : heap[o] # None /\ heap[o].req = r /\ heap[o].ag = a
  /\ \A o \in Obj : heap'[o] # None /\ heap'[o].req = r =>
       heap'[o].st = DELIVERED \/ heap'[o] = heap[o]
  /\ \A o \in Obj : heap[o] # None /\ heap'[o] # None /\ heap[o].req = r /\ heap[o].ag # a =>
       heap'[o] = heap[o]
  /\ \E w \in Obj : heap'[w] # None /\ heap'[w].req = r /\ heap'[w].st = DELIVERED /\ heap'[w].armed

(* A poll delivers what it touches. *)
LEMMA PollTouches ==
  ASSUME Undisturbed, TypeInv, DocInv, CacheOK(heap),
         NEW p \in Polls, NEW a \in Agents, NEW e \in Entities, GetAllCommand(p, a, e),
         NEW r \in Reqs
  PROVE  /\ (Untouched(r) /\ r \notin poll'[p].todo) \/ PollTouch(a, r)
         /\ poll'[p].todo = poll'[p].got
         /\ \A q \in Polls : q # p => poll'[q] = poll[q]
<1>. DEFINE match == CachedReady(heap, a, e)
            T(S) == [pc |-> "marking", ag |-> a, dev |-> e, todo |-> S, got |-> S]
            Goal == /\ (Untouched(r) /\ r \notin poll'[p].todo) \/ PollTouch(a, r)
                    /\ poll'[p].todo = poll'[p].got
                    /\ \A q \in Polls : q # p => poll'[q] = poll[q]
<1>a. HeapOK(heap) /\ poll \in [Polls -> PollThread]
  BY DEF TypeInv, TypeOK, HeapOK
<1>b. CommandTimeout > 0 /\ HasRoom(heap, a)
  BY <1>a, RoomLemma DEF Undisturbed
<1>1. ASSUME NEW others \in SUBSET (Cached(heap, a) \ match),
             SetHeap(TouchAll(heap, match \cup others, DELIVERED)),
             poll' = [poll EXCEPT ![p] = T({heap[o].req : o \in match \cup others})]
      PROVE  Goal
  <2>. DEFINE S == match \cup others
              h == TouchAll(heap, S, DELIVERED)
  <2>1. S \in SUBSET Live(heap) /\ \A o \in S : o \in Obj /\ heap[o] # None /\ heap[o].ag = a
    BY DEF CachedReady, Cached, Live
  <2>2. SetHeap(h)
    BY <1>1
  <2>3. /\ poll'[p].todo = {heap[o].req : o \in S} /\ poll'[p].got = poll'[p].todo
        /\ \A q \in Polls : q # p => poll'[q] = poll[q]
    BY <1>1, <1>a
  <2>. HIDE DEF S
  <2>4. HeapOK(h)
    BY <1>a, <2>1, TouchLemma
  <2>5. /\ \A o \in Obj \ S : h[o] = heap[o]
        /\ \A o \in S : /\ h[o] # None /\ h[o].ag = heap[o].ag /\ h[o].req = heap[o].req
                        /\ h[o].st = DELIVERED
                        /\ HasRoom(heap, heap[o].ag) /\ CommandTimeout > 0 => h[o].armed
    BY <1>a, <2>1, TouchIs
  <2>6. \A o \in S : h[o].armed
    BY <1>b, <2>1, <2>5
  <2>. HIDE DEF h
  <2>7. CASE r \notin poll'[p].todo
    <3>1. \A o \in S : heap[o].req # r
      BY <2>3, <2>7
    <3>2. \A o \in Obj : \/ h[o] # None /\ h[o].req = r
                         \/ heap[o] # None /\ heap[o].req = r
                         => h[o] = heap[o]
      BY <2>5, <3>1
    <3>. QED BY <2>2, <2>3, <2>4, <2>7, <3>2, UntouchedLemma
  <2>8. CASE r \in poll'[p].todo
    <3>1. PICK w \in S : heap[w].req = r
      BY <2>3, <2>8
    <3>2. w \in Obj /\ heap[w] # None /\ heap[w].ag = a
      BY <2>1
    <3>3. h[w] # None /\ h[w].req = r /\ h[w].st = DELIVERED /\ h[w].armed
      BY <2>5, <2>6, <3>1
    <3>4. heap'[w] = h[w]
      BY <2>2, <2>4, <3>2, <3>3, SetHeapIs
    <3>5. \A o \in Obj : heap'[o] # None => heap'[o] = h[o]
      BY <2>2, <2>4, SetHeapIs
    <3>6. \A o \in Obj : heap'[o] # None => heap'[o].st = DELIVERED \/ heap'[o] = heap[o]
      BY <2>5, <3>5
    <3>7. \A o \in Obj : heap'[o] # None /\ heap[o].ag # a => heap'[o] = heap[o]
      BY <2>1, <2>5, <3>5
    <3>8. PollTouch(a, r)
      BY <3>1, <3>2, <3>3, <3>4, <3>6, <3>7 DEF PollTouch
    <3>. QED BY <2>3, <3>8
  <2>. QED BY <2>7, <2>8
<1>2. ASSUME Unused(heap) # {}, NEW i \in Ids, mongo[i] # None,
             SetHeap(Insert([heap EXCEPT ![NewAddress(heap)] = NewCommand(a, mongo[i].req, DELIVERED)],
                            NewAddress(heap))),
             poll' = [poll EXCEPT ![p] = T({mongo[i].req})]
      PROVE  Goal
  <2>. DEFINE o == NewAddress(heap)
              q == mongo[i].req
              g == Insert([heap EXCEPT ![o] = NewCommand(a, q, DELIVERED)], o)
  <2>1. q \in Reqs /\ q \in Started /\ DELIVERED \in Status
    BY <1>2 DEF DocInv, Started, Status
  <2>2. SetHeap(g)
    BY <1>2
  <2>3. /\ poll'[p].todo = {q} /\ poll'[p].got = {q}
        /\ \A t \in Polls : t # p => poll'[t] = poll[t]
    BY <1>2, <1>a
  <2>4. Added(g, o, a, q, DELIVERED)
    BY <1>a, <1>2, <2>1, NewIs, Zenon
  <2>. HIDE DEF o, g, q
  <2>5. CASE r # q
    <3>1. Untouched(r)
      BY <2>2, <2>4, <2>5, AddedTouches
    <3>. QED BY <2>3, <2>5, <3>1
  <2>6. CASE r = q
    <3>1. /\ o \in Obj /\ heap[o] = None /\ HeapOK(g)
          /\ \A t \in Obj : t # o => g[t] = heap[t]
          /\ g[o] # None /\ g[o].req = q /\ g[o].st = DELIVERED /\ g[o].armed
      BY <1>b, <2>4 DEF Added
    <3>2. heap'[o] = g[o]
      BY <2>2, <3>1, SetHeapIs
    <3>3. \A t \in Obj : heap'[t] # None => heap'[t] = g[t]
      BY <2>2, <3>1, SetHeapIs
    <3>4. \A t \in Obj : heap'[t] # None => heap'[t].st = DELIVERED \/ heap'[t] = heap[t]
      BY <3>1, <3>3
    <3>5. \A t \in Obj : heap'[t] # None /\ heap[t] # None => heap'[t] = heap[t]
      BY <3>1, <3>3
    <3>6. PollTouch(a, r)
      BY <2>1, <2>6, <3>1, <3>2, <3>4, <3>5 DEF PollTouch
    <3>. QED BY <2>3, <3>6
  <2>. QED BY <2>5, <2>6
<1>3. ASSUME poll' = [poll EXCEPT ![p] = [IdlePoll EXCEPT !.pc = "done", !.dev = e]],
             UNCHANGED heap
      PROVE  Goal
  <2>1. /\ poll'[p].todo = {} /\ poll'[p].got = {}
        /\ \A q \in Polls : q # p => poll'[q] = poll[q]
    BY <1>3, <1>a DEF IdlePoll
  <2>2. Untouched(r)
    BY <1>3 DEF Untouched
  <2>. QED BY <2>1, <2>2
<1>. QED BY <1>1, <1>2, <1>3, Zenon DEF GetAllCommand

-----------------------------------------------------------------------------
(* The request threads do no more than store. *)
ThreadsInv == \A r \in Reqs : req[r].pc \in {"idle", "saving", "failed", "done"}

(* The object that save_command() is about to write is as it was made. *)
FreshInv ==
  \A r \in Reqs : req[r].pc = "saving" =>
    LET c == heap[req[r].obj]
    IN  c.req = r /\ c.st = READY_FOR_READ /\ c.cached /\ c.armed /\ ~c.queued

(* Results and timeouts are about commands that were stored, and a poll    *)
(* marks what it has found.                                                *)
StoredInv ==
  /\ \A s \in Answers : ans[s].pc \in {"got", "removing"} => heap[ans[s].obj].req \in Started
  /\ \A a \in Agents : lock[a].pc # "free" => heap[lock[a].obj].req \in Started
  /\ \A p \in Polls : poll[p].todo \subseteq poll[p].got

(* The command of r is as good as closed: its document is gone, or a       *)
(* result or a timeout is about to remove it.                              *)
Closing(r) ==
  \/ mongo[IdOf[r]] = None
  \/ \E s \in Answers : ans[s].pc \in {"got", "removing"} /\ ans[s].id = IdOf[r]
  \/ \E a \in Agents : lock[a].pc = "expired" /\ heap[lock[a].obj].req = r

(* The document of r is marked DELIVERED, or about to be. *)
Marking(r) == mongo[IdOf[r]].st = DELIVERED \/ \E p \in Polls : r \in poll[p].todo

(* Some object of r has a timer that will not be refused.  That no other   *)
(* timeout takes it out of its cache is why the READY_FOR_READ object,     *)
(* whose timeout may be refused, is the cached one of its agent and is     *)
(* timed only once.                                                        *)
Timed(c) == c.armed \/ c.queued
ReadyOK(r) ==
  \A o \in Obj :
    /\ heap[o] # None /\ heap[o].req = r /\ heap[o].st = READY_FOR_READ
    /\ Timed(heap[o]) \/ lock[heap[o].ag].obj = o
    => /\ heap[o].cached
       /\ ~(heap[o].armed /\ heap[o].queued)
       /\ lock[heap[o].ag].obj = o => ~Timed(heap[o])
RefusedOK(r) ==
  \A a \in Agents : lock[a].pc # "free" /\ heap[lock[a].obj].req = r =>
    heap[lock[a].obj].st = READY_FOR_READ
Witness(r) ==
  \E w \in Obj : /\ heap[w] # None /\ heap[w].req = r /\ Timed(heap[w])
                 /\ heap[w].st = DELIVERED \/ ~Marking(r)
Kept(r) == ReadyOK(r) /\ RefusedOK(r) /\ Witness(r)

KeptInv == \A r \in Started : Closing(r) \/ Kept(r)

ForgottenInv == CopiesInv /\ TimedInv /\ ThreadsInv /\ FreshInv /\ StoredInv /\ KeptInv

(* Nothing fails or crashes, and a request thread only stores. *)
LEMMA Quiet ==
  ASSUME Undisturbed, TypeInv, ThreadsInv
  PROVE  /\ ~DbFails
         /\ \A a \in Agents : ~Crash(a)
         /\ \A r \in Reqs : RequestStep(r) => SaveCommand(r)
<1>1. MaxFaults = 0 /\ MaxCrashes = 0 /\ faults \in 0..0 /\ crashes \in 0..0
  BY DEF Undisturbed, TypeInv, TypeOK
<1>2. ~DbFails /\ \A a \in Agents : ~Crash(a)
  BY <1>1 DEF DbFails, Crash
<1>3. \A r \in Reqs : RequestStep(r) => SaveCommand(r)
  BY DEF ThreadsInv, RequestStep, CommandResponse, ResponseRemoveCache, ResponseRemoveMongo,
         AcceptedUpdateMongo, AcceptedGetCommand, AcceptedSetStatus, AcceptedReport
<1>. QED BY <1>2, <1>3

(* What may happen to the objects of r in one step. *)
LEMMA Touches ==
  ASSUME Undisturbed, TypeInv, DocInv, CacheOK(heap), TimedInv, ThreadsInv, [Next]_vars,
         NEW r \in Reqs
  PROVE  \/ Untouched(r)
         \/ \E a \in Agents : UpdateCommand(a, r)
         \/ \E p \in Polls, a \in Agents, e \in Entities :
              GetAllCommand(p, a, e) /\ PollTouch(a, r)
         \/ \E s \in Answers, a \in Agents, e \in Entities :
              /\ CommandResult(s, a, e, IdOf[r])
              /\ ans'[s].pc = "got" /\ ans'[s].id = IdOf[r]
         \/ \E s \in Answers : ResultRemoveCache(s) /\ ans[s].id = IdOf[r]
         \/ \E o \in Obj : heap[o].req = r /\ TimerStep(o)
         \/ \E a \in Agents : heap[lock[a].obj].req = r /\ TimeoutStep(a)
<1>a. /\ HeapOK(heap) /\ TypeOK /\ LiveRefs(heap, req, ans, lock) /\ ThreadRefs
      /\ AnswersMatch /\ Distinct
  BY DEF TypeInv, TypeOK, HeapOK, TimedInv, Undisturbed
<1>b. UNCHANGED heap \/ SetHeap(heap) => Untouched(r)
  BY <1>a, UntouchedLemma
<1>c. \A q \in Reqs : q # r => IdOf[q] # IdOf[r]
  BY <1>a DEF Distinct
<1>1. CASE UNCHANGED vars
  BY <1>1, <1>b DEF vars
<1>2. ASSUME NEW a \in Agents, NEW q \in Reqs, UpdateCommand(a, q), q # r PROVE Untouched(r)
  <2>. DEFINE o == NewAddress(heap)
              g == Insert([heap EXCEPT ![o] = NewCommand(a, q, READY_FOR_READ)], o)
  <2>1. SetHeap(g) /\ Unused(heap) # {}
    BY <1>2 DEF UpdateCommand
  <2>2. READY_FOR_READ \in Status
    BY DEF Status
  <2>3. Added(g, o, a, q, READY_FOR_READ)
    BY <1>a, <2>1, <2>2, NewIs, Zenon
  <2>. HIDE DEF o, g
  <2>. QED BY <1>2, <2>1, <2>3, AddedTouches
<1>3. ASSUME NEW q \in Reqs, RequestStep(q) PROVE Untouched(r)
  BY <1>3, <1>b, Quiet DEF SaveCommand
<1>4. ASSUME NEW p \in Polls, NEW a \in Agents, NEW e \in Entities, GetAllCommand(p, a, e)
      PROVE  Untouched(r) \/ PollTouch(a, r)
  BY <1>4, PollTouches
<1>5. ASSUME NEW p \in Polls, PollStep(p) PROVE Untouched(r)
  BY <1>5, <1>b DEF PollStep, MarkDelivered
<1>6. ASSUME NEW s \in Answers, NEW a \in Agents, NEW e \in Entities, NEW i \in Ids,
             CommandResult(s, a, e, i)
      PROVE  Untouched(r) \/ (i = IdOf[r] /\ ans'[s].pc = "got" /\ ans'[s].id = i)
  <2>1. PICK doc \in Document \cup {None} :
          /\ doc = None \/ FindById(i, doc)
          /\ \E g \in GetById(a, i, doc) :
               /\ ans' = [ans EXCEPT ![s] =
                           [pc |-> IF g.o = None THEN "done" ELSE "got",
                            ag |-> a, dev |-> e, id |-> i, obj |-> g.o]]
               /\ SetHeap(g.h)
    BY <1>6 DEF CommandResult
  <2>2. PICK g \in GetById(a, i, doc) :
               /\ ans' = [ans EXCEPT ![s] =
                           [pc |-> IF g.o = None THEN "done" ELSE "got",
                            ag |-> a, dev |-> e, id |-> i, obj |-> g.o]]
               /\ SetHeap(g.h)
    BY <2>1
  <2>3. doc # None => IdOf[doc.req] = i
    BY <2>1 DEF FindById, DocInv
  <2>4. ans'[s].pc = (IF g.o = None THEN "done" ELSE "got") /\ ans'[s].id = i
    BY <1>a, <2>2 DEF TypeOK
  <2>5. Unused(heap) # {}
    BY <1>6 DEF CommandResult
  <2>6. IdOf[r] # i \/ g.o = None => Untouched(r)
    BY <1>a, <2>2, <2>3, <2>5, GetTouches
  <2>. QED BY <2>4, <2>6
<1>7. ASSUME NEW s \in Answers, AnswerStep(s)
      PROVE  Untouched(r) \/ (ResultRemoveCache(s) /\ ans[s].id = IdOf[r])
  <2>1. CASE ResultRemoveMongo(s)
    BY <1>b, <2>1 DEF ResultRemoveMongo
  <2>2. CASE ResultRemoveCache(s) /\ ans[s].id # IdOf[r]
    <3>. DEFINE o == ans[s].obj
                h0 == [heap EXCEPT ![o].armed = FALSE]
    <3>1. o \in Obj /\ heap[o] # None /\ IdOf[heap[o].req] = ans[s].id
      BY <1>a, <2>2 DEF ResultRemoveCache, LiveRefs, ThreadRefs, Holds, AnswersMatch
    <3>2. PICK h \in Remove(h0, ans[s].ag, ans[s].id) : SetHeap(h)
      BY <2>2 DEF ResultRemoveCache
    <3>3. HeapOK(h0) /\ AddsNothing(heap, h0)
      BY <1>a, <3>1, DisarmLemma
    <3>4. \A p \in Obj : p # o => h0[p] = heap[p]
      BY <1>a DEF HeapOK
    <3>. HIDE DEF o, h0
    <3>5. HeapOK(h) /\ AddsNothing(h0, h)
      BY <3>3, RemoveLemma
    <3>6. ASSUME NEW p \in Obj, (h[p] # None /\ h[p].req = r) \/ (heap[p] # None /\ heap[p].req = r)
          PROVE  h[p] = heap[p]
      <4>1. heap[p] # None /\ heap[p].req = r
        BY <3>3, <3>5, <3>6 DEF AddsNothing
      <4>2. p # o
        BY <2>2, <3>1, <4>1
      <4>3. h0[p] = heap[p] /\ IdOf[h0[p].req] # ans[s].id
        BY <2>2, <3>4, <4>1, <4>2
      <4>. QED BY <3>2, <3>3, <4>3, RemoveSame
    <3>. QED BY <3>2, <3>5, <3>6, UntouchedLemma
  <2>. QED BY <1>7, <2>1, <2>2 DEF AnswerStep
<1>8. ASSUME NEW o \in Obj, TimerStep(o), heap[o].req # r PROVE Untouched(r)
  <2>0. heap[o] # None
    BY <1>8 DEF TimerStep, TimerExpires, TimeoutCheck
  <2>1. CASE TimerExpires(o)
    <3>1. HeapOK(heap') /\ heap' = Expire(heap, o)
      BY <1>a, <2>0, <2>1, ExpireLemma DEF TimerExpires
    <3>2. heap'[o].req = heap[o].req /\ \A p \in Obj : p # o => heap'[p] = heap[p]
      BY <1>a, <2>0, <3>1, ExpireIs
    <3>. QED BY <1>8, <3>2 DEF Untouched
  <2>2. CASE TimeoutCheck(o)
    <3>. DEFINE h == [heap EXCEPT ![o].queued = FALSE]
    <3>1. SetHeap(h)
      BY <2>2 DEF TimeoutCheck
    <3>2. HeapOK(h)
      BY <1>a, <2>0, UnqueueLemma
    <3>3. h[o].req = heap[o].req /\ \A p \in Obj : p # o => h[p] = heap[p]
      BY <1>a, <2>0, UnqueueIs
    <3>. HIDE DEF h
    <3>. QED BY <1>8, <3>1, <3>2, <3>3, UntouchedLemma
  <2>. QED BY <1>8, <2>1, <2>2 DEF TimerStep
<1>9. ASSUME NEW a \in Agents, TimeoutStep(a), heap[lock[a].obj].req # r PROVE Untouched(r)
  <2>. DEFINE i == IdOf[heap[lock[a].obj].req]
  <2>1. IdOf[r] # i
    <3>1. heap[lock[a].obj] \in Command
      BY <1>9, <1>a DEF TimeoutStep, TimeoutRefused, TimeoutExpired, ThreadRefs, LiveRefs,
           Holds, HeapOK
    <3>. QED BY <1>9, <1>c, <3>1 DEF Command
  <2>2. CASE TimeoutRefused(a)
    <3>1. PICK h \in Remove(heap, a, i) : SetHeap(h)
      BY <2>2 DEF TimeoutRefused
    <3>. QED BY <1>a, <2>1, <3>1, RemoveTouches
  <2>3. CASE TimeoutExpired(a)
    <3>1. PICK h \in Remove(heap, a, i) : \E g \in Remove(h, a, i) : SetHeap(g)
      BY <2>3 DEF TimeoutExpired
    <3>2. PICK g \in Remove(h, a, i) : SetHeap(g)
      BY <3>1
    <3>. HIDE DEF i
    <3>3. HeapOK(h) /\ AddsNothing(heap, h)
      BY <1>a, RemoveLemma
    <3>4. HeapOK(g) /\ AddsNothing(h, g)
      BY <3>3, RemoveLemma
    <3>5. ASSUME NEW p \in Obj, (g[p] # None /\ g[p].req = r) \/ (heap[p] # None /\ heap[p].req = r)
          PROVE  g[p] = heap[p]
      <4>1. heap[p] # None /\ heap[p].req = r
        BY <3>3, <3>4, <3>5 DEF AddsNothing
      <4>2. h[p] = heap[p]
        BY <1>a, <2>1, <4>1, RemoveSame
      <4>3. g[p] = h[p]
        BY <2>1, <3>3, <4>1, <4>2, RemoveSame
      <4>. QED BY <4>2, <4>3
    <3>. QED BY <3>2, <3>4, <3>5, UntouchedLemma
  <2>. QED BY <1>9, <2>2, <2>3 DEF TimeoutStep
<1>. QED
  BY <1>1, <1>2, <1>3, <1>4, <1>5, <1>6, <1>7, <1>8, <1>9, Quiet DEF Next

(* The object of a thread in save_command() stays as it was made: nobody   *)
(* else may know of the command before its document is stored.             *)
LEMMA FreshStep ==
  ASSUME Undisturbed, ForgottenInv, TypeInv', [Next]_vars
  PROVE  FreshInv'
<1>a. /\ TypeInv /\ DocInv /\ CacheOK(heap) /\ ObjInv /\ PollInv /\ HandInv /\ Distinct
      /\ TimedInv /\ AnswersMatch /\ ThreadsInv /\ FreshInv /\ StoredInv
  BY DEF ForgottenInv, CopiesInv, LifeInv, TimedInv, Undisturbed
<1>b. /\ HeapOK(heap) /\ TypeOK /\ LiveRefs(heap, req, ans, lock) /\ ThreadRefs
      /\ SaveRaces = FALSE /\ Push = {} /\ CommandTimeout > 0
  BY <1>a DEF TypeInv, TypeOK, HeapOK, Undisturbed
<1>. SUFFICES ASSUME NEW r \in Reqs, req'[r].pc = "saving"
              PROVE  LET c == heap'[req'[r].obj]
                     IN  c.req = r /\ c.st = READY_FOR_READ /\ c.cached /\ c.armed /\ ~c.queued
  BY DEF FreshInv
<1>1. CASE req[r].pc = "saving"
  <2>. DEFINE o == req[r].obj
  <2>1. req'[r] = req[r]
    BY <1>1, <1>a, SavingKept DEF Started
  <2>2. /\ o \in Obj /\ heap[o] # None /\ heap[o].ag = req[r].ag
        /\ heap[o].req = r /\ heap[o].st = READY_FOR_READ
        /\ heap[o].cached /\ heap[o].armed /\ ~heap[o].queued
    BY <1>1, <1>a, <1>b DEF LiveRefs, ThreadRefs, Holds, FreshInv
  <2>3. r \notin Started /\ READY_FOR_READ # DELIVERED
    BY <1>1 DEF Started, READY_FOR_READ, DELIVERED
  <2>4. \A x \in Obj : heap[x] # None /\ heap[x].req = r => x = o
    BY <1>a, <2>3 DEF ObjInv
  <2>5. CASE Untouched(r)
    BY <2>1, <2>2, <2>5 DEF Untouched, Alive
  <2>6. ASSUME NEW a \in Agents, UpdateCommand(a, r) PROVE FALSE
    BY <1>1, <2>6 DEF UpdateCommand
  <2>7. ASSUME NEW p \in Polls, NEW a \in Agents, NEW e \in Entities,
               GetAllCommand(p, a, e), PollTouch(a, r)
        PROVE  FALSE
    <3>1. req[r].ag # a
      BY <1>1, <1>b, <2>7 DEF GetAllCommand, Settled
    <3>. QED BY <2>2, <2>3, <2>4, <2>7, <3>1 DEF PollTouch
  <2>8. ASSUME NEW s \in Answers, NEW a \in Agents, NEW e \in Entities,
               CommandResult(s, a, e, IdOf[r])
        PROVE  FALSE
    <3>1. PICK c \in handed : IdOf[c[2]] = IdOf[r]
      BY <2>8 DEF CommandResult
    <3>2. c[2] \in Reqs /\ Safe(c[2])
      BY <1>a, <1>b DEF TypeOK, HandInv
    <3>3. c[2] = r
      BY <1>a, <3>1, <3>2 DEF Distinct
    <3>. QED BY <2>2, <2>3, <3>2, <3>3 DEF Safe
  <2>9. ASSUME NEW s \in Answers, ResultRemoveCache(s), ans[s].id = IdOf[r] PROVE FALSE
    <3>. DEFINE q == heap[ans[s].obj].req
    <3>1. IdOf[q] = IdOf[r] /\ q \in Started
      BY <1>a, <2>9 DEF ResultRemoveCache, AnswersMatch, StoredInv
    <3>. QED BY <1>a, <2>3, <3>1 DEF Started, Distinct
  <2>10. ASSUME NEW x \in Obj, heap[x].req = r, TimerStep(x) PROVE FALSE
    <3>1. x = o
      BY <2>4, <2>10 DEF TimerStep, TimerExpires, TimeoutCheck
    <3>2. TimerExpires(o)
      BY <2>2, <2>10, <3>1 DEF TimerStep, TimeoutCheck
    <3>. QED BY <1>1, <1>b, <2>2, <3>2 DEF TimerExpires, Settled
  <2>11. ASSUME NEW a \in Agents, heap[lock[a].obj].req = r, TimeoutStep(a) PROVE FALSE
    BY <1>a, <2>3, <2>11 DEF TimeoutStep, TimeoutRefused, TimeoutExpired, StoredInv
  <2>. QED BY <1>a, <2>5, <2>6, <2>7, <2>8, <2>9, <2>10, <2>11, Touches
<1>2. CASE req[r].pc # "saving"
  <2>1. \E a \in Agents : UpdateCommand(a, r)
    <3>1. ASSUME NEW q \in Reqs, SaveCommand(q) PROVE FALSE
      <4>1. PICK pc \in ReqPc \ {"idle", "saving"} : req' = RequestAt(q, pc, None, 0)
        BY <3>1 DEF SaveCommand, AfterSave, ReqPc
      <4>2. req'[q].pc = pc /\ \A t \in Reqs : t # q => req'[t] = req[t]
        BY <1>b, <4>1, RequestAtLemma
      <4>. QED BY <1>2, <4>2
    <3>2. ASSUME NEW a \in Agents, NEW q \in Reqs, UpdateCommand(a, q) PROVE q = r
      BY <1>2, <1>b, <3>2 DEF UpdateCommand, TypeOK
    <3>. QED
      BY <1>2, <1>a, <3>1, <3>2, Quiet
         DEF Next, vars, GetAllCommand, PollStep, MarkDelivered, CommandResult, AnswerStep,
             ResultRemoveCache, ResultRemoveMongo, TimerStep, TimerExpires, TimeoutCheck,
             TimeoutStep, TimeoutRefused, TimeoutExpired
  <2>2. PICK a \in Agents : UpdateCommand(a, r)
    BY <2>1
  <2>. DEFINE o == NewAddress(heap)
              g == Insert([heap EXCEPT ![o] = NewCommand(a, r, READY_FOR_READ)], o)
  <2>3. /\ SetHeap(g) /\ Unused(heap) # {} /\ req[r].pc = "idle"
        /\ req'[r].obj = o
    BY <1>b, <2>2 DEF UpdateCommand, TypeOK
  <2>4. READY_FOR_READ \in Status
    BY DEF Status
  <2>5. Added(g, o, a, r, READY_FOR_READ)
    BY <1>b, <2>3, <2>4, NewIs, Zenon
  <2>. HIDE DEF o, g
  <2>6. \A p \in Cached(heap, a) : SeqOf[heap[p].req] # SeqOf[r]
    <3>. SUFFICES ASSUME NEW p \in Cached(heap, a), SeqOf[heap[p].req] = SeqOf[r]
                  PROVE  FALSE
      OBVIOUS
    <3>1. p \in Obj /\ heap[p] # None /\ heap[p].req \in Reqs
      BY <1>b DEF Cached, Live, HeapOK, Command
    <3>2. heap[p].req = r
      BY <1>a, <3>1 DEF Distinct
    <3>. QED BY <1>a, <2>3, <3>1, <3>2 DEF ObjInv, Started
  <2>7. HasRoom(heap, a)
    BY <1>a, <1>b, RoomLemma
  <2>8. /\ o \in Obj /\ HeapOK(g) /\ g[o] # None /\ g[o].req = r /\ g[o].st = READY_FOR_READ
        /\ ~g[o].queued /\ g[o].armed /\ g[o].cached
    BY <1>b, <2>5, <2>6, <2>7 DEF Added
  <2>9. heap'[o] = g[o]
    BY <2>3, <2>8, SetHeapIs
  <2>. QED BY <2>3, <2>8, <2>9
<1>. QED BY <1>1, <1>2

(* Request threads, results, timeouts and polls, after any step. *)
LEMMA ThreadsStep ==
  ASSUME Undisturbed, TypeInv, ThreadsInv, [Next]_vars
  PROVE  ThreadsInv'
<1>a. TypeOK /\ Push = {}
  BY DEF TypeInv, Undisturbed
<1>1. CASE UNCHANGED req
  BY <1>1 DEF ThreadsInv
<1>2. ASSUME NEW a \in Agents, NEW r \in Reqs, UpdateCommand(a, r) PROVE ThreadsInv'
  <2>1. req'[r].pc = "saving" /\ \A q \in Reqs : q # r => req'[q] = req[q]
    BY <1>a, <1>2 DEF UpdateCommand, TypeOK
  <2>. QED BY <2>1 DEF ThreadsInv
<1>3. ASSUME NEW r \in Reqs, SaveCommand(r) PROVE ThreadsInv'
  <2>1. PICK pc \in {"done", "failed"} : req' = RequestAt(r, pc, None, 0)
    BY <1>a, <1>3 DEF SaveCommand, AfterSave
  <2>2. req'[r].pc = pc /\ \A q \in Reqs : q # r => req'[q] = req[q]
    BY <1>a, <2>1, RequestAtLemma DEF ReqPc
  <2>. QED BY <2>2 DEF ThreadsInv
<1>. QED
  BY <1>1, <1>2, <1>3, Quiet
     DEF Next, vars, GetAllCommand, PollStep, MarkDelivered, CommandResult, AnswerStep,
         ResultRemoveCache, ResultRemoveMongo, TimerStep, TimerExpires, TimeoutCheck,
         TimeoutStep, TimeoutRefused, TimeoutExpired

(* Which handlers hold a mutex, after any step. *)
LEMMA LockStep ==
  ASSUME Undisturbed, TypeInv, ThreadsInv, [Next]_vars, NEW a \in Agents
  PROVE  \/ lock'[a] = lock[a]
         \/ lock'[a] = NoTimeout
         \/ \E o \in Obj : /\ TimeoutCheck(o) /\ heap[o].ag = a
                         /\ lock'[a].obj = o /\ lock'[a].pc \in {"refused", "expired"}
<1>a. TypeOK
  BY DEF TypeInv
<1>1. ASSUME NEW o \in Obj, TimeoutCheck(o)
      PROVE  lock'[a] = lock[a] \/ (/\ heap[o].ag = a
                                   /\ lock'[a].obj = o
                                   /\ lock'[a].pc \in {"refused", "expired"})
  <2>1. PICK doc \in Document \cup {None} :
          lock' = [lock EXCEPT ![heap[o].ag] =
                    [pc |-> IF doc = None THEN "refused"
                            ELSE IF OtherAgentAhead(o, doc) THEN "refused" ELSE "expired",
                     obj |-> o, st |-> heap[o].st]]
    BY <1>1 DEF TimeoutCheck
  <2>. DEFINE pc == IF doc = None THEN "refused"
                    ELSE IF OtherAgentAhead(o, doc) THEN "refused" ELSE "expired"
  <2>2. pc \in {"refused", "expired"} /\ lock' = [lock EXCEPT ![heap[o].ag] =
                                               [pc |-> pc, obj |-> o, st |-> heap[o].st]]
    BY <2>1
  <2>. HIDE DEF pc
  <2>. QED BY <1>a, <2>2 DEF TypeOK
<1>2. ASSUME NEW b \in Agents, TimeoutStep(b)
      PROVE  lock'[a] = lock[a] \/ lock'[a] = NoTimeout
  <2>1. lock' = [lock EXCEPT ![b] = NoTimeout]
    BY <1>2 DEF TimeoutStep, TimeoutRefused, TimeoutExpired
  <2>. QED BY <1>a, <2>1 DEF TypeOK
<1>. QED
  BY <1>1, <1>2, Quiet
     DEF Next, vars, UpdateCommand, SaveCommand, GetAllCommand, PollStep, MarkDelivered,
         CommandResult, AnswerStep, ResultRemoveCache, ResultRemoveMongo, TimerStep,
         TimerExpires

(* Results, timeouts and polls go on to be about stored commands. *)
LEMMA StoredStep ==
  ASSUME Undisturbed, ForgottenInv, TypeInv', AnswersMatch', [Next]_vars, Effect,
         NEW R, HeapStep(R)
  PROVE  StoredInv'
<1>a. /\ TypeInv /\ DocInv /\ ObjInv /\ HandInv /\ Distinct
      /\ ThreadsInv /\ FreshInv /\ StoredInv
  BY DEF ForgottenInv, CopiesInv, LifeInv, TimedInv, Undisturbed
<1>b. /\ HeapOK(heap) /\ TypeOK /\ LiveRefs(heap, req, ans, lock) /\ ThreadRefs /\ Push = {}
      /\ HeapOK(heap)' /\ LiveRefs(heap, req, ans, lock)' /\ ThreadRefs'
      /\ Started \subseteq Started'
  BY <1>a, StartedGrows DEF TypeInv, TypeOK, HeapOK, Undisturbed
<1>c. ASSUME NEW o \in Obj, heap[o] # None, heap'[o] # None, heap[o].req \in Started
      PROVE  heap'[o].req \in Started'
  BY <1>b, <1>c DEF HeapStep
<1>d. \A c \in handed : c[2] \in Started
  <2>. SUFFICES ASSUME NEW c \in handed PROVE c[2] \in Started
    OBVIOUS
  <2>1. c[2] \in Reqs /\ Safe(c[2])
    BY <1>a, <1>b DEF TypeOK, HandInv
  <2>2. ~(req[c[2]].pc = "saving" /\ heap[req[c[2]].obj].st = DELIVERED)
    BY <1>a, <2>1 DEF FreshInv, READY_FOR_READ, DELIVERED
  <2>. QED BY <2>1, <2>2 DEF Safe
<1>1. ASSUME NEW s \in Answers, ans'[s].pc \in {"got", "removing"}
      PROVE  heap'[ans'[s].obj].req \in Started'
  <2>1. CASE ans[s].pc \in {"got", "removing"} /\ ans'[s].obj = ans[s].obj
    <3>1. ans[s].obj \in Obj /\ heap[ans[s].obj] # None /\ heap'[ans[s].obj] # None
      BY <1>b, <1>1, <2>1 DEF LiveRefs, ThreadRefs, Holds
    <3>. QED BY <1>a, <1>c, <2>1, <3>1 DEF StoredInv
  <2>2. ASSUME NEW a \in Agents, NEW e \in Entities, NEW i \in Ids, CommandResult(s, a, e, i),
               ans'[s].id = i
        PROVE  heap'[ans'[s].obj].req \in Started'
    <3>1. PICK c \in handed : IdOf[c[2]] = i
      BY <2>2 DEF CommandResult
    <3>. DEFINE q == heap'[ans'[s].obj].req
    <3>2. IdOf[q] = i
      BY <1>1, <2>2 DEF AnswersMatch
    <3>3. heap'[ans'[s].obj] \in Command
      BY <1>b, <1>1 DEF HeapOK, LiveRefs, ThreadRefs, Holds
    <3>4. q \in Reqs /\ c[2] \in Reqs
      BY <1>b, <3>3 DEF Command, TypeOK
    <3>5. q = c[2]
      BY <1>a, <3>1, <3>2, <3>4 DEF Distinct
    <3>. QED BY <1>b, <1>d, <3>5
  <2>3. \/ ans'[s] = ans[s]
        \/ ans[s].pc \in {"got", "removing"} /\ ans'[s].obj = ans[s].obj
        \/ \E a \in Agents, e \in Entities, i \in Ids :
             CommandResult(s, a, e, i) /\ ans'[s].id = i
    <3>1. ASSUME NEW t \in Answers, NEW a \in Agents, NEW e \in Entities, NEW i \in Ids,
                 CommandResult(t, a, e, i)
          PROVE  (t = s /\ ans'[s].id = i) \/ ans'[s] = ans[s]
      <4>1. PICK doc \in Document \cup {None} :
              \E g \in GetById(a, i, doc) :
                ans' = [ans EXCEPT ![t] =
                         [pc |-> IF g.o = None THEN "done" ELSE "got",
                          ag |-> a, dev |-> e, id |-> i, obj |-> g.o]]
        BY <3>1 DEF CommandResult
      <4>2. PICK g \in GetById(a, i, doc) :
                ans' = [ans EXCEPT ![t] =
                         [pc |-> IF g.o = None THEN "done" ELSE "got",
                          ag |-> a, dev |-> e, id |-> i, obj |-> g.o]]
        BY <4>1
      <4>3. ans'[t].id = i /\ \A u \in Answers : u # t => ans'[u] = ans[u]
        BY <4>2, <1>b DEF TypeOK
      <4>. QED BY <4>3
    <3>2. ASSUME NEW t \in Answers, AnswerStep(t)
          PROVE  \/ ans'[s] = ans[s]
                 \/ ans[s].pc \in {"got", "removing"} /\ ans'[s].obj = ans[s].obj
      <4>1. CASE ResultRemoveCache(t)
        <5>1. /\ ans'[t].obj = ans[t].obj
              /\ \A x \in Answers : x # t => ans'[x] = ans[x]
          BY <4>1, <1>b, AnswerAtLemma DEF ResultRemoveCache, TypeOK, AnswerThread
        <5>. QED BY <4>1, <5>1 DEF ResultRemoveCache
      <4>2. CASE ResultRemoveMongo(t)
        <5>1. /\ ans'[t].pc = "done"
              /\ \A x \in Answers : x # t => ans'[x] = ans[x]
          BY <4>2, <1>b, AnswerAtLemma DEF ResultRemoveMongo
        <5>. QED BY <1>1, <5>1
      <4>. QED BY <3>2, <4>1, <4>2 DEF AnswerStep
    <3>. QED
      BY <1>a, <3>1, <3>2, Quiet
         DEF Next, vars, UpdateCommand, SaveCommand, GetAllCommand, PollStep, MarkDelivered,
             TimerStep, TimerExpires, TimeoutCheck, TimeoutStep, TimeoutRefused, TimeoutExpired
  <2>. QED BY <1>1, <2>1, <2>2, <2>3
<1>2. ASSUME NEW a \in Agents, lock'[a].pc # "free"
      PROVE  heap'[lock'[a].obj].req \in Started'
  <2>1. CASE lock'[a] = lock[a]
    <3>1. lock[a].obj \in Obj /\ heap[lock[a].obj] # None /\ heap'[lock[a].obj] # None
      BY <1>b, <1>2, <2>1 DEF LiveRefs, ThreadRefs, Holds
    <3>. QED BY <1>a, <1>c, <1>2, <2>1, <3>1 DEF StoredInv
  <2>2. ASSUME NEW o \in Obj, TimeoutCheck(o), lock'[a].obj = o
        PROVE  heap'[lock'[a].obj].req \in Started'
    <3>1. heap[o] # None /\ heap[o].queued /\ heap'[o] # None
      BY <1>b, <1>2, <2>2 DEF TimeoutCheck, LiveRefs, ThreadRefs, Holds
    <3>2. heap[o].req \in Started
      BY <1>a, <1>b, <3>1 DEF ObjInv, FreshInv, HeapOK, Command
    <3>. QED BY <1>c, <2>2, <3>1, <3>2
  <2>3. \/ lock'[a] = lock[a] \/ lock'[a].pc = "free"
        \/ \E o \in Obj : TimeoutCheck(o) /\ lock'[a].obj = o
    BY <1>a, LockStep DEF NoTimeout
  <2>. QED BY <1>2, <2>1, <2>2, <2>3
<1>3. ASSUME NEW p \in Polls PROVE poll'[p].todo \subseteq poll'[p].got
  <2>1. CASE poll'[p] = poll[p]
    BY <1>a, <2>1 DEF StoredInv
  <2>2. ASSUME NEW q \in Polls, NEW a \in Agents, NEW e \in Entities, GetAllCommand(q, a, e)
        PROVE  poll'[p].todo \subseteq poll'[p].got
    <3>1. CacheOK(heap)
      BY DEF ForgottenInv, CopiesInv
    <3>2. CASE Reqs = {}
      <4>1. poll'[p] \in PollThread
        BY DEF TypeInv, TypeOK
      <4>. QED BY <3>2, <4>1 DEF PollThread
    <3>3. CASE Reqs # {}
      <4>1. PICK r \in Reqs : TRUE
        BY <3>3
      <4>2. poll'[q].todo = poll'[q].got /\ \A x \in Polls : x # q => poll'[x] = poll[x]
        BY <1>a, <2>2, <3>1, <4>1, PollTouches
      <4>. QED BY <1>a, <4>2 DEF StoredInv
    <3>. QED BY <3>2, <3>3
  <2>3. ASSUME NEW q \in Polls, PollStep(q) PROVE poll'[p].todo \subseteq poll'[p].got
    <3>1. PICK r \in Reqs : MarkDelivered(q, r)
      BY <2>3 DEF PollStep
    <3>2. poll \in [Polls -> PollThread] /\ ~DbFails
      BY <1>a, <1>b, Quiet DEF TypeOK
    <3>3. poll' = [poll EXCEPT ![q].todo = poll[q].todo \ {r},
                               ![q].pc = IF poll[q].todo \ {r} = {} THEN "done" ELSE @]
      BY <3>1, <3>2 DEF MarkDelivered
    <3>4. /\ poll'[q].todo = poll[q].todo \ {r} /\ poll'[q].got = poll[q].got
          /\ \A x \in Polls : x # q => poll'[x] = poll[x]
      BY <3>2, <3>3 DEF PollThread
    <3>. QED BY <1>a, <3>4 DEF StoredInv
  <2>. QED
    BY <1>a, <2>1, <2>2, <2>3, Quiet
       DEF Next, vars, UpdateCommand, SaveCommand, CommandResult, AnswerStep,
           ResultRemoveCache, ResultRemoveMongo, TimerStep, TimerExpires, TimeoutCheck,
           TimeoutStep, TimeoutRefused, TimeoutExpired
<1>. QED BY <1>1, <1>2, <1>3 DEF StoredInv

(* What is closing stays so until its document is gone. *)
LEMMA ClosingStep ==
  ASSUME Undisturbed, TypeInv, TypeInv', ThreadsInv, [Next]_vars, Effect,
         NEW R, HeapStep(R), NEW r \in Started, Closing(r)
  PROVE  Closing(r)'
<1>a. /\ TypeOK /\ LiveRefs(heap, req, ans, lock) /\ ThreadRefs /\ Distinct /\ ~DbFails
      /\ r \in Reqs /\ IdOf[r] \in Ids /\ mongo \in [Ids -> Document \cup {None}]
      /\ LiveRefs(heap, req, ans, lock)' /\ ThreadRefs'
  BY Quiet, RequestAssumption DEF TypeInv, TypeOK, Undisturbed, Started
<1>1. CASE mongo[IdOf[r]] = None
  <2>1. mongo'[IdOf[r]] = None
    <3>1. ASSUME NEW S \in SUBSET Reqs, GiveUp(S) PROVE mongo'[IdOf[r]] = None
      BY <1>1, <3>1 DEF GiveUp
    <3>2. ASSUME NEW q \in Reqs, Store(q) PROVE mongo'[IdOf[r]] = None
      <4>1. IdOf[q] # IdOf[r]
        BY <1>a, <3>2 DEF Store, Distinct
      <4>. QED BY <1>1, <1>a, <3>2, <4>1 DEF Store
    <3>3. ASSUME NEW i \in Ids, MarkIt(i) PROVE mongo'[IdOf[r]] = None
      BY <1>1, <1>a, <3>3 DEF MarkIt
    <3>4. ASSUME NEW i \in Ids, TakeOut(i) PROVE mongo'[IdOf[r]] = None
      BY <1>1, <1>a, <3>4 DEF TakeOut
    <3>. QED BY <3>1, <3>2, <3>3, <3>4 DEF Effect
  <2>. QED BY <2>1 DEF Closing
<1>2. ASSUME NEW s \in Answers, ans[s].pc \in {"got", "removing"}, ans[s].id = IdOf[r]
      PROVE  Closing(r)'
  <2>1. CASE ans'[s] = ans[s]
    BY <1>2, <2>1 DEF Closing
  <2>2. CASE ResultRemoveCache(s)
    <3>1. ans'[s].pc = "removing" /\ ans'[s].id = ans[s].id
      BY <2>2, <1>a DEF ResultRemoveCache, AnswerAt, TypeOK
    <3>. QED BY <1>2, <3>1 DEF Closing
  <2>3. CASE ResultRemoveMongo(s)
    <3>1. mongo'[IdOf[r]] = None
      BY <1>2, <1>a, <2>3 DEF ResultRemoveMongo, Take
    <3>. QED BY <3>1 DEF Closing
  <2>4. ans'[s] = ans[s] \/ ResultRemoveCache(s) \/ ResultRemoveMongo(s)
    <3>1. ASSUME NEW t \in Answers, NEW a \in Agents, NEW e \in Entities, NEW i \in Ids,
                 CommandResult(t, a, e, i)
          PROVE  ans'[s] = ans[s]
      <4>1. ans[t].pc = "idle" /\ \E x : ans' = [ans EXCEPT ![t] = x]
        BY <3>1 DEF CommandResult
      <4>. QED BY <1>2, <1>a, <4>1 DEF TypeOK
    <3>2. ASSUME NEW t \in Answers, t # s, AnswerStep(t) PROVE ans'[s] = ans[s]
      <4>1. \E pc, o : ans' = AnswerAt(t, pc, o)
        BY <3>2 DEF AnswerStep, ResultRemoveCache, ResultRemoveMongo
      <4>. QED BY <1>a, <3>2, <4>1 DEF AnswerAt, TypeOK
    <3>. QED
      BY <3>1, <3>2, Quiet
         DEF Next, vars, UpdateCommand, SaveCommand, GetAllCommand, PollStep, MarkDelivered,
             AnswerStep, TimerStep, TimerExpires, TimeoutCheck, TimeoutStep, TimeoutRefused,
             TimeoutExpired
  <2>. QED BY <2>1, <2>2, <2>3, <2>4
<1>3. ASSUME NEW a \in Agents, lock[a].pc = "expired", heap[lock[a].obj].req = r
      PROVE  Closing(r)'
  <2>1. CASE lock'[a] = lock[a]
    <3>1. lock[a].obj \in Obj /\ heap[lock[a].obj] # None /\ heap'[lock[a].obj] # None
      BY <1>a, <1>3, <2>1 DEF LiveRefs, ThreadRefs, Holds
    <3>2. heap'[lock'[a].obj].req = r
      BY <1>3, <2>1, <3>1 DEF HeapStep
    <3>. QED BY <1>3, <2>1, <3>2 DEF Closing
  <2>2. CASE TimeoutExpired(a)
    <3>1. mongo'[IdOf[r]] = None
      BY <1>3, <1>a, <2>2 DEF TimeoutExpired, Take
    <3>. QED BY <3>1 DEF Closing
  <2>3. lock'[a] = lock[a] \/ TimeoutExpired(a)
    <3>1. ASSUME NEW o \in Obj, TimeoutCheck(o) PROVE lock'[a] = lock[a]
      <4>1. /\ lock[heap[o].ag].pc = "free"
            /\ \E x : lock' = [lock EXCEPT ![heap[o].ag] = x]
        BY <3>1 DEF TimeoutCheck, Unlocked
      <4>. QED BY <1>3, <1>a, <4>1 DEF TypeOK
    <3>2. ASSUME NEW b \in Agents, TimeoutStep(b) PROVE lock'[a] = lock[a] \/ TimeoutExpired(a)
      <4>1. lock' = [lock EXCEPT ![b] = NoTimeout]
        BY <3>2 DEF TimeoutStep, TimeoutRefused, TimeoutExpired
      <4>2. b # a => lock'[a] = lock[a]
        BY <4>1, <1>a DEF TypeOK
      <4>3. b = a => TimeoutExpired(a)
        BY <1>3, <3>2 DEF TimeoutStep, TimeoutRefused
      <4>. QED BY <4>2, <4>3
    <3>. QED
      BY <3>1, <3>2, Quiet
         DEF Next, vars, UpdateCommand, SaveCommand, GetAllCommand, PollStep, MarkDelivered,
             CommandResult, AnswerStep, ResultRemoveCache, ResultRemoveMongo, TimerStep,
             TimerExpires
  <2>. QED BY <2>1, <2>2, <2>3
<1>. QED BY <1>1, <1>2, <1>3 DEF Closing

(* A document that stays in the collection is marked by a poll only.       *)
LEMMA MarkingStep ==
  ASSUME Undisturbed, TypeInv, DocInv, CacheOK(heap), ThreadsInv, [Next]_vars,
         NEW r \in Started, mongo'[IdOf[r]] # None, Marking(r)'
  PROVE  \/ Marking(r)
         \/ \E p \in Polls, a \in Agents, e \in Entities :
              GetAllCommand(p, a, e) /\ PollTouch(a, r)
<1>. DEFINE i == IdOf[r]
            Goal == \/ Marking(r)
                    \/ \E p \in Polls, a \in Agents, e \in Entities :
                         GetAllCommand(p, a, e) /\ PollTouch(a, r)
<1>a. /\ TypeOK /\ mongo \in [Ids -> Document \cup {None}] /\ poll \in [Polls -> PollThread]
      /\ r \in Reqs /\ i \in Ids /\ Distinct /\ ~DbFails
  BY Quiet, RequestAssumption DEF TypeInv, TypeOK, Undisturbed, Started
<1>b. mongo'[i] = mongo[i] /\ UNCHANGED poll => Marking(r)
  BY DEF Marking
<1>1. ASSUME NEW q \in Reqs, SaveCommand(q) PROVE Marking(r)
  <2>1. IdOf[q] # i
    BY <1>1, <1>a DEF SaveCommand, Started, Distinct
  <2>2. UNCHANGED poll /\ (UNCHANGED mongo \/ mongo' = [mongo EXCEPT ![IdOf[q]] = Stored(q)])
    BY <1>1 DEF SaveCommand
  <2>3. mongo'[i] = mongo[i]
    BY <1>a, <2>1, <2>2
  <2>. QED BY <1>b, <2>2, <2>3
<1>2. ASSUME NEW p \in Polls, NEW a \in Agents, NEW e \in Entities, GetAllCommand(p, a, e)
      PROVE  Goal
  <2>1. /\ r \notin poll'[p].todo \/ PollTouch(a, r)
        /\ \A q \in Polls : q # p => poll'[q] = poll[q]
    BY <1>2, <1>a, PollTouches
  <2>2. UNCHANGED mongo
    BY <1>2 DEF GetAllCommand
  <2>3. ~PollTouch(a, r) => Marking(r)
    BY <2>1, <2>2 DEF Marking
  <2>. QED BY <1>2, <2>3
<1>3. ASSUME NEW p \in Polls, NEW q \in Reqs, MarkDelivered(p, q) PROVE Marking(r)
  <2>1. /\ mongo' = Mark(IdOf[q], q) /\ q \in poll[p].todo
        /\ poll' = [poll EXCEPT ![p].todo = poll[p].todo \ {q},
                                ![p].pc = IF poll[p].todo \ {q} = {} THEN "done" ELSE @]
    BY <1>3, <1>a DEF MarkDelivered
  <2>2. \A t \in Polls : poll'[t].todo \subseteq poll[t].todo
    BY <2>1, <1>a DEF PollThread
  <2>3. q # r => mongo'[i] = mongo[i]
    BY <2>1, <1>a DEF Mark, Distinct
  <2>. QED BY <2>1, <2>2, <2>3 DEF Marking
<1>4. ASSUME NEW j, mongo' = mongo \/ mongo' = Take(j), UNCHANGED poll PROVE Marking(r)
  <2>1. mongo'[i] = mongo[i]
    BY <1>4, <1>a DEF Take
  <2>. QED BY <1>b, <1>4, <2>1
<1>5. UNCHANGED <<mongo, poll>> => Marking(r)
  BY <1>b
<1>6. ASSUME NEW s \in Answers, ResultRemoveMongo(s) PROVE Marking(r)
  BY <1>6, <1>4 DEF ResultRemoveMongo
<1>7. ASSUME NEW a \in Agents, TimeoutExpired(a) PROVE Marking(r)
  BY <1>7, <1>4 DEF TimeoutExpired
<1>. QED
  BY <1>1, <1>2, <1>3, <1>5, <1>6, <1>7, Quiet
     DEF Next, vars, UpdateCommand, PollStep, CommandResult, AnswerStep, ResultRemoveCache,
         TimerStep, TimerExpires, TimeoutCheck, TimeoutStep, TimeoutRefused

(* A step that leaves the objects of r and the handlers that hold them     *)
(* alone keeps the command of r.                                           *)
LEMMA KeptUntouched ==
  ASSUME TypeInv, TypeInv', FreeLocks, NEW r, Kept(r), Untouched(r), Marking(r)' => Marking(r),
         \A a \in Agents : lock'[a] = lock[a] \/ lock'[a] = NoTimeout
                             \/ heap'[lock'[a].obj].req # r
  PROVE  Kept(r)'
<1>a. /\ LiveRefs(heap, req, ans, lock)' /\ ThreadRefs' /\ HeapOK(heap)'
      /\ NoTimeout.pc = "free" /\ NoTimeout.obj = None
  BY DEF TypeInv, TypeOK, HeapOK, NoTimeout
<1>b. \A o \in Obj : heap'[o] # None => heap'[o].ag \in Agents
  BY <1>a DEF HeapOK, Command
<1>1. ReadyOK(r)'
  <2>. SUFFICES ASSUME NEW o \in Obj,
                       heap'[o] # None /\ heap'[o].req = r /\ heap'[o].st = READY_FOR_READ,
                       Timed(heap'[o]) \/ lock'[heap'[o].ag].obj = o
                PROVE  /\ heap'[o].cached
                       /\ ~(heap'[o].armed /\ heap'[o].queued)
                       /\ lock'[heap'[o].ag].obj = o => ~Timed(heap'[o])
    BY Zenon DEF ReadyOK
  <2>1. heap'[o] = heap[o]
    BY DEF Untouched
  <2>2. lock'[heap[o].ag].obj = o => lock[heap[o].ag].obj = o
    BY <1>a, <1>b, <2>1, NoneAssumption
  <2>. QED BY <2>1, <2>2 DEF Kept, ReadyOK
<1>2. RefusedOK(r)'
  <2>. SUFFICES ASSUME NEW a \in Agents, lock'[a].pc # "free", heap'[lock'[a].obj].req = r
                PROVE  heap'[lock'[a].obj].st = READY_FOR_READ
    BY Zenon DEF RefusedOK
  <2>1. lock'[a] = lock[a]
    BY <1>a
  <2>2. lock'[a].obj \in Obj /\ heap'[lock'[a].obj] # None
    BY <1>a DEF LiveRefs, ThreadRefs, Holds
  <2>3. heap'[lock'[a].obj] = heap[lock'[a].obj]
    BY <2>2 DEF Untouched
  <2>. QED BY <2>1, <2>3 DEF Kept, RefusedOK
<1>3. Witness(r)'
  <2>1. PICK w \in Obj : /\ heap[w] # None /\ heap[w].req = r /\ Timed(heap[w])
                         /\ heap[w].st = DELIVERED \/ ~Marking(r)
    BY DEF Kept, Witness
  <2>2. heap'[w] = heap[w]
    BY <2>1 DEF Untouched, Alive, Timed
  <2>. QED BY <2>1, <2>2 DEF Witness
<1>. QED BY <1>1, <1>2, <1>3 DEF Kept

(* The command that was just stored is kept: the object of save_command()  *)
(* is cached with a running timer, and nobody knows of the command yet.    *)
LEMMA KeptFresh ==
  ASSUME Undisturbed, ForgottenInv, TypeInv', [Next]_vars,
         NEW r \in Started', r \notin Started
  PROVE  Closing(r)' \/ Kept(r)'
<1>a. /\ TypeInv /\ DocInv /\ ObjInv /\ PollInv /\ Distinct /\ ~DbFails /\ FreeLocks
      /\ ThreadsInv /\ FreshInv /\ StoredInv /\ r \in Reqs
  BY Quiet DEF ForgottenInv, CopiesInv, LifeInv, TimedInv, Undisturbed, Started
<1>b. /\ HeapOK(heap) /\ TypeOK /\ LiveRefs(heap, req, ans, lock) /\ ThreadRefs
      /\ LiveRefs(heap, req, ans, lock)' /\ ThreadRefs' /\ HeapOK(heap)'
      /\ IdOf[r] \in Ids /\ mongo \in [Ids -> Document \cup {None}]
  BY <1>a, RequestAssumption DEF TypeInv, TypeOK, HeapOK
<1>1. SaveCommand(r)
  <2>1. req[r].pc \in {"idle", "saving"} /\ req'[r].pc \notin {"idle", "saving"}
    BY <1>a DEF Started
  <2>2. ASSUME NEW a \in Agents, NEW q \in Reqs, UpdateCommand(a, q) PROVE FALSE
    BY <1>b, <2>1, <2>2 DEF UpdateCommand, TypeOK
  <2>3. ASSUME NEW q \in Reqs, SaveCommand(q) PROVE q = r
    <3>1. PICK pc \in ReqPc : req' = RequestAt(q, pc, None, 0)
      BY <2>3 DEF SaveCommand, AfterSave, ReqPc
    <3>2. \A t \in Reqs : t # q => req'[t] = req[t]
      BY <1>b, <3>1, RequestAtLemma
    <3>. QED BY <1>a, <2>1, <3>2
  <2>. QED
    BY <1>a, <2>1, <2>2, <2>3, Quiet
       DEF Next, vars, GetAllCommand, PollStep, MarkDelivered, CommandResult, AnswerStep,
           ResultRemoveCache, ResultRemoveMongo, TimerStep, TimerExpires, TimeoutCheck,
           TimeoutStep, TimeoutRefused, TimeoutExpired
<1>. DEFINE o == req[r].obj
<1>2. /\ o \in Obj /\ heap[o] # None /\ heap[o].req = r /\ heap[o].st = READY_FOR_READ
      /\ heap[o].cached /\ heap[o].armed /\ ~heap[o].queued
  BY <1>a, <1>b, <1>1 DEF SaveCommand, FreshInv, ThreadRefs, LiveRefs, Holds
<1>3. \A p \in Obj : heap[p] # None /\ heap[p].req = r => p = o
  BY <1>a DEF ObjInv
<1>4. mongo[IdOf[r]] = None
  BY <1>a, <1>b DEF DocInv, Document, Started, Distinct
<1>5. /\ SetHeap(heap) /\ UNCHANGED <<lock, poll>>
      /\ mongo' = mongo \/ mongo' = [mongo EXCEPT ![IdOf[r]] = Stored(r)]
  BY <1>1 DEF SaveCommand
<1>6. /\ heap'[o] = heap[o]
      /\ \A p \in Obj : heap'[p] # None => heap'[p] = heap[p]
  BY <1>b, <1>2, <1>5, SetHeapIs
<1>7. CASE mongo' = mongo
  BY <1>4, <1>7 DEF Closing
<1>8. CASE mongo' = [mongo EXCEPT ![IdOf[r]] = Stored(r)]
  <2>1. mongo'[IdOf[r]].st = READY_FOR_READ
    BY <1>b, <1>2, <1>8 DEF Stored
  <2>2. \A p \in Polls : r \notin poll[p].todo
    <3>. SUFFICES ASSUME NEW p \in Polls, r \in poll[p].todo PROVE FALSE
      OBVIOUS
    <3>1. Safe(r)
      BY <1>a DEF StoredInv, PollInv
    <3>. QED BY <1>2, <3>1 DEF Safe, READY_FOR_READ, DELIVERED
  <2>3. ~Marking(r)'
    BY <1>5, <2>1, <2>2 DEF Marking, READY_FOR_READ, DELIVERED
  <2>4. \A a \in Agents : lock[a].obj # o
    <3>. SUFFICES ASSUME NEW a \in Agents, lock[a].obj = o PROVE FALSE
      OBVIOUS
    <3>1. lock[a].pc # "free"
      BY <1>a, <1>2, NoneAssumption DEF FreeLocks
    <3>. QED BY <1>a, <1>2, <3>1 DEF StoredInv
  <2>5. ReadyOK(r)'
    <3>. SUFFICES ASSUME NEW p \in Obj, heap'[p] # None /\ heap'[p].req = r
                  PROVE  /\ heap'[p].cached
                         /\ ~(heap'[p].armed /\ heap'[p].queued)
                         /\ lock'[heap'[p].ag].obj # p
      BY Zenon DEF ReadyOK
    <3>1. heap'[p] = heap[p] /\ p = o
      BY <1>3, <1>6
    <3>2. heap[o].ag \in Agents
      BY <1>b, <1>2 DEF HeapOK, Command
    <3>. QED BY <1>2, <1>5, <2>4, <3>1, <3>2
  <2>6. RefusedOK(r)'
    <3>. SUFFICES ASSUME NEW a \in Agents, lock'[a].pc # "free", heap'[lock'[a].obj].req = r
                  PROVE  FALSE
      BY DEF RefusedOK
    <3>1. lock'[a].obj \in Obj /\ heap'[lock'[a].obj] # None
      BY <1>b DEF LiveRefs, ThreadRefs, Holds
    <3>2. heap[lock[a].obj].req = r
      BY <1>5, <1>6, <3>1
    <3>. QED BY <1>a, <1>5, <3>2 DEF StoredInv
  <2>7. Witness(r)'
    BY <1>2, <1>6, <2>3 DEF Witness, Timed
  <2>. QED BY <2>5, <2>6, <2>7 DEF Kept
<1>. QED BY <1>5, <1>7, <1>8

(* A poll that delivers the command leaves a delivered object with a       *)
(* running timer.                                                          *)
LEMMA KeptPoll ==
  ASSUME TypeInv, TypeInv', FreeLocks, NEW R, HeapStep(R), NEW r, Kept(r),
         NEW p \in Polls, NEW a \in Agents, NEW e \in Entities,
         GetAllCommand(p, a, e), PollTouch(a, r)
  PROVE  Kept(r)'
<1>a. /\ LiveRefs(heap, req, ans, lock) /\ ThreadRefs
      /\ LiveRefs(heap, req, ans, lock)' /\ ThreadRefs'
      /\ UNCHANGED lock /\ lock[a].pc = "free"
  BY DEF TypeInv, GetAllCommand, Unlocked
<1>1. ReadyOK(r)'
  <2>. SUFFICES ASSUME NEW o \in Obj,
                       heap'[o] # None /\ heap'[o].req = r /\ heap'[o].st = READY_FOR_READ,
                       Timed(heap'[o]) \/ lock'[heap'[o].ag].obj = o
                PROVE  /\ heap'[o].cached
                       /\ ~(heap'[o].armed /\ heap'[o].queued)
                       /\ lock'[heap'[o].ag].obj = o => ~Timed(heap'[o])
    BY Zenon DEF ReadyOK
  <2>1. heap'[o] = heap[o]
    BY DEF PollTouch, READY_FOR_READ, DELIVERED
  <2>. QED BY <1>a, <2>1 DEF Kept, ReadyOK
<1>2. RefusedOK(r)'
  <2>. SUFFICES ASSUME NEW b \in Agents, lock'[b].pc # "free", heap'[lock'[b].obj].req = r
                PROVE  heap'[lock'[b].obj].st = READY_FOR_READ
    BY Zenon DEF RefusedOK
  <2>. DEFINE o == lock[b].obj
  <2>1. b # a /\ o \in Obj /\ heap[o] # None /\ heap[o].ag = b /\ heap'[o] # None
    BY <1>a DEF LiveRefs, ThreadRefs, Holds
  <2>2. heap[o].req = r
    BY <1>a, <2>1 DEF HeapStep
  <2>3. heap'[o] = heap[o]
    BY <2>1, <2>2 DEF PollTouch
  <2>. QED BY <1>a, <2>2, <2>3 DEF Kept, RefusedOK
<1>3. Witness(r)'
  BY DEF PollTouch, Witness, Timed
<1>. QED BY <1>1, <1>2, <1>3 DEF Kept

(* So does the expiry of a timer: its handler is queued. *)
LEMMA KeptExpires ==
  ASSUME TypeInv, NEW r, Kept(r), NEW o \in Obj, TimerExpires(o)
  PROVE  Kept(r)'
<1>a. /\ HeapOK(heap) /\ LiveRefs(heap, req, ans, lock) /\ ThreadRefs
      /\ heap[o] # None /\ heap[o].armed /\ heap' = Expire(heap, o)
      /\ UNCHANGED <<lock, mongo, poll>>
  BY DEF TypeInv, TypeOK, HeapOK, TimerExpires
<1>b. /\ \A p \in Obj : p # o => heap'[p] = heap[p]
      /\ heap'[o] # None /\ heap'[o].ag = heap[o].ag /\ heap'[o].req = heap[o].req
      /\ heap'[o].st = heap[o].st /\ heap'[o].cached = heap[o].cached
      /\ ~heap'[o].armed /\ heap'[o].queued
  BY <1>a, ExpireIs
<1>1. ReadyOK(r)'
  <2>. SUFFICES ASSUME NEW p \in Obj,
                       heap'[p] # None /\ heap'[p].req = r /\ heap'[p].st = READY_FOR_READ,
                       Timed(heap'[p]) \/ lock'[heap'[p].ag].obj = p
                PROVE  /\ heap'[p].cached
                       /\ ~(heap'[p].armed /\ heap'[p].queued)
                       /\ lock'[heap'[p].ag].obj = p => ~Timed(heap'[p])
    BY Zenon DEF ReadyOK
  <2>1. CASE p # o
    BY <1>a, <1>b, <2>1 DEF Kept, ReadyOK
  <2>2. CASE p = o
    BY <1>a, <1>b, <2>2 DEF Kept, ReadyOK, Timed
  <2>. QED BY <2>1, <2>2
<1>2. RefusedOK(r)'
  <2>. SUFFICES ASSUME NEW b \in Agents, lock'[b].pc # "free", heap'[lock'[b].obj].req = r
                PROVE  heap'[lock'[b].obj].st = READY_FOR_READ
    BY Zenon DEF RefusedOK
  <2>1. lock[b].obj \in Obj
    BY <1>a DEF LiveRefs, ThreadRefs, Holds
  <2>2. /\ heap[lock[b].obj].req = heap'[lock[b].obj].req
        /\ heap[lock[b].obj].st = heap'[lock[b].obj].st
    BY <1>b, <2>1
  <2>. QED BY <1>a, <2>2 DEF Kept, RefusedOK
<1>3. Witness(r)'
  <2>1. PICK w \in Obj : /\ heap[w] # None /\ heap[w].req = r /\ Timed(heap[w])
                         /\ heap[w].st = DELIVERED \/ ~Marking(r)
    BY DEF Kept, Witness
  <2>2. Marking(r)' <=> Marking(r)
    BY <1>a DEF Marking
  <2>3. /\ heap'[w] # None /\ heap'[w].req = r /\ Timed(heap'[w])
        /\ heap'[w].st = heap[w].st
    BY <1>b, <2>1 DEF Timed
  <2>. QED BY <2>1, <2>2, <2>3 DEF Witness
<1>. QED BY <1>1, <1>2, <1>3 DEF Kept

(* A timeout of the command is accepted, which closes it, or refused: then *)
(* it is that of a READY_FOR_READ object and the document is marked, so    *)
(* that a delivered object has a timer.                                    *)
LEMMA KeptCheck ==
  ASSUME Undisturbed, TypeInv, TypeInv', ThreadsInv, NEW R, HeapStep(R),
         NEW r \in Started, Kept(r), mongo[IdOf[r]] # None,
         NEW o \in Obj, heap[o].req = r, TimeoutCheck(o)
  PROVE  Closing(r)' \/ Kept(r)'
<1>. DEFINE a == heap[o].ag
            i == IdOf[r]
            h == [heap EXCEPT ![o].queued = FALSE]
<1>a. /\ HeapOK(heap) /\ TypeOK /\ LiveRefs(heap, req, ans, lock) /\ ThreadRefs /\ ~DbFails
      /\ LiveRefs(heap, req, ans, lock)' /\ ThreadRefs' /\ HeapOK(heap)'
      /\ r \in Reqs /\ i \in Ids /\ mongo[i] \in Document
  BY Quiet, RequestAssumption DEF TypeInv, TypeOK, HeapOK, Started
<1>b. /\ heap[o] # None /\ heap[o] \in Command /\ heap[o].queued /\ SetHeap(h)
      /\ UNCHANGED <<mongo, poll>> /\ a \in Agents /\ lock[a].pc = "free"
  BY <1>a DEF TimeoutCheck, HeapOK, Command, Unlocked
<1>c. lock' = [lock EXCEPT ![a] =
                [pc |-> IF OtherAgentAhead(o, mongo[i]) THEN "refused" ELSE "expired",
                 obj |-> o, st |-> heap[o].st]]
  <2>1. PICK doc \in Document \cup {None} :
          /\ FindById(i, doc)
          /\ lock' = [lock EXCEPT ![a] =
                       [pc |-> IF doc = None THEN "refused"
                               ELSE IF OtherAgentAhead(o, doc) THEN "refused" ELSE "expired",
                        obj |-> o, st |-> heap[o].st]]
    BY DEF TimeoutCheck
  <2>2. doc = mongo[i] /\ doc # None
    BY <1>a, <2>1 DEF FindById
  <2>. QED BY <2>1, <2>2
<1>d. /\ lock'[a].obj = o
      /\ lock'[a].pc = IF OtherAgentAhead(o, mongo[i]) THEN "refused" ELSE "expired"
      /\ \A b \in Agents : b # a => lock'[b] = lock[b]
  BY <1>a, <1>b, <1>c DEF TypeOK
<1>e. HeapOK(h)
  BY <1>a, <1>b, UnqueueLemma
<1>f. /\ \A p \in Obj : p # o => h[p] = heap[p]
      /\ h[o] # None /\ h[o].ag = a /\ h[o].req = r /\ h[o].st = heap[o].st
      /\ h[o].cached = heap[o].cached /\ h[o].armed = heap[o].armed /\ ~h[o].queued
  <2>1. HeapOK(heap) /\ heap[o] # None
    BY <1>a, <1>b
  <2>2. h[o].req = heap[o].req /\ h[o].st = heap[o].st /\ h[o].ag = heap[o].ag
    BY <2>1, UnqueueIs
  <2>3. h[o].cached = heap[o].cached /\ h[o].armed = heap[o].armed
    BY <2>1, UnqueueIs
  <2>4. h[o] # None
    <3>1. Keeps(heap, h)
      BY <2>1, UnqueueLemma
    <3>. HIDE DEF h
    <3>. QED BY <2>1, <3>1 DEF Keeps
  <2>5. ~h[o].queued
    BY <2>1, UnqueueIs, Zenon
  <2>6. \A p \in Obj : p # o => h[p] = heap[p]
    BY <2>1 DEF HeapOK
  <2>. QED BY <2>2, <2>3, <2>4, <2>5, <2>6
<1>. HIDE DEF h
<1>g. heap'[o] # None
  BY <1>a, <1>b, <1>d, NoneAssumption DEF LiveRefs, Holds
<1>h. /\ heap'[o] = h[o]
      /\ \A p \in Obj : p # o /\ heap'[p] # None => heap'[p] = heap[p]
      /\ \A p \in Obj : p # o /\ Alive(heap[p]) => heap'[p] = heap[p]
  BY <1>b, <1>f, <1>g, <1>e, SetHeapIs DEF Alive
<1>. HIDE DEF a
<1>1. CASE ~OtherAgentAhead(o, mongo[i])
  <2>1. lock'[a].pc = "expired" /\ heap'[lock'[a].obj].req = r
    BY <1>1, <1>d, <1>f, <1>h
  <2>. QED BY <1>b, <2>1 DEF Closing
<1>2. CASE OtherAgentAhead(o, mongo[i])
  <2>1. heap[o].st = READY_FOR_READ /\ mongo[i].st = DELIVERED
    BY <1>2, <1>a, <1>b DEF OtherAgentAhead, Command, Document, Status, READY_FOR_READ, DELIVERED
  <2>2. heap[o].cached /\ ~heap[o].armed
    BY <1>b, <2>1 DEF Kept, ReadyOK, Timed
  <2>3. ReadyOK(r)'
    <3>. SUFFICES ASSUME NEW p \in Obj,
                         heap'[p] # None /\ heap'[p].req = r /\ heap'[p].st = READY_FOR_READ,
                         Timed(heap'[p]) \/ lock'[heap'[p].ag].obj = p
                  PROVE  /\ heap'[p].cached
                         /\ ~(heap'[p].armed /\ heap'[p].queued)
                         /\ lock'[heap'[p].ag].obj = p => ~Timed(heap'[p])
      BY Zenon DEF ReadyOK
    <3>1. CASE p = o
      BY <1>f, <1>h, <2>2, <3>1 DEF Timed
    <3>2. CASE p # o
      <4>1. heap'[p] = heap[p] /\ heap[p].ag \in Agents
        BY <1>a, <1>h, <3>2 DEF HeapOK, Command
      <4>2. lock'[heap[p].ag].obj = p => lock[heap[p].ag].obj = p
        BY <1>d, <3>2, <4>1
      <4>. QED BY <4>1, <4>2 DEF Kept, ReadyOK
    <3>. QED BY <3>1, <3>2
  <2>4. RefusedOK(r)'
    <3>. SUFFICES ASSUME NEW b \in Agents, lock'[b].pc # "free", heap'[lock'[b].obj].req = r
                  PROVE  heap'[lock'[b].obj].st = READY_FOR_READ
      BY Zenon DEF RefusedOK
    <3>1. CASE b = a
      BY <1>d, <1>f, <1>h, <2>1, <3>1
    <3>2. CASE b # a
      <4>1. lock'[b] = lock[b]
        BY <1>d, <3>2
      <4>2. lock[b].obj \in Obj /\ heap[lock[b].obj].ag = b /\ heap'[lock[b].obj] # None
        BY <1>a, <4>1 DEF LiveRefs, ThreadRefs, Holds
      <4>3. heap'[lock[b].obj] = heap[lock[b].obj]
        BY <1>h, <3>2, <4>2 DEF a
      <4>. QED BY <4>1, <4>3 DEF Kept, RefusedOK
    <3>. QED BY <3>1, <3>2
  <2>5. Witness(r)'
    <3>1. Marking(r)
      BY <2>1 DEF Marking
    <3>2. PICK w \in Obj : /\ heap[w] # None /\ heap[w].req = r /\ Timed(heap[w])
                           /\ heap[w].st = DELIVERED
      BY <3>1 DEF Kept, Witness
    <3>3. heap'[w] = heap[w]
      BY <1>h, <2>1, <3>2 DEF Alive, Timed, READY_FOR_READ, DELIVERED
    <3>. QED BY <3>2, <3>3 DEF Witness
  <2>. QED BY <2>3, <2>4, <2>5 DEF Kept
<1>. QED BY <1>1, <1>2

(* A refused timeout takes the object it was for out of the cache, and no  *)
(* other one: it was the only cached object of its command.                *)
LEMMA KeptRefused ==
  ASSUME TypeInv, TypeInv', Distinct, CacheOK(heap), FreeLocks, NEW r, Kept(r),
         NEW a \in Agents, TimeoutRefused(a), heap[lock[a].obj].req = r
  PROVE  Kept(r)'
<1>. DEFINE o == lock[a].obj
<1>a. /\ HeapOK(heap) /\ LiveRefs(heap, req, ans, lock) /\ ThreadRefs
      /\ LiveRefs(heap, req, ans, lock)' /\ ThreadRefs' /\ HeapOK(heap)'
      /\ UNCHANGED <<mongo, poll>> /\ lock[a].pc = "refused"
      /\ NoTimeout.pc = "free" /\ NoTimeout.obj = None
  BY DEF TypeInv, TypeOK, HeapOK, TimeoutRefused, NoTimeout
<1>b. lock'[a] = NoTimeout /\ \A b \in Agents : b # a => lock'[b] = lock[b]
  BY DEF TypeInv, TypeOK, TimeoutRefused
<1>c. o \in Obj /\ heap[o] # None /\ heap[o].ag = a /\ heap[o].req = r
  BY <1>a DEF LiveRefs, ThreadRefs, Holds
<1>d. /\ heap[o].st = READY_FOR_READ /\ heap[o].cached /\ ~heap[o].armed /\ ~heap[o].queued
  BY <1>a, <1>c DEF Kept, RefusedOK, ReadyOK, Timed
<1>e. o \in CachedById(heap, a, IdOf[r])
  BY <1>c, <1>d DEF CachedById, Cached, Live
<1>f. PICK h \in Remove(heap, a, IdOf[r]) : SetHeap(h)
  BY DEF TimeoutRefused
<1>g. HeapOK(h)
  BY <1>a, RemoveLemma
<1>h. /\ \A p \in Obj : p # o => h[p] = heap[p]
      /\ h[o] # None /\ h[o].ag = a /\ ~h[o].armed /\ ~h[o].queued
  <2>1. PICK q \in CachedById(heap, a, IdOf[r]) :
          /\ \A p \in Obj : p # q => h[p] = heap[p]
          /\ h[q] # None /\ h[q].ag = a /\ h[q].req = heap[q].req /\ h[q].st = heap[q].st
          /\ ~h[q].cached /\ ~h[q].armed /\ h[q].queued = heap[q].queued
    BY <1>a, <1>e, RemoveIs
  <2>2. q = o
    BY <1>a, <1>e, OnePerId
  <2>. QED BY <1>d, <2>1, <2>2
<1>i. /\ heap'[o] # None => heap'[o].ag = a /\ ~heap'[o].armed /\ ~heap'[o].queued
      /\ \A p \in Obj : p # o /\ heap'[p] # None => heap'[p] = heap[p]
      /\ \A p \in Obj : p # o /\ Alive(heap[p]) => heap'[p] = heap[p]
  BY <1>c, <1>f, <1>g, <1>h, SetHeapIs DEF Alive
<1>1. ReadyOK(r)'
  <2>. SUFFICES ASSUME NEW p \in Obj,
                       heap'[p] # None /\ heap'[p].req = r /\ heap'[p].st = READY_FOR_READ,
                       Timed(heap'[p]) \/ lock'[heap'[p].ag].obj = p
                PROVE  /\ heap'[p].cached
                       /\ ~(heap'[p].armed /\ heap'[p].queued)
                       /\ lock'[heap'[p].ag].obj = p => ~Timed(heap'[p])
    BY Zenon DEF ReadyOK
  <2>1. p # o
    BY <1>a, <1>b, <1>i, NoneAssumption DEF Timed
  <2>2. heap'[p] = heap[p] /\ heap[p].ag \in Agents
    BY <1>a, <1>i, <2>1 DEF HeapOK, Command
  <2>3. lock'[heap[p].ag].obj = p => lock[heap[p].ag].obj = p
    BY <1>a, <1>b, <2>2, NoneAssumption
  <2>. QED BY <2>2, <2>3 DEF Kept, ReadyOK
<1>2. RefusedOK(r)'
  <2>. SUFFICES ASSUME NEW b \in Agents, lock'[b].pc # "free", heap'[lock'[b].obj].req = r
                PROVE  heap'[lock'[b].obj].st = READY_FOR_READ
    BY Zenon DEF RefusedOK
  <2>1. b # a /\ lock'[b] = lock[b]
    BY <1>a, <1>b
  <2>2. lock[b].obj \in Obj /\ heap[lock[b].obj].ag = b /\ heap'[lock[b].obj] # None
    BY <1>a, <2>1 DEF LiveRefs, ThreadRefs, Holds
  <2>3. heap'[lock[b].obj] = heap[lock[b].obj]
    BY <1>c, <1>i, <2>1, <2>2
  <2>. QED BY <2>1, <2>3 DEF Kept, RefusedOK
<1>3. Witness(r)'
  <2>1. PICK w \in Obj : /\ heap[w] # None /\ heap[w].req = r /\ Timed(heap[w])
                         /\ heap[w].st = DELIVERED \/ ~Marking(r)
    BY DEF Kept, Witness
  <2>2. heap'[w] = heap[w]
    BY <1>d, <1>i, <2>1 DEF Alive, Timed
  <2>3. Marking(r)' <=> Marking(r)
    BY <1>a DEF Marking
  <2>. QED BY <2>1, <2>2, <2>3 DEF Witness
<1>. QED BY <1>1, <1>2, <1>3 DEF Kept

(* Every stored command stays kept until it is closed. *)
LEMMA KeptStep ==
  ASSUME Undisturbed, ForgottenInv, TypeInv', [Next]_vars, Effect, NEW R, HeapStep(R)
  PROVE  KeptInv'
<1>a. /\ TypeInv /\ DocInv /\ CacheOK(heap) /\ TimedInv /\ FreeLocks /\ ThreadsInv /\ KeptInv
      /\ Distinct
  BY DEF ForgottenInv, CopiesInv, LifeInv, TimedInv, Undisturbed
<1>. SUFFICES ASSUME NEW r \in Started', ~Closing(r)' PROVE Kept(r)'
  BY Zenon DEF KeptInv
<1>1. CASE r \notin Started
  BY <1>1, KeptFresh
<1>2. CASE r \in Started
  <2>a. /\ r \in Reqs /\ ~Closing(r) /\ Kept(r) /\ mongo[IdOf[r]] # None /\ mongo'[IdOf[r]] # None
    BY <1>a, <1>2, ClosingStep DEF Started, KeptInv, Closing
  <2>1. ASSUME NEW a \in Agents, UpdateCommand(a, r) PROVE FALSE
    BY <1>2, <2>1 DEF UpdateCommand, Started
  <2>2. ASSUME NEW p \in Polls, NEW a \in Agents, NEW e \in Entities, GetAllCommand(p, a, e),
               PollTouch(a, r)
        PROVE  Kept(r)'
    BY <1>a, <2>a, <2>2, KeptPoll
  <2>3. ASSUME NEW s \in Answers, ans'[s].pc = "got", ans'[s].id = IdOf[r] PROVE FALSE
    BY <2>3 DEF Closing
  <2>4. ASSUME NEW s \in Answers, ResultRemoveCache(s), ans[s].id = IdOf[r] PROVE FALSE
    BY <2>a, <2>4 DEF Closing, ResultRemoveCache
  <2>5. ASSUME NEW o \in Obj, heap[o].req = r, TimerExpires(o) PROVE Kept(r)'
    BY <1>a, <2>a, <2>5, KeptExpires
  <2>6. ASSUME NEW o \in Obj, heap[o].req = r, TimeoutCheck(o) PROVE Kept(r)'
    BY <1>a, <1>2, <2>a, <2>6, KeptCheck
  <2>7. ASSUME NEW a \in Agents, heap[lock[a].obj].req = r, TimeoutStep(a) PROVE Kept(r)'
    <3>1. TimeoutRefused(a)
      BY <2>a, <2>7 DEF TimeoutStep, TimeoutExpired, Closing
    <3>. QED BY <1>a, <2>a, <2>7, <3>1, KeptRefused
  <2>8. CASE /\ Untouched(r)
             /\ \A p \in Polls, a \in Agents, e \in Entities :
                  ~(GetAllCommand(p, a, e) /\ PollTouch(a, r))
             /\ \A o \in Obj : ~(heap[o].req = r /\ TimeoutCheck(o))
    <3>1. Marking(r)' => Marking(r)
      BY <1>a, <1>2, <2>a, <2>8, MarkingStep
    <3>2. ASSUME NEW a \in Agents
          PROVE  lock'[a] = lock[a] \/ lock'[a] = NoTimeout \/ heap'[lock'[a].obj].req # r
      <4>1. ASSUME NEW o \in Obj, TimeoutCheck(o), lock'[a].obj = o,
                   lock'[a].pc \in {"refused", "expired"}
            PROVE  heap'[lock'[a].obj].req # r
        <5>1. heap[o] # None /\ heap'[o] # None
          BY <4>1 DEF TypeInv, ThreadRefs, LiveRefs, Holds, TimeoutCheck
        <5>2. heap'[o].req = heap[o].req
          BY <5>1 DEF HeapStep
        <5>. QED BY <2>8, <4>1, <5>2
      <4>. QED BY <1>a, <4>1, LockStep
    <3>. QED BY <1>a, <2>a, <2>8, <3>1, <3>2, KeptUntouched
  <2>. QED
    BY <1>a, <2>a, <2>1, <2>2, <2>3, <2>4, <2>5, <2>6, <2>7, <2>8, Touches DEF TimerStep
<1>. QED BY <1>1, <1>2

(* Nobody is forgotten, as an inductive invariant. *)
LEMMA ForgottenInvariant ==
  ASSUME Undisturbed
  PROVE  Spec => []ForgottenInv
<1>a. Distinct /\ CommandTimeout > 0
  BY DEF Undisturbed
<1>. DEFINE MoreInv == ThreadsInv /\ FreshInv /\ StoredInv /\ KeptInv
<1>1. Init => MoreInv
  <2>. SUFFICES ASSUME Init PROVE MoreInv
    OBVIOUS
  <2>1. ThreadsInv /\ FreshInv
    BY DEF Init, ThreadsInv, FreshInv, Idle
  <2>2. StoredInv
    BY DEF Init, StoredInv, IdleAnswer, NoTimeout, IdlePoll
  <2>3. KeptInv
    BY DEF Init, KeptInv, Started, Idle
  <2>. QED BY <2>1, <2>2, <2>3
<1>2. CopiesInv /\ CopiesInv' /\ TimedInv /\ TimedInv' /\ MoreInv /\ [Next]_vars => MoreInv'
  <2>. SUFFICES ASSUME CopiesInv, CopiesInv', TimedInv, TimedInv', MoreInv, [Next]_vars
                PROVE  MoreInv'
    OBVIOUS
  <2>1. /\ TypeInv /\ DocInv /\ CacheOK(heap) /\ ObjInv /\ TypeInv' /\ AnswersMatch'
        /\ ThreadsInv /\ ForgottenInv
    BY DEF CopiesInv, LifeInv, TimedInv, ForgottenInv
  <2>2. Effect
    BY <2>1, NextEffect
  <2>3. PICK R : HeapStep(R)
    BY <2>1, <2>2, ObjStep
  <2>4. ThreadsInv'
    BY <2>1, ThreadsStep
  <2>5. FreshInv'
    BY <2>1, FreshStep
  <2>6. StoredInv'
    BY <2>1, <2>2, <2>3, StoredStep
  <2>7. KeptInv'
    BY <2>1, <2>2, <2>3, KeptStep
  <2>. QED BY <2>4, <2>5, <2>6, <2>7
<1>3. CopiesInv /\ TimedInv /\ MoreInv => ForgottenInv
  BY DEF ForgottenInv
<1>. HIDE DEF MoreInv
<1>. QED BY <1>a, <1>1, <1>2, <1>3, TimedInvariant, PTL DEF Spec

(* No command is left to itself: a cached one has a timer, and for a       *)
(* stored one there is an object whose timeout will not be refused, a      *)
(* timeout that was not, or a result that is about to remove it.           *)
THEOREM NobodyForgotten ==
  ASSUME Undisturbed
  PROVE  Spec => []NothingForgotten
<1>1. ForgottenInv => NothingForgotten
  <2>. SUFFICES ASSUME ForgottenInv PROVE NothingForgotten
    OBVIOUS
  <2>a. /\ TypeOK /\ DocInv /\ KeptInv /\ TimedInv /\ Distinct
        /\ mongo \in [Ids -> Document \cup {None}]
    BY DEF ForgottenInv, CopiesInv, LifeInv, TypeInv, TypeOK, Undisturbed
  <2>1. CachedIsTimed
    BY <2>a DEF TimedInv, TimedIn, CachedIsTimed, Cached, Live
  <2>2. NoOrphan
    <3>. SUFFICES ASSUME NEW i \in Ids, mongo[i] # None PROVE Responsible(i)
      BY DEF NoOrphan
    <3>. DEFINE r == mongo[i].req
    <3>1. r \in Started /\ IdOf[r] = i /\ mongo[i].st \in Status
      BY <2>a DEF DocInv, Document
    <3>2. CASE Closing(r)
      BY <3>1, <3>2 DEF Closing, Responsible
    <3>3. CASE Kept(r)
      <4>1. PICK w \in Obj : /\ heap[w] # None /\ heap[w].req = r /\ Timed(heap[w])
                             /\ heap[w].st = DELIVERED \/ ~Marking(r)
        BY <3>3 DEF Kept, Witness
      <4>2. heap[w].st \in Status
        BY <2>a, <4>1 DEF TypeOK, Command
      <4>3. heap[w].st >= mongo[i].st
        BY <3>1, <4>1, <4>2 DEF Marking, Status, READY_FOR_READ, DELIVERED
      <4>. QED BY <3>1, <4>1, <4>3 DEF Responsible, Live, Timed
    <3>. QED BY <2>a, <3>1, <3>2, <3>3 DEF KeptInv
  <2>. QED BY <2>1, <2>2 DEF NothingForgotten
<1>. QED BY <1>1, ForgottenInvariant, PTL

=============================================================================
