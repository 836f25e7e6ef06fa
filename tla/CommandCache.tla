---------------------------- MODULE CommandCache ----------------------------
(***************************************************************************)
(* iota::CommandCache (util/command_cache.h, util/command_cache.cc), the   *)
(* iota::Command objects it holds (util/command.h) and their iota::Timer   *)
(* (util/timer.h).                                                         *)
(*                                                                         *)
(* Every agent process has one cache.  A command object lives as long as a *)
(* shared_ptr reaches it: from the cache, from the handler of a running or *)
(* an expired timer, or from a local variable of a thread.  `heap' maps    *)
(* each address of the pool Obj to the object there, or to None.  The      *)
(* fields that never change are those of the request (the updateContext    *)
(* attribute) the object was built for: sequence, id and entity.           *)
(*                                                                         *)
(* CommandHandle builds the cache with lru = false, so the branch of       *)
(* insert() for lru = true is never taken.  One (service, service_path)    *)
(* is modelled: no key ever matches across two of them.                    *)
(***************************************************************************)
EXTENDS Integers, FiniteSets

CONSTANTS
  Agents,          \* agent processes that share one database (High Availability)
  Reqs,            \* command attributes received in updateContext operations
  Seqs, SeqOf,     \* SeqOf[r]: Command::_sequence, one uuid per updateContext
  Ids, IdOf,       \* IdOf[r]: Command::_id, what transform_command returned
  Entities, EntityOf,  \* EntityOf[r]: Command::_entity, the target device
  Obj,             \* addresses of Command objects (bound on live objects)
  MAX_SIZE_CACHE,  \* types::MAX_SIZE_CACHE, capacity of the cache
  CommandTimeout,  \* get_timeout_commands(), seconds
  None             \* a null pointer, an absent document

ASSUME RequestAssumption ==
  /\ SeqOf \in [Reqs -> Seqs]
  /\ IdOf \in [Reqs -> Ids]
  /\ EntityOf \in [Reqs -> Entities]

ASSUME CacheAssumption ==
  /\ MAX_SIZE_CACHE \in Nat
  /\ CommandTimeout \in Int

VARIABLE heap

READY_FOR_READ == 0
DELIVERED == 2
Status == {READY_FOR_READ, DELIVERED}

(* A command object.  armed: its deadline_timer runs.  queued: the timer   *)
(* expired and the completion handler waits for a thread of the io_service *)
(* (a later cancel() no longer reaches it).                                *)
Command ==
  [ag: Agents, req: Reqs, st: Status,
   cached: BOOLEAN, armed: BOOLEAN, queued: BOOLEAN]

ASSUME NoneAssumption == None \notin Command \cup Obj \cup Agents

NewCommandUnset(a, r, st) ==
  [ag |-> a, req |-> r, st |-> -2147483647 - 1,
   cached |-> FALSE, armed |-> FALSE, queued |-> FALSE]

(* new Command(...) followed by set_status(st). *)
NewCommand(a, r, st) ==
  [ag |-> a, req |-> r, st |-> st,
   cached |-> FALSE, armed |-> FALSE, queued |-> FALSE]

Live(h) == {o \in Obj : h[o] # None}
Unused(h) == {o \in Obj : h[o] = None}
NewAddress(h) == CHOOSE o \in Unused(h) : TRUE

Cached(h, a) == {o \in Live(h) : h[o].ag = a /\ h[o].cached}
CachedById(h, a, i) == {o \in Cached(h, a) : IdOf[h[o].req] = i}
CachedReady(h, a, e) ==
  {o \in Cached(h, a) : EntityOf[h[o].req] = e /\ h[o].st = READY_FOR_READ}

(* shared_ptr: an object that neither the cache nor a timer handler nor a  *)
(* thread (refs) reaches is destroyed.                                     *)
Collect(h, refs) ==
  [o \in Obj |->
     IF h[o] # None /\ ~h[o].cached /\ ~h[o].armed /\ ~h[o].queued /\ o \notin refs
     THEN None ELSE h[o]]

HasRoomOffByOne(h, a) == Cardinality(Cached(h, a)) <= MAX_SIZE_CACHE
HasRoom(h, a) == Cardinality(Cached(h, a)) < MAX_SIZE_CACHE

(* insert(): with room, push_back refuses an object whose sequence is      *)
(* already there, but the timer of the object is (re)started in any case.  *)
(* A full cache ignores the object altogether, even one it already holds.  *)
InsertUntimed(h, o) ==
  LET twin == {p \in Cached(h, h[o].ag) \ {o} : SeqOf[h[p].req] = SeqOf[h[o].req]}
  IN  IF HasRoom(h, h[o].ag) /\ twin = {} THEN [h EXCEPT ![o].cached = TRUE] ELSE h

Insert(h, o) ==
  LET twin == {p \in Cached(h, h[o].ag) \ {o} : SeqOf[h[p].req] = SeqOf[h[o].req]}
  IN  IF HasRoom(h, h[o].ag)
      THEN [h EXCEPT ![o].cached = @ \/ twin = {},
                     ![o].armed = @ \/ CommandTimeout > 0]
      ELSE h

(* insert() of every object of S that is already in the cache of one agent, *)
(* after set_status(st): what the loop of get_by_entityV does.              *)
TouchAll(h, S, st) ==
  [o \in Obj |->
     IF o \in S
     THEN [h[o] EXCEPT !.st = st,
                       !.armed = @ \/ (HasRoom(h, h[o].ag) /\ CommandTimeout > 0)]
     ELSE h[o]]

(* remove() of the object found for an id: its timer is cancelled. *)
Uncache(h, o) == [h EXCEPT ![o].cached = FALSE, ![o].armed = FALSE]

(* remove(key): the first object found for the id, if any; which one is    *)
(* first in the hashed index is not determined.                            *)
Remove(h, a, i) ==
  IF CachedById(h, a, i) = {} THEN {h}
  ELSE {Uncache(h, o) : o \in CachedById(h, a, i)}

(* deadline_timer of o expires: its handler is queued. *)
Expire(h, o) == [h EXCEPT ![o].armed = FALSE, ![o].queued = TRUE]

=============================================================================
