------------------------------ MODULE Database ------------------------------
(***************************************************************************)
(* How an agent uses MongoDB (util/collection.cc, util/mongo_connection.cc *)
(* and the alarm of util/alarm.cc).  A Collection takes a connection from  *)
(* the pool, or a new one if the pool is empty, does one operation with it *)
(* and gives it back.  An operation that ends with an exception raises the *)
(* alarm, is tried again, or replaces the idle connections of the pool,    *)
(* depending on the exception and on the operation.                        *)
(*                                                                         *)
(* The driver and the server are external: every call may end with each of *)
(* the driver's exceptions, and a write may have been done although its    *)
(* call ended with one.  A connection is a member of Conns, as its address *)
(* is; pool and connections are guarded by one lock, so that what happens  *)
(* under it is one step.                                                   *)
(***************************************************************************)
EXTENDS Integers, FiniteSets

CONSTANTS
  DThreads,    \* threads, with one Collection each
  Conns,       \* connections there may be
  NoConn,      \* no connection, no key
  SIZE_POOL,   \* connections of a full pool
  MAX_RETRY,   \* util/collection.cc
  MaxAttempts, \* bound: nested attempts of an update
  Keys,        \* keys of documents, as no unique index exists
  MaxCopies    \* bound: documents of a key

ASSUME DatabaseAssumption ==
  /\ SIZE_POOL \in Nat /\ MAX_RETRY \in Nat \ {0} /\ NoConn \notin Conns
  /\ IsFiniteSet(Conns) /\ IsFiniteSet(DThreads)

VARIABLES
  dpool,    \* the idle connections
  dlive,    \* connections that are not deleted
  dreq,     \* the Collection of each thread
  ddocs,    \* how many documents of each key there are
  dalarm    \* whether the alarm of the database stands

dbVars == <<dpool, dlive, dreq, ddocs, dalarm>>

Writes == {"insert", "update", "remove"}
Operations == Writes \cup {"count", "find", "command", "index"}

(* The exceptions of the driver; "none" is no exception.  "glerror" is an  *)
(* error that getLastError() finds in the server's answer.                 *)
Exceptions == {"socket", "connect", "user", "assertion", "operation", "duplicate", "other"}

Fresh(op, key, conn) ==
  [pc |-> "op", op |-> op, key |-> key, conn |-> conn, attempts |-> 1, then |-> 0,
   n |-> 0, changed |-> 0, status |-> 0, rest |-> {}, found |-> {}, list |-> {}, failed |-> FALSE]

DInit(pc) ==
  /\ dpool \in SUBSET Conns /\ Cardinality(dpool) = SIZE_POOL
  /\ dlive = dpool
  /\ dreq = [t \in DThreads |-> [Fresh("count", NoConn, NoConn) EXCEPT !.pc = pc]]
  /\ ddocs = [k \in Keys |-> 1]
  /\ dalarm = FALSE

(* A mutation: the connection stays in the pool. *)
DOpenKeeps(t) ==
  /\ dreq[t].pc = "idle"
  /\ \E op \in Operations, k \in Keys, c \in dpool :
       /\ dreq' = [dreq EXCEPT ![t] = Fresh(op, k, c)]
       /\ UNCHANGED <<dpool, dlive, ddocs, dalarm>>

(* Collection(), MongoConnection::conn(): an idle connection, or a new one. *)
DOpen(t) ==
  /\ dreq[t].pc = "idle"
  /\ \E op \in Operations, k \in Keys :
       \/ \E c \in dpool :
            /\ dreq' = [dreq EXCEPT ![t] = Fresh(op, k, c)]
            /\ dpool' = dpool \ {c}
            /\ UNCHANGED <<dlive, ddocs, dalarm>>
       \/ /\ dpool = {}
          /\ \E c \in Conns \ dlive :
               /\ dreq' = [dreq EXCEPT ![t] = Fresh(op, k, c)]
               /\ dlive' = dlive \cup {c}
          /\ UNCHANGED <<dpool, ddocs, dalarm>>
       \/ /\ dpool = {}      \* createConnection() fails
          /\ dreq' = [dreq EXCEPT ![t] =
               [Fresh(op, k, NoConn) EXCEPT !.pc = "end", !.status = 500]]
          /\ dalarm' = TRUE
          /\ UNCHANGED <<dpool, dlive, ddocs>>

----------------------------------------------------------------------------
(* The documents of the key after the write, and how many it changes: an   *)
(* update one, a removal all.                                              *)
Written(op, k) ==
  CASE op = "insert" -> [ddocs EXCEPT ![k] = @ + 1]
    [] op = "update" -> ddocs
    [] op = "remove" -> [ddocs EXCEPT ![k] = 0]
Changed(op, k) ==
  CASE op = "insert" -> 1
    [] op = "update" -> IF ddocs[k] = 0 THEN 0 ELSE 1
    [] op = "remove" -> ddocs[k]
Room(op, k) == op = "insert" => ddocs[k] < MaxCopies
Documents == {d \in Keys \X (1..MaxCopies) : d[2] <= ddocs[d[1]]}

(* A retry of an update does not reach the documents: update() puts $set   *)
(* around the $set that is already there.                                  *)
Reaches(r) == r.op = "update" => r.attempts = 1

(* Where the thread goes on: with an answer, with an exception, which      *)
(* carries nothing of what was done, or with an attempt more.              *)
Ends(t, status) ==
  dreq' = [dreq EXCEPT ![t] = IF status = 200 THEN [@ EXCEPT !.pc = "close", !.status = 200]
                              ELSE [Fresh(@.op, @.key, @.conn)
                                      EXCEPT !.pc = "close", !.status = status]]
Reconnects(t, then) ==
  dreq' = [dreq EXCEPT ![t] = IF then = 500
                              THEN [Fresh(@.op, @.key, @.conn)
                                      EXCEPT !.pc = "reconnect", !.then = 500]
                              ELSE [@ EXCEPT !.pc = "reconnect", !.then = then]]
Again(t, n) == dreq' = [dreq EXCEPT ![t].attempts = @ + 1, ![t].changed = @ + n]

(* insert(), update_r(), remove(): the call and getLastError().  The       *)
(* number of a retry is dropped.                                           *)
WriteDone(t) ==
  LET r == dreq[t] IN
  /\ r.pc = "op" /\ r.op \in Writes
  /\ Reaches(r) /\ Room(r.op, r.key)
  /\ ddocs' = Written(r.op, r.key)
  /\ dalarm' = FALSE
  /\ dreq' = [dreq EXCEPT ![t].pc = "close", ![t].status = 200,
                ![t].changed = @ + Changed(r.op, r.key),
                ![t].n = IF r.attempts = 1 THEN Changed(r.op, r.key) ELSE 0]
  /\ UNCHANGED <<dpool, dlive>>

GetLastError(t) ==
  LET r == dreq[t] IN
  /\ r.pc = "op" /\ r.op \in {"update", "remove", "command"}
  /\ dalarm' = FALSE
  /\ \/ ddocs' = ddocs
     \/ r.op \in Writes /\ Reaches(r) /\ ddocs' = Written(r.op, r.key)
  /\ \E status \in {409, 500} : Ends(t, status)
  /\ UNCHANGED <<dpool, dlive>>

(* A mutation: a retry starts to count again, as that of update() does. *)
CaughtForgetful(t, e, n) ==
  IF e = "user" THEN Again(t, n) /\ dreq[t].attempts < MaxAttempts /\ UNCHANGED dalarm
  ELSE Reconnects(t, 500) /\ dalarm' = TRUE

(* The handlers of insert(), update_r(), remove() and find().  update()    *)
(* starts the count of its retries again.                                  *)
Caught(t, e, n) ==
  LET r == dreq[t] IN
  CASE e \in {"socket", "connect", "other"} -> Reconnects(t, 500) /\ dalarm' = TRUE
    [] e = "assertion" /\ r.op # "insert" -> Reconnects(t, 500) /\ dalarm' = TRUE
    [] e = "assertion" /\ r.op = "insert" -> Ends(t, 500) /\ dalarm' = TRUE
    [] e = "user" ->
         \/ /\ IF r.op = "update" THEN r.attempts < MaxAttempts ELSE r.attempts <= MAX_RETRY
            /\ Again(t, n) /\ UNCHANGED dalarm
         \/ /\ r.op # "update" /\ r.attempts > MAX_RETRY
            /\ Ends(t, 500) /\ dalarm' = TRUE
    [] e = "operation" -> Ends(t, 500) /\ dalarm' = TRUE
    [] e = "duplicate" -> Ends(t, 409) /\ UNCHANGED dalarm

(* A call that ends with an exception: the answer may be all that is lost. *)
WriteFails(t) ==
  LET r == dreq[t] IN
  /\ r.pc = "op" /\ r.op \in Writes
  /\ \E e \in Exceptions :
       \/ Caught(t, e, 0) /\ ddocs' = ddocs
       \/ /\ e \in {"socket", "user", "other"} /\ Reaches(r) /\ Room(r.op, r.key)
          /\ Caught(t, e, Changed(r.op, r.key))
          /\ ddocs' = Written(r.op, r.key)
  /\ UNCHANGED <<dpool, dlive>>

(* count(): any exception is handled alike. *)
Count(t) ==
  /\ dreq[t].pc = "op" /\ dreq[t].op = "count"
  /\ \/ /\ dreq' = [dreq EXCEPT ![t].pc = "close", ![t].status = 200,
                      ![t].n = Cardinality(Documents)]
        /\ UNCHANGED dalarm
     \/ Reconnects(t, 500) /\ dalarm' = TRUE
  /\ UNCHANGED <<dpool, dlive, ddocs>>

(* ensureIndex(), likewise. *)
EnsureIndex(t) ==
  /\ dreq[t].pc = "op" /\ dreq[t].op = "index"
  /\ \/ Ends(t, 200) /\ UNCHANGED dalarm
     \/ Reconnects(t, 500) /\ dalarm' = TRUE
  /\ UNCHANGED <<dpool, dlive, ddocs>>

(* dropIndexes(), before it: its exceptions are not told. *)
DropIndexes(t) ==
  /\ dreq[t].pc = "op" /\ dreq[t].op = "index" /\ dreq[t].then = 0
  /\ dalarm' = TRUE
  /\ \/ Reconnects(t, 1)
     \/ dreq' = [dreq EXCEPT ![t].then = 1]
  /\ UNCHANGED <<dpool, dlive, ddocs>>

(* findAndModify(), aggregate(), distinct(): an exception of the first     *)
(* call replaces the pool and calls again, with the old connection.        *)
RunCommand(t) ==
  /\ dreq[t].pc = "op" /\ dreq[t].op = "command"
  /\ \/ dreq' = [dreq EXCEPT ![t].pc = "close", ![t].status = 200] /\ dalarm' = FALSE
     \/ dreq[t].attempts = 1 /\ Reconnects(t, 1) /\ UNCHANGED dalarm
     \/ dreq[t].attempts > 1 /\ Reconnects(t, 500) /\ dalarm' = TRUE
     \/ Ends(t, 500) /\ UNCHANGED dalarm       \* getLastError() is not answered
  /\ UNCHANGED <<dpool, dlive, ddocs>>

(* find(): the retry uses the builder of the fields a second time, which   *)
(* may end with an assertion.                                              *)
Find(t) ==
  /\ dreq[t].pc = "op" /\ dreq[t].op = "find"
  /\ \/ /\ dreq' = [dreq EXCEPT ![t].pc = "more", ![t].rest = Documents,
                      ![t].found = Documents]
        /\ UNCHANGED dalarm
     \/ \E e \in Exceptions : Caught(t, e, 0)
     \/ Ends(t, 500) /\ UNCHANGED dalarm       \* no cursor
  /\ UNCHANGED <<dpool, dlive, ddocs>>

(* more(): after most exceptions the function ends without a value, and    *)
(* the caller reads either.                                                *)
More(t) ==
  LET r == dreq[t] IN
  /\ r.pc = "more"
  /\ \/ /\ r.rest # {} /\ dreq' = [dreq EXCEPT ![t].pc = "next"]
        /\ UNCHANGED dalarm
     \/ r.rest = {} /\ Ends(t, 200) /\ UNCHANGED dalarm
     \/ /\ dreq' = [dreq EXCEPT ![t].pc = "next", ![t].failed = TRUE]
        /\ UNCHANGED dalarm
     \/ /\ dreq' = [dreq EXCEPT ![t].pc = "close", ![t].status = 200, ![t].failed = TRUE]
        /\ UNCHANGED dalarm
     \/ dreq' = [dreq EXCEPT ![t].pc = "reconnect", ![t].then = 2, ![t].failed = TRUE]
        /\ UNCHANGED dalarm
     \/ Ends(t, 500) /\ UNCHANGED dalarm       \* a second UserException
     \/ Ends(t, 500) /\ dalarm' = FALSE        \* OperationException
  /\ UNCHANGED <<dpool, dlive, ddocs>>

(* next(): the caller takes one document. *)
NextDocument(t) ==
  LET r == dreq[t] IN
  /\ r.pc = "next"
  /\ \/ \E d \in r.rest :
          /\ dreq' = [dreq EXCEPT ![t].pc = "more", ![t].rest = @ \ {d}, ![t].list = @ \cup {d}]
          /\ UNCHANGED dalarm
     \/ r.rest = {} /\ Ends(t, 400) /\ UNCHANGED dalarm
     \/ Ends(t, 500) /\ dalarm' = TRUE
     \/ Reconnects(t, 500) /\ dalarm' = TRUE
  /\ UNCHANGED <<dpool, dlive, ddocs>>

----------------------------------------------------------------------------
(* MongoConnection::reconnect(): the idle connections are deleted and a    *)
(* full pool is created; createConnection() may fail on the way, with an   *)
(* alarm and an exception of its own.  The caller keeps its connection.    *)
Reconnect(t) ==
  LET r == dreq[t]
      kept == dlive \ dpool IN
  /\ r.pc = "reconnect"
  /\ \E new \in SUBSET (Conns \ kept) :
       /\ dpool' = new /\ dlive' = kept \cup new
       /\ \/ /\ Cardinality(new) = SIZE_POOL
             /\ dalarm' = dalarm
             /\ \/ /\ r.then = 500 /\ Ends(t, 500)
                \/ /\ r.then = 1
                   /\ dreq' = [dreq EXCEPT ![t].pc = "op", ![t].attempts = @ + 1]
                \/ /\ r.then = 2
                   /\ \E pc \in {"next", "close"} :
                        dreq' = [dreq EXCEPT ![t].pc = pc, ![t].status = 200]
          \/ /\ Cardinality(new) < SIZE_POOL
             /\ dalarm' = TRUE
             /\ Ends(t, 500)
  /\ UNCHANGED ddocs

(* ~Collection(), MongoConnection::done(): the pool grows as needed. *)
DClose(t) ==
  /\ dreq[t].pc = "close"
  /\ dpool' = dpool \cup {dreq[t].conn}
  /\ dreq' = [dreq EXCEPT ![t].pc = "end", ![t].conn = NoConn]
  /\ UNCHANGED <<dlive, ddocs, dalarm>>

(* The caller has its answer; the thread serves another request. *)
DServe(t) ==
  /\ dreq[t].pc = "end"
  /\ dreq' = [dreq EXCEPT ![t] = [Fresh("count", NoConn, NoConn) EXCEPT !.pc = "idle"]]
  /\ UNCHANGED <<dpool, dlive, ddocs, dalarm>>

DNext ==
  \E t \in DThreads :
    \/ DOpen(t) \/ WriteDone(t) \/ GetLastError(t) \/ WriteFails(t) \/ Count(t)
    \/ EnsureIndex(t) \/ DropIndexes(t) \/ RunCommand(t) \/ Find(t) \/ More(t) \/ NextDocument(t)
    \/ Reconnect(t) \/ DClose(t) \/ DServe(t)

DSpec == DInit("idle") /\ [][DNext]_dbVars

----------------------------------------------------------------------------
Holds(t) == dreq[t].pc \notin {"idle", "end", "off"}

(* No connection is used by two Collections, none is used after its        *)
(* deletion or while it is idle in the pool, whatever thread replaces the  *)
(* pool in between.                                                        *)
UsedByOne ==
  /\ \A t \in DThreads : Holds(t) => dreq[t].conn \in dlive \ dpool
  /\ \A t, u \in DThreads : Holds(t) /\ Holds(u) /\ dreq[t].conn = dreq[u].conn => t = u

(* No connection is lost: each is idle or in use, and there are no more    *)
(* than a full pool and one for each thread, although every failure fills  *)
(* the pool again and the connection of the failed operation comes back.   *)
NoneLost ==
  /\ \A c \in dlive \ dpool : \E t \in DThreads : Holds(t) /\ dreq[t].conn = c
  /\ Cardinality(dlive) <= SIZE_POOL + Cardinality(DThreads)

(* The accounts of MongoConnection hold: conn(), done() and reconnect()    *)
(* give every connection to one Collection at a time, lose none and keep   *)
(* their number bounded.                                                   *)
ConnectionIsOwn == UsedByOne /\ NoneLost

(* What an operation reports is what it did: an update or a removal never  *)
(* reports more documents than it changed, and all of them unless it was   *)
(* tried again (the number of the second attempt is dropped); a listing    *)
(* whose cursor did not fail has all that was found; and nothing but an    *)
(* update, whose count of attempts starts again, is tried more often than  *)
(* MAX_RETRY says.                                                         *)
ReportIsTrue ==
  \A t \in DThreads :
    LET r == dreq[t] IN
    /\ r.op # "update" => r.attempts <= MAX_RETRY + 1
    /\ r.pc \in {"close", "end"} /\ r.status = 200 =>
         /\ r.op \in Writes => r.n <= r.changed /\ (r.attempts = 1 => r.n = r.changed)
         /\ r.op = "find" /\ ~r.failed => r.list = r.found
=============================================================================
