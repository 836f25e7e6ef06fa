-------------------------- MODULE ProvisioningProofs --------------------------
(***************************************************************************)
(* The devices of the agents are in order, for any agents, workers, plugins*)
(* and paths, any requests, failing exchanges and expiring registrations,  *)
(* and caches of any size.                                                 *)
(*                                                                         *)
(* Copies: a document that was changed through an agent is newer than what *)
(* the agent has dropped of it, and stays so (SeenInv).                    *)
(* Registrations: what a thread registers is a copy of a document that may *)
(* have changed since.  A registration id is with one document and with    *)
(* the copies of that one, and a new one with nobody but the thread that   *)
(* has it (IdInv); threads that register one device know of each other,    *)
(* apart from those that the mutex keeps from meeting (AloneInv).          *)
(***************************************************************************)
EXTENDS Provisioning, FiniteSetTheorems, TLAPS

IsRecord(r, fields) == r = [f \in fields |-> r[f]]

RegPlaces == {"unregister", "register", "store"}
Places ==
  {"idle", "protocol", "duplicate", "insert", "update", "find", "deploy", "remove",
   "uncache", "rmservice", "rmdevices", "next"} \cup RegPlaces

PutFields == {"op", "agent", "key", "body", "protocol", "ver"}
DeleteFields == {"op", "agent", "key", "ver"}
RenewFields == {"op", "agent", "todo"}

(* What a worker is doing. *)
JobOK(w) ==
  /\ pc[w] # "idle" => job[w].agent \in Agents
  /\ pc[w] \in {"protocol", "insert"} => job[w].op = "post"
  /\ pc[w] \in {"duplicate", "deploy"} \cup RegPlaces => job[w].op \in {"post", "put"}
  /\ pc[w] \in {"update", "find"} => job[w].op = "put"
  /\ pc[w] = "remove" => job[w].op = "delete"
  /\ pc[w] = "uncache" => job[w].op \in {"put", "delete"}
  /\ pc[w] \in {"rmservice", "rmdevices"} => job[w].op = "rmservice"
  /\ pc[w] # "next"
  /\ pc[w] # "idle" /\ job[w].op = "put" =>
       IsRecord(job[w], PutFields) /\ job[w].key \in Keys /\ job[w].body \in Puts
  /\ pc[w] # "idle" /\ job[w].op = "delete" =>
       IsRecord(job[w], DeleteFields) /\ job[w].key \in Keys

WorkType ==
  /\ pc \in [Actors -> Places]
  /\ IsRecord(job, Actors)
  /\ \A w \in Workers : JobOK(w)
  /\ \A a \in Renewing :
       /\ pc[a] \in {"idle", "next"} \cup RegPlaces
       /\ pc[a] # "idle" => IsRecord(job[a], RenewFields)

DocType ==
  /\ writes \in Nat
  /\ \A d \in docs : IsRecord(d, DeviceFields) /\ d.ver \in 0..writes
  /\ \A d, e \in docs : Key(d) = Key(e) => d = e

(* What a worker has written, once it has. *)
JobSeen(w) ==
  pc[w] # "idle" /\ job[w].op \in {"put", "delete"} =>
    job[w].ver \in 0..writes /\ \A d \in At(job[w].key) : d.ver >= job[w].ver

SeenInv ==
  /\ cache \in [Agents -> [entry: [Keys -> Entry \cup {Absent}], queued: [Keys -> Nat]]]
  /\ fresh \in [Agents -> [Keys -> Nat]]
  /\ LocalChangesSeen /\ DeviceIsTimed
  /\ \A a \in Agents, k \in Keys :
       fresh[a][k] <= writes /\ \A d \in At(k) : d.ver >= fresh[a][k]
  /\ \A w \in Workers : JobSeen(w)

-----------------------------------------------------------------------------
(* Registrations. *)

(* The documents threads have read, to register them or later. *)
IsCopy(c) ==
  \/ \E x \in Actors : Registering(x) /\ c = reg[x].doc
  \/ \E a \in Renewing : pc[a] # "idle" /\ c \in job[a].todo

RegType ==
  /\ IsRecord(reg, Actors)
  /\ \A x \in Actors : IsRecord(reg[x], {"doc", "id", "alone"})
  /\ \A x \in Actors : reg[x].alone \in {"yes", "no"}
  /\ IsRecord(m_sm, Agents)

(* Two workers of one process. *)
Serialised(x, y) == {x, y} \subseteq Workers /\ job[x].agent = job[y].agent

AloneInv ==
  /\ \A w \in Workers : Registering(w) => m_sm[job[w].agent] = w
  /\ \A x, y \in Actors :
       x # y /\ Registering(x) /\ Registering(y) /\ Key(reg[x].doc) = Key(reg[y].doc)
       /\ ~Serialised(x, y) => reg[x].alone = "no"
  /\ \A x \in Actors : Registering(x) => Key(reg[x].doc) \notin settled

IdInv ==
  /\ \A d, e \in docs : d.reg = e.reg /\ d.reg # NoReg => d = e
  /\ \A d \in docs : Key(d) \in settled =>
       \A c : IsCopy(c) /\ c.reg = d.reg /\ d.reg # NoReg => Key(c) = Key(d)
  /\ \A x \in Actors : pc[x] = "unregister" => reg[x].doc.reg # NoReg
  /\ \A x \in Actors : pc[x] # "store" => reg[x].id = NoReg
  /\ \A x \in Actors : pc[x] = "store" =>
       /\ reg[x].id # NoReg
       /\ \A d \in docs : d.reg # reg[x].id
       /\ \A c : IsCopy(c) => c.reg # reg[x].id
       /\ \A y \in Actors \ {x} : reg[y].id # reg[x].id
       /\ reg[x].alone = "yes" => Registration(reg[x].id, reg[x].doc) \in live

(* A copy is the document of its version. *)
CopyInv ==
  \A c : IsCopy(c) =>
    /\ c.ver \in 0..writes
    /\ \A d \in docs : Key(c) = Key(d) /\ c.ver = d.ver =>
         c.entity_name = d.entity_name /\ c.commands = d.commands

SettledInv ==
  /\ settled \subseteq {Key(d) : d \in docs}
  /\ SettledIsRegistered

RegInv == RegType /\ AloneInv /\ IdInv /\ CopyInv /\ SettledInv

ProvInv == WorkType /\ DocType /\ SeenInv /\ RegInv

-----------------------------------------------------------------------------
(* The unique index of DEVICE. *)

LEMMA OneIndex == DeviceIndexes = {{"id", "path"}}
<1>1. Cardinality({}) = 0 /\ Cardinality({{"id", "path"}}) = 1
  BY FS_EmptySet, FS_Singleton
<1>. QED BY <1>1 DEF DeviceIndexes, CreateIndex

LEMMA NoClash ==
  ASSUME NEW table, NEW doc, ~Clash(table, doc, DeviceIndexes)
  PROVE  \A d \in table : Key(d) # Key(doc)
<1>1. ASSUME NEW d \in table, Key(d) = Key(doc) PROVE FALSE
  <2>1. d.id = doc.id /\ d.path = doc.path
    BY <1>1 DEF Key
  <2>2. \A f \in {"id", "path"} : d[f] = doc[f]
    BY <2>1
  <2>. QED BY <2>2, <1>1, OneIndex DEF Clash
<1>. QED BY <1>1

-----------------------------------------------------------------------------
(* The work of the threads. *)

LEMMA ActorsApart == Workers \cap Renewing = {}
  BY ProvisioningAssumption

LEMMA WorkerMoves ==
  ASSUME WorkType, NEW w \in Workers, NEW p \in Places, NEW j,
         pc' = [pc EXCEPT ![w] = p], job' = [job EXCEPT ![w] = j], JobOK(w)'
  PROVE  WorkType'
<1>1. w \in Actors /\ pc' \in [Actors -> Places] /\ IsRecord(job, Actors)'
  BY DEF WorkType, Actors, IsRecord
<1>2. ASSUME NEW v \in Workers \ {w} PROVE JobOK(v)'
  <2>1. pc'[v] = pc[v] /\ job'[v] = job[v] /\ JobOK(v)
    BY DEF WorkType, Actors, IsRecord
  <2>. QED BY <2>1 DEF JobOK
<1>3. \A a \in Renewing : pc'[a] = pc[a] /\ job'[a] = job[a]
  BY ActorsApart DEF WorkType, Actors, IsRecord
<1>. QED BY <1>1, <1>2, <1>3 DEF WorkType

LEMMA WorkerGoes ==
  ASSUME WorkType, NEW w \in Workers, NEW p \in Places, Goto(w, p),
         UNCHANGED job, JobOK(w)'
  PROVE  WorkType'
<1>1. job' = [job EXCEPT ![w] = job[w]]
  BY DEF WorkType, IsRecord
<1>. QED BY <1>1, WorkerMoves DEF Goto

LEMMA WorkerAnswers ==
  ASSUME WorkType, NEW w \in Workers, NEW c, Answer(w, c)
  PROVE  WorkType'
<1>1. pc'[w] = "idle"
  BY DEF Answer, WorkType, Actors
<1>2. JobOK(w)'
  BY <1>1 DEF JobOK, RegPlaces
<1>. QED BY <1>2, WorkerMoves DEF Answer, Places

LEMMA RenewalMoves ==
  ASSUME WorkType, NEW a \in Renewing, NEW p \in {"idle", "next"} \cup RegPlaces,
         pc' = [pc EXCEPT ![a] = p], NEW j, job' = [job EXCEPT ![a] = j],
         p # "idle" => IsRecord(j, RenewFields)
  PROVE  WorkType'
<1>1. pc' \in [Actors -> Places] /\ IsRecord(job, Actors)'
  BY DEF WorkType, Actors, IsRecord, Places
<1>2. ASSUME NEW v \in Workers PROVE JobOK(v)'
  <2>1. pc'[v] = pc[v] /\ job'[v] = job[v] /\ JobOK(v)
    BY ActorsApart DEF WorkType, Actors, IsRecord
  <2>. QED BY <2>1 DEF JobOK
<1>3. \A b \in Renewing : /\ pc'[b] \in {"idle", "next"} \cup RegPlaces
                          /\ pc'[b] # "idle" => IsRecord(job'[b], RenewFields)
  <2>1. pc'[a] = p /\ job'[a] = j
    BY DEF WorkType, Actors, IsRecord
  <2>2. \A b \in Renewing \ {a} : pc'[b] = pc[b] /\ job'[b] = job[b]
    BY DEF WorkType, Actors, IsRecord
  <2>. QED BY <2>1, <2>2 DEF WorkType
<1>. QED BY <1>1, <1>2, <1>3 DEF WorkType

LEMMA DeployedMoves ==
  ASSUME WorkType, NEW w \in Workers, pc[w] \in {"deploy"} \cup RegPlaces, Deployed(w)
  PROVE  WorkType'
<1>1. job[w].op \in {"post", "put"} /\ JobOK(w) /\ w \in Actors
  BY DEF WorkType, JobOK, Actors, RegPlaces
<1>2. CASE \E c : Answer(w, c)
  BY <1>2, WorkerAnswers
<1>3. CASE /\ job[w].op = "post" /\ UNCHANGED job
           /\ pc' = [pc EXCEPT ![w] = "protocol"]
  <2>1. JobOK(w)'
    BY <1>1, <1>3 DEF JobOK, WorkType, RegPlaces
  <2>. QED BY <1>3, <2>1, WorkerGoes DEF Goto, Places
<1>4. CASE /\ job[w].op = "put" /\ UNCHANGED job
           /\ pc' = [pc EXCEPT ![w] = "uncache"]
  <2>1. JobOK(w)'
    BY <1>1, <1>4 DEF JobOK, WorkType, RegPlaces
  <2>. QED BY <1>4, <2>1, WorkerGoes DEF Goto, Places
<1>. QED BY <1>1, <1>2, <1>3, <1>4 DEF Deployed, Goto

LEMMA RegisteredMoves ==
  ASSUME WorkType, NEW x \in Actors, pc[x] \in RegPlaces, NEW stop \in BOOLEAN, Registered(x, stop)
  PROVE  WorkType'
<1>1. CASE x \in Workers
  BY <1>1, DeployedMoves DEF Registered
<1>2. CASE x \notin Workers
  <2>1. x \in Renewing
    BY <1>2 DEF Actors
  <2>2. \/ pc' = [pc EXCEPT ![x] = "idle"] /\ job' = [job EXCEPT ![x] = NoJob]
        \/ pc' = [pc EXCEPT ![x] = "next"] /\ job' = job
    BY <1>2 DEF Registered, Goto
  <2>3. job = [job EXCEPT ![x] = job[x]] /\ IsRecord(job[x], RenewFields)
    BY <2>1 DEF WorkType, IsRecord, RegPlaces
  <2>. QED BY <2>1, <2>2, <2>3, RenewalMoves
<1>. QED BY <1>1, <1>2

(* A step on the way of a registration. *)
LEMMA RegMoves ==
  ASSUME WorkType, NEW x \in Actors, pc[x] \in {"deploy", "next"} \cup RegPlaces,
         NEW p \in RegPlaces, Goto(x, p), \/ UNCHANGED job
                                          \/ /\ x \in Renewing
                                             /\ \E j : job' = [job EXCEPT ![x] = j]
                                                      /\ IsRecord(j, RenewFields)
  PROVE  WorkType'
<1>1. CASE x \in Workers
  <2>1. UNCHANGED job
    BY <1>1, ActorsApart
  <2>2. JobOK(x) /\ pc'[x] = p /\ pc[x] # "next" /\ job[x].op \in {"post", "put"}
    BY <1>1 DEF WorkType, JobOK, Goto
  <2>3. JobOK(x)'
    BY <2>1, <2>2 DEF JobOK, RegPlaces
  <2>. QED BY <1>1, <2>1, <2>3, WorkerGoes DEF Places
<1>2. CASE x \in Renewing
  <2>1. job = [job EXCEPT ![x] = job[x]] /\ IsRecord(job[x], RenewFields)
    BY <1>2, ActorsApart DEF WorkType, IsRecord, RegPlaces
  <2>. QED BY <1>2, <2>1, RenewalMoves DEF Goto
<1>. QED BY <1>1, <1>2 DEF Actors

LEMMA WorkStart == Init => WorkType
  BY DEF Init, WorkType, JobOK, Places, RegPlaces, IsRecord, Actors

LEMMA WorkOfRequests ==
  ASSUME WorkType, NEW w \in Workers, Request(w)
  PROVE  WorkType'
<1>1. PICK a \in Agents :
        \/ \E p \in Paths, body \in Posts : PostDevice(w, a, p, body)
        \/ \E k \in Keys, body \in Puts : PutDevice(w, a, k, body)
        \/ \E k \in Keys : DeleteDevice(w, a, k)
        \/ \E s \in Services : PostService(w, a, s)
        \/ \E s, t \in Services : PutService(w, a, s, t)
        \/ \E s \in Services, rm \in {"yes", "no"} : DeleteService(w, a, s, rm)
  BY DEF Request
<1>2. w \in Actors
  BY DEF Actors
<1>3. ASSUME NEW p \in {"protocol", "duplicate", "remove", "rmservice"}, NEW j, j.agent \in Agents,
             pc' = [pc EXCEPT ![w] = p], job' = [job EXCEPT ![w] = j],
             p = "protocol" => j.op = "post",
             p = "duplicate" => j.op = "put",
             p = "remove" => j.op = "delete",
             p = "rmservice" => j.op = "rmservice",
             j.op = "put" => IsRecord(j, PutFields) /\ j.key \in Keys /\ j.body \in Puts,
             j.op = "delete" => IsRecord(j, DeleteFields) /\ j.key \in Keys
      PROVE  WorkType'
  <2>1. pc'[w] = p /\ job'[w] = j
    BY <1>2, <1>3 DEF WorkType, IsRecord
  <2>2. JobOK(w)'
    BY <1>3, <2>1 DEF JobOK, RegPlaces
  <2>. QED BY <1>3, <2>2, WorkerMoves DEF Places
<1>4. CASE \E c : Answer(w, c)
  BY <1>4, WorkerAnswers
<1>5. ASSUME NEW p \in Paths, NEW body \in Posts, PostDevice(w, a, p, body) PROVE WorkType'
  <2>1. CASE ~\E c : Answer(w, c)
    <3>1. Goto(w, "protocol") /\ job' = [job EXCEPT ![w] =
            [op |-> "post", agent |-> a, path |-> p, todo |-> body]]
      BY <1>5, <2>1 DEF PostDevice
    <3>. QED BY <3>1, <1>3 DEF Goto
  <2>. QED BY <1>4, <2>1
<1>6. ASSUME NEW k \in Keys, NEW body \in Puts, PutDevice(w, a, k, body) PROVE WorkType'
  <2>. DEFINE protocol == IF At(k) = {} THEN "" ELSE (CHOOSE d \in At(k) : TRUE).protocol
              j == [op |-> "put", agent |-> a, key |-> k, body |-> body,
                    protocol |-> protocol, ver |-> 0]
  <2>1. CASE ~\E c : Answer(w, c)
    <3>1. Goto(w, "duplicate") /\ job' = [job EXCEPT ![w] = j]
      BY <1>6, <2>1 DEF PutDevice
    <3>2. j.op = "put" /\ j.agent = a /\ j.key = k /\ j.body = body /\ IsRecord(j, PutFields)
      BY DEF IsRecord, PutFields
    <3>. HIDE DEF j
    <3>. QED BY <3>1, <3>2, <1>3 DEF Goto
  <2>. QED BY <1>4, <2>1
<1>7. ASSUME NEW k \in Keys, DeleteDevice(w, a, k) PROVE WorkType'
  <2>. DEFINE j == [op |-> "delete", agent |-> a, key |-> k, ver |-> 0]
  <2>1. Goto(w, "remove") /\ job' = [job EXCEPT ![w] = j]
    BY <1>7 DEF DeleteDevice
  <2>2. j.op = "delete" /\ j.agent = a /\ j.key = k /\ IsRecord(j, DeleteFields)
    BY DEF IsRecord, DeleteFields
  <2>. HIDE DEF j
  <2>. QED BY <2>1, <2>2, <1>3 DEF Goto
<1>8. ASSUME NEW s \in Services, PostService(w, a, s) PROVE WorkType'
  BY <1>8, <1>4 DEF PostService
<1>9. ASSUME NEW s \in Services, NEW t \in Services, PutService(w, a, s, t) PROVE WorkType'
  BY <1>9, <1>4 DEF PutService
<1>10. ASSUME NEW s \in Services, NEW rm \in {"yes", "no"}, DeleteService(w, a, s, rm)
       PROVE  WorkType'
  <2>. DEFINE j == [op |-> "rmservice", agent |-> a, path |-> s.path, resource |-> s.resource,
                    rmdevices |-> rm, num |-> Cardinality({t \in services : t.path = s.path})]
  <2>1. Goto(w, "rmservice") /\ job' = [job EXCEPT ![w] = j]
    BY <1>10 DEF DeleteService
  <2>2. j.op = "rmservice" /\ j.agent = a
    OBVIOUS
  <2>. HIDE DEF j
  <2>. QED BY <2>1, <2>2, <1>3 DEF Goto
<1>. QED BY <1>1, <1>5, <1>6, <1>7, <1>8, <1>9, <1>10

(* A worker takes the next step of what it does. *)
LEMMA WorkerOn ==
  ASSUME WorkType, NEW w \in Workers, NEW p \in Places, Goto(w, p), UNCHANGED job,
         \/ pc[w] = "protocol" /\ p = "duplicate"
         \/ pc[w] = "duplicate" /\ p = (IF job[w].op = "post" THEN "insert" ELSE "update")
         \/ pc[w] = "find" /\ p = "uncache"
         \/ pc[w] = "rmservice" /\ p = "rmdevices"
  PROVE  WorkType'
<1>1. JobOK(w) /\ pc'[w] = p
  BY DEF WorkType, Actors, Goto
<1>2. JobOK(w)'
  BY <1>1 DEF JobOK, RegPlaces
<1>. QED BY <1>2, WorkerGoes

LEMMA WorkOfWorkers ==
  ASSUME WorkType, NEW w \in Workers, WorkerStep(w)
  PROVE  WorkType'
<1>1. w \in Actors /\ JobOK(w)
  BY DEF Actors, WorkType
<1>2. CASE \E c : Answer(w, c)
  BY <1>2, WorkerAnswers
<1>3. CASE CheckProtocol(w) /\ ~\E c : Answer(w, c)
  <2>1. pc[w] = "protocol" /\ Goto(w, "duplicate") /\ UNCHANGED job
    BY <1>3 DEF CheckProtocol
  <2>. QED BY <2>1, WorkerOn DEF Places
<1>4. CASE CheckDuplicate(w) /\ ~\E c : Answer(w, c)
  <2>1. /\ pc[w] = "duplicate" /\ UNCHANGED job
        /\ Goto(w, IF job[w].op = "post" THEN "insert" ELSE "update")
    BY <1>4 DEF CheckDuplicate
  <2>. QED BY <2>1, WorkerOn DEF Places
<1>5. CASE InsertDoc(w) /\ ~\E c : Answer(w, c)
  <2>1. PICK j : Goto(w, "deploy") /\ job' = [job EXCEPT ![w] = j] /\ j.op = "post"
                 /\ j.agent = job[w].agent
    <3>. DEFINE b == Head(job[w].todo)
                doc == [id |-> b.id, path |-> job[w].path, entity_name |-> b.entity_name,
                        entity_type |-> b.entity_type, protocol |-> b.protocol,
                        commands |-> b.commands, reg |-> NoReg, ver |-> writes + 1]
                k == [op |-> "post", agent |-> job[w].agent, path |-> job[w].path,
                      todo |-> Tail(job[w].todo), key |-> Key(doc), protocol |-> b.protocol]
    <3>1. Goto(w, "deploy") /\ job' = [job EXCEPT ![w] = k]
      BY <1>5 DEF InsertDoc
    <3>2. k.op = "post" /\ k.agent = job[w].agent
      OBVIOUS
    <3>. QED BY <3>1, <3>2
  <2>2. pc'[w] = "deploy" /\ job'[w] = j /\ pc[w] = "insert"
    BY <1>1, <1>5, <2>1 DEF Goto, WorkType, IsRecord, InsertDoc
  <2>3. JobOK(w)'
    BY <1>1, <2>1, <2>2 DEF JobOK, RegPlaces
  <2>. QED BY <2>1, <2>3, WorkerMoves DEF Goto, Places
<1>6. CASE UpdateDoc(w) /\ ~\E c : Answer(w, c)
  <2>1. Goto(w, "find") /\ job' = [job EXCEPT ![w] = [@ EXCEPT !.ver = writes + 1]]
        /\ pc[w] = "update"
    BY <1>6 DEF UpdateDoc
  <2>2. pc'[w] = "find" /\ job'[w] = [job[w] EXCEPT !.ver = writes + 1]
    BY <1>1, <2>1 DEF Goto, WorkType, IsRecord
  <2>3. JobOK(w)'
    BY <1>1, <2>1, <2>2 DEF JobOK, RegPlaces, IsRecord, PutFields
  <2>. QED BY <2>1, <2>3, WorkerMoves DEF Goto, Places
<1>7. CASE FindUpdated(w)
  <2>1. CASE Goto(w, "uncache") /\ UNCHANGED job
    BY <1>7, <2>1, WorkerOn DEF Places, FindUpdated
  <2>2. CASE ~(Goto(w, "uncache") /\ UNCHANGED job)
    <3>1. PICK p : Goto(w, "deploy") /\ job' = [job EXCEPT ![w] = [@ EXCEPT !.protocol = p]]
      BY <1>7, <2>2 DEF FindUpdated
    <3>2. pc'[w] = "deploy" /\ job'[w] = [job[w] EXCEPT !.protocol = p] /\ pc[w] = "find"
      BY <1>1, <1>7, <3>1 DEF Goto, WorkType, IsRecord, FindUpdated
    <3>3. JobOK(w)'
      BY <1>1, <3>2 DEF JobOK, RegPlaces, IsRecord, PutFields
    <3>. QED BY <3>1, <3>3, WorkerMoves DEF Goto, Places
  <2>. QED BY <2>1, <2>2
<1>8. CASE RemoveDoc(w)
  <2>1. Goto(w, "uncache") /\ job' = [job EXCEPT ![w] = [@ EXCEPT !.ver = writes + 1]]
        /\ pc[w] = "remove"
    BY <1>8 DEF RemoveDoc
  <2>2. pc'[w] = "uncache" /\ job'[w] = [job[w] EXCEPT !.ver = writes + 1]
    BY <1>1, <2>1 DEF Goto, WorkType, IsRecord
  <2>3. JobOK(w)'
    BY <1>1, <2>1, <2>2 DEF JobOK, RegPlaces, IsRecord, DeleteFields
  <2>. QED BY <2>1, <2>3, WorkerMoves DEF Goto, Places
<1>9. CASE RemoveFromCache(w) \/ RemoveDevices(w)
  BY <1>2, <1>9 DEF RemoveFromCache, RemoveDevices
<1>10. CASE DeployDevice(w)
  <2>1. CASE Deployed(w)
    BY <1>10, <2>1, DeployedMoves DEF DeployDevice
  <2>2. CASE ~Deployed(w)
    <3>1. pc[w] = "deploy" /\ UNCHANGED job /\ \E d : Begin(w, d)
      BY <1>10, <2>2 DEF DeployDevice
    <3>. QED BY <1>1, <3>1, RegMoves DEF Begin, RegPlaces
  <2>. QED BY <2>1, <2>2
<1>11. CASE RemoveServices(w) /\ ~\E c : Answer(w, c)
  <2>1. pc[w] = "rmservice" /\ Goto(w, "rmdevices") /\ UNCHANGED job
    BY <1>11 DEF RemoveServices
  <2>. QED BY <2>1, WorkerOn DEF Places
<1>. QED BY <1>2, <1>3, <1>4, <1>5, <1>6, <1>7, <1>8, <1>9, <1>10, <1>11 DEF WorkerStep

LEMMA WorkStep == WorkType /\ [Next]_vars => WorkType'
<1>. SUFFICES ASSUME WorkType, [Next]_vars PROVE WorkType'
  OBVIOUS
<1>1. ASSUME NEW w \in Workers, Request(w) \/ WorkerStep(w) PROVE WorkType'
  BY <1>1, WorkOfRequests, WorkOfWorkers
<1>2. ASSUME NEW x \in Actors, RegisterStep(x) PROVE WorkType'
  <2>1. CASE Unregister(x)
    BY <2>1, RegMoves DEF Unregister, RegPlaces
  <2>2. CASE Register(x)
    <3>1. CASE Registered(x, TRUE)
      BY <2>2, <3>1, RegisteredMoves DEF Register, RegPlaces
    <3>2. CASE ~Registered(x, TRUE)
      <4>1. pc[x] = "register" /\ Goto(x, "store") /\ UNCHANGED job
        BY <2>2, <3>2 DEF Register
      <4>. QED BY <4>1, RegMoves DEF RegPlaces
    <3>. QED BY <3>1, <3>2
  <2>3. CASE StoreRegistration(x)
    BY <2>3, RegisteredMoves DEF StoreRegistration, RegPlaces
  <2>. QED BY <1>2, <2>1, <2>2, <2>3 DEF RegisterStep
<1>3. ASSUME NEW a \in Renewing, RenewAll(a) PROVE WorkType'
  <2>. DEFINE todo == {d \in docs : d.commands # {} /\ HasPlugin(a, d.protocol, d.path)}
              j == [op |-> "renew", agent |-> a, todo |-> todo]
  <2>1. pc' = [pc EXCEPT ![a] = "next"] /\ job' = [job EXCEPT ![a] = j]
    BY <1>3 DEF RenewAll, Goto
  <2>2. IsRecord(j, RenewFields)
    BY DEF IsRecord, RenewFields
  <2>. HIDE DEF j
  <2>. QED BY <2>1, <2>2, RenewalMoves
<1>4. ASSUME NEW a \in Renewing, RenewNext(a) PROVE WorkType'
  <2>1. PICK d : job' = [job EXCEPT ![a] = [job[a] EXCEPT !.todo = job[a].todo \ {d}]] /\ Begin(a, d)
    BY <1>4 DEF RenewNext
  <2>2. IsRecord([job[a] EXCEPT !.todo = job[a].todo \ {d}], RenewFields)
    BY <1>4 DEF RenewNext, WorkType, IsRecord, RenewFields
  <2>. QED BY <1>4, <2>1, <2>2, RegMoves DEF RenewNext, Begin, RegPlaces, Actors
<1>5. ASSUME UNCHANGED <<pc, job>> PROVE WorkType'
  BY <1>5 DEF WorkType, JobOK
<1>6. ASSUME NEW r \in live, RegistrationExpires(r) PROVE WorkType'
  BY <1>5, <1>6 DEF RegistrationExpires
<1>7. ASSUME NEW a \in Agents, NEW k \in Keys,
             GetDevice(a, k) \/ TimerElapses(a, k) \/ TimerHandled(a, k)
      PROVE  WorkType'
  BY <1>5, <1>7 DEF GetDevice, TimerElapses, TimerHandled, CacheOnly
<1>8. CASE UNCHANGED vars
  BY <1>5, <1>8 DEF vars
<1>. QED BY <1>1, <1>2, <1>3, <1>4, <1>6, <1>7, <1>8 DEF Next

-----------------------------------------------------------------------------
(* The collection DEVICE. *)

LEMMA WithRegistration ==
  ASSUME NEW d, IsRecord(d, DeviceFields), NEW i
  PROVE  LET e == [d EXCEPT !.reg = i]
         IN  /\ IsRecord(e, DeviceFields) /\ Key(e) = Key(d) /\ e.ver = d.ver /\ e.reg = i
             /\ e.entity_name = d.entity_name /\ e.commands = d.commands
  BY DEF IsRecord, DeviceFields, Key

LEMMA WithVersion ==
  ASSUME NEW d, IsRecord(d, DeviceFields), NEW v
  PROVE  LET e == [d EXCEPT !.ver = v]
         IN  IsRecord(e, DeviceFields) /\ e.ver = v /\ e.reg = d.reg
  BY DEF IsRecord, DeviceFields

LEMMA WithFields ==
  ASSUME NEW d, IsRecord(d, DeviceFields), NEW body \in Puts, NEW v
  PROVE  LET e == [Updated(d, body) EXCEPT !.ver = v]
         IN  IsRecord(e, DeviceFields) /\ e.ver = v /\ e.reg = d.reg
<1>1. "ver" \notin DOMAIN body /\ "reg" \notin DOMAIN body
  BY PutsAssumption
<1>2. DOMAIN d = DeviceFields
  BY DEF IsRecord
<1>. DEFINE u == Updated(d, body)
<1>3. IsRecord(u, DeviceFields) /\ u.reg = d.reg
  BY <1>1, <1>2 DEF Updated, IsRecord, DeviceFields
<1>. QED BY <1>3, WithVersion

(* What a step may do to the documents: one keeps its version, or gets the *)
(* next one.                                                               *)
VersionsGrow ==
  /\ writes <= writes'
  /\ \A d \in docs' : d.ver > writes \/ \E e \in docs : Key(e) = Key(d) /\ e.ver = d.ver

DocsGrow == DocType' /\ VersionsGrow

LEMMA DocsAsTheyWere ==
  ASSUME DocType, UNCHANGED <<docs, writes>>
  PROVE  DocsGrow
  BY DEF DocType, DocsGrow, VersionsGrow

LEMMA DocsRemoved ==
  ASSUME DocType, docs' \subseteq docs, writes' = writes + 1
  PROVE  DocsGrow
<1>1. \A d \in docs' : d \in docs /\ IsRecord(d, DeviceFields) /\ d.ver \in 0..writes'
  BY DEF DocType
<1>2. VersionsGrow
  BY <1>1 DEF VersionsGrow, DocType
<1>. QED BY <1>1, <1>2 DEF DocType, DocsGrow

(* A document is put in the place of another one, or of none. *)
LEMMA DocsReplaced ==
  ASSUME DocType, NEW old, NEW new, docs' = (docs \ old) \cup {new},
         IsRecord(new, DeviceFields), \A d \in docs \ old : Key(d) # Key(new),
         \/ writes' = writes + 1 /\ new.ver = writes + 1
         \/ writes' = writes /\ \E e \in docs : Key(e) = Key(new) /\ e.ver = new.ver
  PROVE  DocsGrow
<1>1. writes \in Nat /\ writes' \in Nat /\ writes <= writes'
  BY DEF DocType
<1>2. new.ver \in 0..writes'
  BY <1>1 DEF DocType
<1>3. \A d \in docs' : IsRecord(d, DeviceFields) /\ d.ver \in 0..writes'
  BY <1>1, <1>2 DEF DocType
<1>4. \A d, e \in docs' : Key(d) = Key(e) => d = e
  BY DEF DocType
<1>5. VersionsGrow
  BY <1>1 DEF VersionsGrow
<1>. QED BY <1>1, <1>3, <1>4, <1>5 DEF DocType, DocsGrow

LEMMA InsertedDoc ==
  ASSUME DocType, NEW w \in Workers, InsertDoc(w), docs' # docs
  PROVE  \E doc : /\ IsRecord(doc, DeviceFields) /\ doc.ver = writes + 1 /\ doc.reg = NoReg
                  /\ docs' = docs \cup {doc} /\ writes' = writes + 1
                  /\ \A d \in docs : Key(d) # Key(doc)
<1>. DEFINE b == Head(job[w].todo)
            doc == [id |-> b.id, path |-> job[w].path, entity_name |-> b.entity_name,
                    entity_type |-> b.entity_type, protocol |-> b.protocol,
                    commands |-> b.commands, reg |-> NoReg, ver |-> writes + 1]
<1>1. ~Clash(docs, doc, DeviceIndexes) /\ docs' = docs \cup {doc} /\ writes' = writes + 1
  BY DEF InsertDoc
<1>2. IsRecord(doc, DeviceFields) /\ doc.ver = writes + 1 /\ doc.reg = NoReg
  BY DEF IsRecord, DeviceFields
<1>. HIDE DEF doc
<1>. QED BY <1>1, <1>2, NoClash

LEMMA UpdatedDoc ==
  ASSUME WorkType, DocType, NEW w \in Workers, UpdateDoc(w), <<docs, writes, settled>>' # <<docs, writes, settled>>
  PROVE  \E old \in docs : \E new :
           /\ Key(old) = job[w].key
           /\ IsRecord(new, DeviceFields) /\ new.ver = writes + 1 /\ new.reg = old.reg
           /\ docs' = (docs \ {old}) \cup {new} /\ writes' = writes + 1
           /\ settled' = settled \ {job[w].key, Key(new)}
           /\ \A d \in docs \ {old} : Key(d) # Key(new)
<1>. DEFINE found == At(job[w].key)
            old == CHOOSE d \in found : TRUE
            new == [Updated(old, job[w].body) EXCEPT !.ver = writes + 1]
<1>1. found # {} /\ ~Clash(docs \ {old}, new, DeviceIndexes)
      /\ docs' = (docs \ {old}) \cup {new} /\ writes' = writes + 1
      /\ settled' = settled \ {job[w].key, Key(new)}
  BY DEF UpdateDoc
<1>2. old \in docs /\ Key(old) = job[w].key
  BY <1>1 DEF At
<1>3. pc[w] = "update" /\ JobOK(w)
  BY DEF UpdateDoc, WorkType
<1>4. job[w].body \in Puts
  BY <1>3 DEF JobOK
<1>. HIDE DEF old
<1>5. IsRecord(new, DeviceFields) /\ new.ver = writes + 1 /\ new.reg = old.reg
  BY <1>2, <1>4, WithFields DEF DocType
<1>. HIDE DEF new
<1>. QED BY <1>1, <1>2, <1>5, NoClash

(* The document d becomes e, with the registration of x. *)
StoredAs(x, d, e) ==
  /\ e = [d EXCEPT !.reg = reg[x].id]
  /\ IsRecord(e, DeviceFields) /\ Key(e) = Key(d) /\ e.ver = d.ver
  /\ e.reg = reg[x].id /\ e.entity_name = d.entity_name /\ e.commands = d.commands
  /\ docs' = (docs \ {d}) \cup {e} /\ writes' = writes
  /\ settled' = IF reg[x].alone = "no" \/ Key(d) # Key(reg[x].doc)
                THEN settled \ {Key(d)}
                ELSE IF d.ver = reg[x].doc.ver THEN settled \cup {Key(d)}
                ELSE settled

LEMMA StoredDoc ==
  ASSUME DocType, NEW x \in Actors, StoreRegistration(x), NEW match,
         match = {d \in docs : d.id = reg[x].doc.id}, match # {}
  PROVE  \E d \in docs : \E e : StoredAs(x, d, e)
<1>1. PICK d \in docs :
        /\ docs' = (docs \ {d}) \cup {[d EXCEPT !.reg = reg[x].id]}
        /\ settled' = IF reg[x].alone = "no" \/ Key(d) # Key(reg[x].doc)
                      THEN settled \ {Key(d)}
                      ELSE IF d.ver = reg[x].doc.ver THEN settled \cup {Key(d)}
                      ELSE settled
  BY DEF StoreRegistration
<1>2. IsRecord(d, DeviceFields) /\ writes' = writes
  BY DEF DocType, StoreRegistration
<1>3. StoredAs(x, d, [d EXCEPT !.reg = reg[x].id])
  BY <1>1, <1>2, WithRegistration DEF StoredAs
<1>. QED BY <1>3

LEMMA DocStep ==
  ASSUME WorkType, DocType, [Next]_vars
  PROVE  DocsGrow
<1>1. ASSUME NEW w \in Workers, Request(w) PROVE DocsGrow
  <2>1. UNCHANGED <<docs, writes>>
    BY <1>1 DEF Request, PostDevice, PutDevice, DeleteDevice, PostService, PutService,
                DeleteService, database
  <2>. QED BY <2>1, DocsAsTheyWere
<1>2. ASSUME NEW w \in Workers, InsertDoc(w) PROVE DocsGrow
  <2>1. CASE docs' = docs
    <3>1. UNCHANGED <<docs, writes>> \/ DocsGrow
      <4>. DEFINE b == Head(job[w].todo)
                  doc == [id |-> b.id, path |-> job[w].path, entity_name |-> b.entity_name,
                          entity_type |-> b.entity_type, protocol |-> b.protocol,
                          commands |-> b.commands, reg |-> NoReg, ver |-> writes + 1]
      <4>1. \/ UNCHANGED <<docs, writes>>
            \/ docs' = docs \cup {doc} /\ writes' = writes + 1
        BY <1>2 DEF InsertDoc
      <4>2. CASE docs' = docs \cup {doc} /\ writes' = writes + 1
        BY <2>1, <4>2, DocsRemoved
      <4>. QED BY <4>1, <4>2
    <3>. QED BY <3>1, DocsAsTheyWere
  <2>2. CASE docs' # docs
    <3>1. PICK doc : /\ IsRecord(doc, DeviceFields) /\ doc.ver = writes + 1
                     /\ docs' = docs \cup {doc} /\ writes' = writes + 1
                     /\ \A d \in docs : Key(d) # Key(doc)
      BY <1>2, <2>2, InsertedDoc
    <3>2. docs' = (docs \ {}) \cup {doc} /\ docs \ {} = docs
      BY <3>1
    <3>. QED BY <3>1, <3>2, DocsReplaced
  <2>. QED BY <2>1, <2>2
<1>3. ASSUME NEW w \in Workers, UpdateDoc(w) PROVE DocsGrow
  <2>1. CASE <<docs, writes, settled>>' = <<docs, writes, settled>>
    BY <2>1, DocsAsTheyWere
  <2>2. CASE <<docs, writes, settled>>' # <<docs, writes, settled>>
    <3>1. PICK old, new :
           /\ old \in docs
           /\ IsRecord(new, DeviceFields) /\ new.ver = writes + 1
           /\ docs' = (docs \ {old}) \cup {new} /\ writes' = writes + 1
           /\ \A d \in docs \ {old} : Key(d) # Key(new)
      BY <1>3, <2>2, UpdatedDoc
    <3>. QED BY <3>1, DocsReplaced
  <2>. QED BY <2>1, <2>2
<1>4. ASSUME NEW w \in Workers, RemoveDoc(w) \/ RemoveDevices(w) PROVE DocsGrow
  <2>1. docs' \subseteq docs /\ writes' = writes + 1
    BY <1>4 DEF RemoveDoc, RemoveDevices
  <2>. QED BY <2>1, DocsRemoved
<1>5. ASSUME NEW w \in Workers, WorkerStep(w) PROVE DocsGrow
  <2>1. CASE CheckProtocol(w) \/ CheckDuplicate(w) \/ FindUpdated(w) \/ RemoveFromCache(w)
             \/ DeployDevice(w) \/ RemoveServices(w)
    <3>1. UNCHANGED <<docs, writes>>
      BY <2>1 DEF CheckProtocol, CheckDuplicate, FindUpdated, RemoveFromCache, DeployDevice,
                  RemoveServices, database
    <3>. QED BY <3>1, DocsAsTheyWere
  <2>. QED BY <1>2, <1>3, <1>4, <1>5, <2>1 DEF WorkerStep
<1>6. ASSUME NEW x \in Actors, StoreRegistration(x) PROVE DocsGrow
  <2>. DEFINE match == {d \in docs : d.id = reg[x].doc.id}
  <2>1. CASE match = {}
    <3>1. UNCHANGED <<docs, writes>>
      BY <1>6, <2>1 DEF StoreRegistration
    <3>. QED BY <3>1, DocsAsTheyWere
  <2>2. CASE match # {}
    <3>0. PICK d \in docs : \E e : StoredAs(x, d, e)
      BY <1>6, <2>2, StoredDoc
    <3>1. PICK e : /\ IsRecord(e, DeviceFields) /\ Key(e) = Key(d) /\ e.ver = d.ver
                   /\ docs' = (docs \ {d}) \cup {e} /\ writes' = writes
      BY <3>0 DEF StoredAs
    <3>2. \A f \in docs \ {d} : Key(f) # Key(e)
      BY <3>1 DEF DocType
    <3>. QED BY <3>1, <3>2, DocsReplaced
  <2>. QED BY <2>1, <2>2
<1>7. ASSUME UNCHANGED <<docs, writes>> PROVE DocsGrow
  BY <1>7, DocsAsTheyWere
<1>8. ASSUME NEW x \in Actors, RegisterStep(x) PROVE DocsGrow
  BY <1>6, <1>7, <1>8 DEF RegisterStep, Unregister, Register, database
<1>9. ASSUME NEW a \in Renewing, RenewAll(a) \/ RenewNext(a) PROVE DocsGrow
  BY <1>7, <1>9 DEF RenewAll, RenewNext, database
<1>10. ASSUME NEW r \in live, RegistrationExpires(r) PROVE DocsGrow
  BY <1>7, <1>10 DEF RegistrationExpires, database
<1>11. ASSUME NEW a \in Agents, NEW k \in Keys,
              GetDevice(a, k) \/ TimerElapses(a, k) \/ TimerHandled(a, k)
       PROVE  DocsGrow
  BY <1>7, <1>11 DEF GetDevice, TimerElapses, TimerHandled, CacheOnly, database
<1>12. CASE UNCHANGED vars
  BY <1>7, <1>12 DEF vars
<1>. QED BY <1>1, <1>5, <1>8, <1>9, <1>10, <1>11, <1>12 DEF Next

-----------------------------------------------------------------------------
(* Copies of devices. *)

(* A step of one thread is none of another. *)
OnlyOf(x) == \A y \in Actors \ {x} : pc'[y] = pc[y] /\ job'[y] = job[y]

LEMMA OneMoves ==
  ASSUME WorkType, NEW x \in Actors,
         \/ x \in Workers /\ (Request(x) \/ WorkerStep(x))
         \/ RegisterStep(x)
         \/ x \in Renewing /\ (RenewAll(x) \/ RenewNext(x))
  PROVE  OnlyOf(x)
<1>1. /\ \E p : pc' = [pc EXCEPT ![x] = p] \/ pc' = pc
      /\ \E j : job' = [job EXCEPT ![x] = j] \/ job' = job
      => OnlyOf(x)
  BY DEF OnlyOf, WorkType, IsRecord
<1>2. ASSUME NEW c, Answer(x, c) PROVE OnlyOf(x)
  BY <1>1, <1>2 DEF Answer
<1>3. ASSUME NEW p, Goto(x, p), \E j : job' = [job EXCEPT ![x] = j] \/ job' = job
      PROVE  OnlyOf(x)
  BY <1>1, <1>3 DEF Goto
<1>4. ASSUME x \in Workers, Request(x) PROVE OnlyOf(x)
  <2>1. \/ \E c : Answer(x, c)
        \/ \E p : Goto(x, p) /\ \E j : job' = [job EXCEPT ![x] = j] \/ job' = job
    <3>1. ASSUME NEW a, NEW p, NEW body, PostDevice(x, a, p, body)
          PROVE  \/ \E c : Answer(x, c)
                 \/ \E q : Goto(x, q) /\ \E j : job' = [job EXCEPT ![x] = j] \/ job' = job
      BY <3>1 DEF PostDevice
    <3>2. ASSUME NEW a, NEW k, NEW body, PutDevice(x, a, k, body)
          PROVE  \/ \E c : Answer(x, c)
                 \/ \E q : Goto(x, q) /\ \E j : job' = [job EXCEPT ![x] = j] \/ job' = job
      BY <3>2 DEF PutDevice
    <3>3. ASSUME NEW a, NEW k, DeleteDevice(x, a, k)
          PROVE  \/ \E c : Answer(x, c)
                 \/ \E q : Goto(x, q) /\ \E j : job' = [job EXCEPT ![x] = j] \/ job' = job
      BY <3>3 DEF DeleteDevice
    <3>4. ASSUME NEW a, NEW s, PostService(x, a, s)
          PROVE  \E c : Answer(x, c)
      BY <3>4 DEF PostService
    <3>5. ASSUME NEW a, NEW s, NEW t, PutService(x, a, s, t)
          PROVE  \E c : Answer(x, c)
      BY <3>5 DEF PutService
    <3>6. ASSUME NEW a, NEW s, NEW rm, DeleteService(x, a, s, rm)
          PROVE  \/ \E c : Answer(x, c)
                 \/ \E q : Goto(x, q) /\ \E j : job' = [job EXCEPT ![x] = j] \/ job' = job
      BY <3>6 DEF DeleteService
    <3>. QED BY <1>4, <3>1, <3>2, <3>3, <3>4, <3>5, <3>6 DEF Request
  <2>. QED BY <2>1, <1>2, <1>3
<1>5. ASSUME Deployed(x) PROVE OnlyOf(x)
  BY <1>2, <1>3, <1>5 DEF Deployed
<1>6. ASSUME x \in Workers, WorkerStep(x) PROVE OnlyOf(x)
  <2>1. CASE CheckProtocol(x)
    BY <1>2, <1>3, <2>1 DEF CheckProtocol
  <2>2. CASE CheckDuplicate(x)
    BY <1>2, <1>3, <2>2 DEF CheckDuplicate
  <2>3. CASE InsertDoc(x)
    BY <1>2, <1>3, <2>3 DEF InsertDoc
  <2>4. CASE UpdateDoc(x)
    BY <1>2, <1>3, <2>4 DEF UpdateDoc
  <2>5. CASE FindUpdated(x)
    BY <1>2, <1>3, <2>5 DEF FindUpdated
  <2>6. CASE RemoveDoc(x)
    BY <1>3, <2>6 DEF RemoveDoc
  <2>7. CASE RemoveFromCache(x) \/ RemoveDevices(x)
    BY <1>2, <2>7 DEF RemoveFromCache, RemoveDevices
  <2>8. CASE DeployDevice(x)
    BY <1>3, <1>5, <2>8 DEF DeployDevice, Begin
  <2>9. CASE RemoveServices(x)
    BY <1>2, <1>3, <2>9 DEF RemoveServices
  <2>. QED BY <1>6, <2>1, <2>2, <2>3, <2>4, <2>5, <2>6, <2>7, <2>8, <2>9 DEF WorkerStep
<1>7. ASSUME NEW stop \in BOOLEAN, Registered(x, stop) PROVE OnlyOf(x)
  BY <1>3, <1>5, <1>7 DEF Registered
<1>8. ASSUME RegisterStep(x) PROVE OnlyOf(x)
  <2>1. CASE Unregister(x)
    BY <1>3, <2>1 DEF Unregister
  <2>2. CASE Register(x)
    BY <1>3, <1>7, <2>2 DEF Register
  <2>3. CASE StoreRegistration(x)
    BY <1>7, <2>3 DEF StoreRegistration
  <2>. QED BY <1>8, <2>1, <2>2, <2>3 DEF RegisterStep
<1>9. ASSUME RenewAll(x) PROVE OnlyOf(x)
  BY <1>3, <1>9 DEF RenewAll
<1>10. ASSUME RenewNext(x) PROVE OnlyOf(x)
  BY <1>3, <1>10 DEF RenewNext, Begin
<1>. QED BY <1>4, <1>6, <1>8, <1>9, <1>10

(* What a step does to the version a worker has written. *)
VersionKept(w) ==
  pc'[w] # "idle" /\ job'[w].op \in {"put", "delete"} =>
    \/ pc[w] # "idle" /\ job[w].op = job'[w].op /\ job[w].key = job'[w].key
       /\ job[w].ver = job'[w].ver
    \/ job'[w].ver = 0
    \/ job'[w].ver = writes' /\ \A d \in docs' : Key(d) = job'[w].key => d.ver = writes'

LEMMA VersionSeen ==
  ASSUME NEW w \in Workers, JobSeen(w), DocType, DocsGrow, VersionKept(w)
  PROVE  JobSeen(w)'
<1>. SUFFICES ASSUME pc'[w] # "idle", job'[w].op \in {"put", "delete"}
              PROVE  /\ job'[w].ver \in 0..writes'
                     /\ \A d \in docs' : Key(d) = job'[w].key => d.ver >= job'[w].ver
  BY DEF JobSeen, At, Key
<1>0. /\ writes \in Nat /\ writes' \in Nat /\ writes <= writes'
      /\ \A d \in docs' : d.ver \in 0..writes'
      /\ \A d \in docs' : d.ver > writes \/ \E e \in docs : Key(e) = Key(d) /\ e.ver = d.ver
  BY DEF DocsGrow, DocType, VersionsGrow
<1>1. CASE pc[w] # "idle" /\ job[w].op = job'[w].op /\ job[w].key = job'[w].key
           /\ job[w].ver = job'[w].ver
  BY <1>0, <1>1 DEF JobSeen, At
<1>2. CASE job'[w].ver = 0
  BY <1>0, <1>2
<1>3. CASE job'[w].ver = writes' /\ \A d \in docs' : Key(d) = job'[w].key => d.ver = writes'
  BY <1>0, <1>3
<1>. QED BY <1>1, <1>2, <1>3 DEF VersionKept

LEMMA VersionOfWorker ==
  ASSUME WorkType, WorkType', DocType, NEW w \in Workers,
         Request(w) \/ WorkerStep(w) \/ RegisterStep(w)
  PROVE  VersionKept(w)
<1>1. w \in Actors /\ JobOK(w)
  BY DEF Actors, WorkType
<1>2. ASSUME NEW p, Goto(w, p) \/ pc' = [pc EXCEPT ![w] = p]
      PROVE  pc'[w] = p
  BY <1>1, <1>2 DEF Goto, WorkType
<1>3. ASSUME NEW j, job' = [job EXCEPT ![w] = j] PROVE job'[w] = j
  BY <1>1, <1>3 DEF WorkType, IsRecord
<1>4. ASSUME NEW c, Answer(w, c) PROVE VersionKept(w)
  BY <1>2, <1>4 DEF Answer, VersionKept
<1>5. ASSUME pc[w] # "idle", UNCHANGED job PROVE VersionKept(w)
  BY <1>5 DEF VersionKept
<1>6. ASSUME Deployed(w), pc[w] # "idle" PROVE VersionKept(w)
  BY <1>4, <1>5, <1>6 DEF Deployed
<1>7. CASE Request(w)
  <2>1. ASSUME NEW a, NEW p, NEW body, PostDevice(w, a, p, body) PROVE VersionKept(w)
    <3>1. CASE job' = [job EXCEPT ![w] =
                 [op |-> "post", agent |-> a, path |-> p, todo |-> body]]
      BY <1>3, <3>1 DEF VersionKept
    <3>. QED BY <1>4, <2>1, <3>1 DEF PostDevice
  <2>2. ASSUME NEW a, NEW k, NEW body, PutDevice(w, a, k, body) PROVE VersionKept(w)
    <3>. DEFINE protocol == IF At(k) = {} THEN "" ELSE (CHOOSE d \in At(k) : TRUE).protocol
    <3>1. CASE job' = [job EXCEPT ![w] =
                 [op |-> "put", agent |-> a, key |-> k, body |-> body,
                  protocol |-> protocol, ver |-> 0]]
      BY <1>3, <3>1 DEF VersionKept
    <3>. QED BY <1>4, <2>2, <3>1 DEF PutDevice
  <2>3. ASSUME NEW a, NEW k, DeleteDevice(w, a, k) PROVE VersionKept(w)
    <3>1. job'[w] = [op |-> "delete", agent |-> a, key |-> k, ver |-> 0]
      BY <1>3, <2>3 DEF DeleteDevice
    <3>. QED BY <3>1 DEF VersionKept
  <2>4. ASSUME NEW a, NEW s, NEW rm, DeleteService(w, a, s, rm) PROVE VersionKept(w)
    <3>1. job'[w].op = "rmservice"
      BY <1>3, <2>4 DEF DeleteService
    <3>. QED BY <3>1 DEF VersionKept
  <2>5. ASSUME NEW a, NEW s, PostService(w, a, s) PROVE VersionKept(w)
    BY <1>4, <2>5 DEF PostService
  <2>6. ASSUME NEW a, NEW s, NEW t, PutService(w, a, s, t) PROVE VersionKept(w)
    BY <1>4, <2>6 DEF PutService
  <2>. QED BY <1>7, <2>1, <2>2, <2>3, <2>4, <2>5, <2>6 DEF Request
<1>8. CASE WorkerStep(w)
  <2>1. CASE CheckProtocol(w) \/ CheckDuplicate(w) \/ RemoveFromCache(w) \/ RemoveServices(w)
             \/ RemoveDevices(w)
    BY <1>4, <1>5, <2>1 DEF CheckProtocol, CheckDuplicate, RemoveFromCache, RemoveServices,
                            RemoveDevices
  <2>2. CASE InsertDoc(w)
    <3>. DEFINE b == Head(job[w].todo)
                doc == [id |-> b.id, path |-> job[w].path, entity_name |-> b.entity_name,
                        entity_type |-> b.entity_type, protocol |-> b.protocol,
                        commands |-> b.commands, reg |-> NoReg, ver |-> writes + 1]
    <3>1. CASE job' = [job EXCEPT ![w] =
                   [op |-> "post", agent |-> job[w].agent, path |-> job[w].path,
                    todo |-> Tail(job[w].todo), key |-> Key(doc), protocol |-> b.protocol]]
      BY <1>3, <3>1 DEF VersionKept
    <3>. QED BY <1>4, <2>2, <3>1 DEF InsertDoc
  <2>3. CASE UpdateDoc(w)
    <3>1. CASE \E c : Answer(w, c)
      BY <1>4, <3>1
    <3>2. CASE ~\E c : Answer(w, c)
      <4>1. /\ pc[w] = "update" /\ writes' = writes + 1
            /\ job' = [job EXCEPT ![w] = [job[w] EXCEPT !.ver = writes + 1]]
        BY <2>3, <3>2 DEF UpdateDoc
      <4>2. IsRecord(job[w], PutFields)
        BY <1>1, <4>1 DEF JobOK
      <4>3. job'[w].ver = writes' /\ job'[w].key = job[w].key
        BY <1>3, <4>1, <4>2 DEF IsRecord, PutFields
      <4>4. <<docs, writes, settled>>' # <<docs, writes, settled>>
        BY <4>1 DEF DocType
      <4>5. PICK old, new :
              /\ old \in docs
              /\ Key(old) = job[w].key /\ new.ver = writes + 1
              /\ docs' = (docs \ {old}) \cup {new}
        BY <2>3, <4>4, UpdatedDoc
      <4>6. \A d \in docs' : Key(d) = job'[w].key => d = new
        BY <4>3, <4>5 DEF DocType
      <4>. QED BY <4>1, <4>3, <4>5, <4>6 DEF VersionKept
    <3>. QED BY <3>1, <3>2
  <2>4. CASE FindUpdated(w)
    <3>1. ASSUME NEW p, job' = [job EXCEPT ![w] = [job[w] EXCEPT !.protocol = p]]
          PROVE  VersionKept(w)
      <4>1. IsRecord(job[w], PutFields) /\ pc[w] # "idle"
        BY <1>1, <2>4 DEF JobOK, FindUpdated
      <4>2. job'[w].ver = job[w].ver /\ job'[w].key = job[w].key /\ job'[w].op = job[w].op
        BY <1>3, <3>1, <4>1 DEF IsRecord, PutFields
      <4>. QED BY <4>1, <4>2 DEF VersionKept
    <3>. QED BY <1>5, <2>4, <3>1 DEF FindUpdated
  <2>5. CASE RemoveDoc(w)
    <3>1. /\ pc[w] = "remove" /\ writes' = writes + 1 /\ docs' = docs \ At(job[w].key)
          /\ job' = [job EXCEPT ![w] = [job[w] EXCEPT !.ver = writes + 1]]
      BY <2>5 DEF RemoveDoc
    <3>2. IsRecord(job[w], DeleteFields)
      BY <1>1, <3>1 DEF JobOK
    <3>3. job'[w].ver = writes' /\ job'[w].key = job[w].key
      BY <1>3, <3>1, <3>2 DEF IsRecord, DeleteFields
    <3>4. ~ \E d \in docs' : Key(d) = job'[w].key
      BY <3>1, <3>3 DEF At
    <3>. QED BY <3>3, <3>4 DEF VersionKept
  <2>6. CASE DeployDevice(w)
    BY <1>5, <1>6, <2>6 DEF DeployDevice
  <2>. QED BY <1>8, <2>1, <2>2, <2>3, <2>4, <2>5, <2>6 DEF WorkerStep
<1>9. CASE RegisterStep(w)
  <2>1. ASSUME NEW stop, Registered(w, stop), pc[w] # "idle" PROVE VersionKept(w)
    BY <1>6, <2>1 DEF Registered
  <2>. QED BY <1>5, <1>9, <2>1 DEF RegisterStep, Unregister, Register, StoreRegistration
<1>. QED BY <1>7, <1>8, <1>9

(* The versions of all workers, after any step. *)
LEMMA AllVersions ==
  ASSUME WorkType, WorkType', DocType, DocsGrow, SeenInv, [Next]_vars
  PROVE  \A w \in Workers : JobSeen(w)'
<1>1. ASSUME NEW x \in Actors, OnlyOf(x),
             x \in Workers => VersionKept(x)
      PROVE  \A w \in Workers : JobSeen(w)'
  <2>. SUFFICES ASSUME NEW w \in Workers PROVE JobSeen(w)'
    OBVIOUS
  <2>1. CASE w = x
    BY <1>1, <2>1, VersionSeen DEF SeenInv
  <2>2. CASE w # x
    <3>1. pc'[w] = pc[w] /\ job'[w] = job[w]
      BY <1>1, <2>2 DEF OnlyOf, Actors
    <3>2. VersionKept(w)
      BY <3>1 DEF VersionKept
    <3>. QED BY <3>2, VersionSeen DEF SeenInv
  <2>. QED BY <2>1, <2>2
<1>2. ASSUME UNCHANGED <<pc, job>> PROVE \A w \in Workers : JobSeen(w)'
  <2>. SUFFICES ASSUME NEW w \in Workers PROVE JobSeen(w)'
    OBVIOUS
  <2>1. VersionKept(w)
    BY <1>2 DEF VersionKept
  <2>. QED BY <2>1, VersionSeen DEF SeenInv
<1>3. ASSUME NEW w \in Workers, Request(w) \/ WorkerStep(w)
      PROVE  \A v \in Workers : JobSeen(v)'
  BY <1>1, <1>3, OneMoves, VersionOfWorker DEF Actors
<1>4. ASSUME NEW x \in Actors, RegisterStep(x)
      PROVE  \A v \in Workers : JobSeen(v)'
  BY <1>1, <1>4, OneMoves, VersionOfWorker
<1>5. ASSUME NEW a \in Renewing, RenewAll(a) \/ RenewNext(a)
      PROVE  \A v \in Workers : JobSeen(v)'
  <2>1. a \in Actors /\ a \notin Workers
    BY ActorsApart DEF Actors
  <2>. QED BY <1>1, <1>5, <2>1, OneMoves
<1>6. ASSUME NEW r \in live, RegistrationExpires(r)
      PROVE  \A v \in Workers : JobSeen(v)'
  BY <1>2, <1>6 DEF RegistrationExpires
<1>7. ASSUME NEW a \in Agents, NEW k \in Keys,
             GetDevice(a, k) \/ TimerElapses(a, k) \/ TimerHandled(a, k)
      PROVE  \A v \in Workers : JobSeen(v)'
  BY <1>2, <1>7 DEF GetDevice, TimerElapses, TimerHandled, CacheOnly
<1>8. CASE UNCHANGED vars
  BY <1>2, <1>8 DEF vars
<1>. QED BY <1>3, <1>4, <1>5, <1>6, <1>7, <1>8 DEF Next

-----------------------------------------------------------------------------
(* The caches. *)

Caches == [entry: [Keys -> Entry \cup {Absent}], queued: [Keys -> Nat]]

(* One copy is cached, or goes, or its timer runs out. *)
LEMMA CacheMoves ==
  ASSUME SeenInv, NEW a \in Agents, NEW c \in Caches, cache' = [cache EXCEPT ![a] = c],
         UNCHANGED fresh, DocsGrow, DocType, \A w \in Workers : JobSeen(w)',
         \A k \in Keys : c.entry[k] # Absent =>
           /\ c.entry[k].ver >= fresh[a][k]
           /\ c.entry[k].armed = "yes" \/ c.queued[k] > 0
  PROVE  SeenInv'
<1>1. cache' \in [Agents -> Caches] /\ fresh' \in [Agents -> [Keys -> Nat]]
  BY DEF SeenInv, Caches
<1>2. LocalChangesSeen' /\ DeviceIsTimed'
  BY DEF SeenInv, LocalChangesSeen, DeviceIsTimed
<1>3. ASSUME NEW b \in Agents, NEW k \in Keys
      PROVE  fresh[b][k] <= writes' /\ \A d \in docs' : Key(d) = k => d.ver >= fresh[b][k]
  <2>1. fresh[b][k] \in Nat /\ fresh[b][k] <= writes
        /\ \A d \in docs : Key(d) = k => d.ver >= fresh[b][k]
    BY DEF SeenInv, At
  <2>2. /\ writes \in Nat /\ writes' \in Nat /\ writes <= writes'
        /\ \A d \in docs' : d.ver \in 0..writes'
        /\ \A d \in docs' : d.ver > writes \/ \E e \in docs : Key(e) = Key(d) /\ e.ver = d.ver
    BY DEF DocsGrow, DocType, VersionsGrow
  <2>. QED BY <2>1, <2>2
<1>. QED BY <1>1, <1>2, <1>3 DEF SeenInv, Caches, At

LEMMA CacheKept ==
  ASSUME SeenInv, UNCHANGED <<cache, fresh>>, DocsGrow, DocType,
         \A w \in Workers : JobSeen(w)'
  PROVE  SeenInv'
<1>1. LocalChangesSeen' /\ DeviceIsTimed'
  BY DEF SeenInv, LocalChangesSeen, DeviceIsTimed
<1>2. ASSUME NEW b \in Agents, NEW k \in Keys
      PROVE  fresh[b][k] <= writes' /\ \A d \in docs' : Key(d) = k => d.ver >= fresh[b][k]
  <2>1. fresh[b][k] \in Nat /\ fresh[b][k] <= writes
        /\ \A d \in docs : Key(d) = k => d.ver >= fresh[b][k]
    BY DEF SeenInv, At
  <2>2. /\ writes \in Nat /\ writes' \in Nat /\ writes <= writes'
        /\ \A d \in docs' : d.ver \in 0..writes'
        /\ \A d \in docs' : d.ver > writes \/ \E e \in docs : Key(e) = Key(d) /\ e.ver = d.ver
    BY DEF DocsGrow, DocType, VersionsGrow
  <2>. QED BY <2>1, <2>2
<1>. QED BY <1>1, <1>2 DEF SeenInv, At

(* remove_from_cache(): the agent has dropped all copies older than what it *)
(* has written.                                                            *)
LEMMA CopyForgotten ==
  ASSUME WorkType, DocType, SeenInv, NEW w \in Workers, RemoveFromCache(w),
         \A v \in Workers : JobSeen(v)'
  PROVE  SeenInv'
<1>. DEFINE a == job[w].agent
            k == job[w].key
            v == IF job[w].ver > fresh[a][k] THEN job[w].ver ELSE fresh[a][k]
            c == RemoveDevice(cache[a], k)
<1>1. /\ a \in Agents /\ k \in Keys /\ job[w].ver \in 0..writes
      /\ \A d \in docs : Key(d) = k => d.ver >= job[w].ver
  BY DEF RemoveFromCache, WorkType, JobOK, SeenInv, JobSeen, At
<1>2. /\ cache' = [cache EXCEPT ![a] = c] /\ UNCHANGED <<docs, writes>>
      /\ fresh' = [fresh EXCEPT ![a][k] = v]
  BY DEF RemoveFromCache, database
<1>3. cache \in [Agents -> Caches] /\ fresh \in [Agents -> [Keys -> Nat]]
  BY DEF SeenInv, Caches
<1>4. /\ c \in Caches /\ c.entry[k] = Absent /\ c.queued = cache[a].queued
      /\ \A i \in Keys \ {k} : c.entry[i] = cache[a].entry[i]
  BY <1>1, <1>3 DEF Caches, RemoveDevice
<1>5. /\ v \in Nat /\ v <= writes /\ \A d \in docs : Key(d) = k => d.ver >= v
  <2>1. fresh[a][k] \in Nat /\ fresh[a][k] <= writes
        /\ \A d \in docs : Key(d) = k => d.ver >= fresh[a][k]
    BY <1>1, <1>3 DEF SeenInv, At
  <2>2. job[w].ver \in Nat /\ job[w].ver <= writes
    BY <1>1 DEF DocType
  <2>. QED BY <1>1, <2>1, <2>2
<1>. HIDE DEF a, k, v, c
<1>6. cache' \in [Agents -> Caches] /\ fresh' \in [Agents -> [Keys -> Nat]]
  BY <1>1, <1>2, <1>3, <1>4, <1>5
<1>7. /\ fresh'[a][k] = v
      /\ \A b \in Agents, i \in Keys : <<b, i>> # <<a, k>> => fresh'[b][i] = fresh[b][i]
  BY <1>1, <1>2, <1>3
<1>8. /\ cache'[a] = c
      /\ \A b \in Agents : b # a => cache'[b] = cache[b]
  BY <1>1, <1>2, <1>3
<1>9. ASSUME NEW b \in Agents, NEW i \in Keys
      PROVE  /\ cache'[b].entry[i] # Absent =>
                  /\ cache'[b].entry[i].ver >= fresh'[b][i]
                  /\ cache'[b].entry[i].armed = "yes" \/ cache'[b].queued[i] > 0
             /\ fresh'[b][i] <= writes /\ \A d \in docs : Key(d) = i => d.ver >= fresh'[b][i]
  <2>1. CASE b = a /\ i = k
    BY <1>4, <1>5, <1>7, <1>8, <2>1
  <2>2. CASE ~(b = a /\ i = k)
    <3>1. fresh'[b][i] = fresh[b][i] /\ cache'[b].entry[i] = cache[b].entry[i]
          /\ cache'[b].queued[i] = cache[b].queued[i]
      BY <1>4, <1>7, <1>8, <2>2
    <3>. QED BY <3>1 DEF SeenInv, LocalChangesSeen, DeviceIsTimed, At
  <2>. QED BY <2>1, <2>2
<1>. QED BY <1>2, <1>6, <1>9 DEF SeenInv, LocalChangesSeen, DeviceIsTimed, Caches, At

LEMMA CopyRead ==
  ASSUME DocType, DocsGrow, SeenInv, NEW a \in Agents, NEW k \in Keys, GetDevice(a, k),
         \A v \in Workers : JobSeen(v)'
  PROVE  SeenInv'
<1>. DEFINE stored == IF At(k) = {} THEN Absent ELSE (CHOOSE d \in At(k) : TRUE).ver
            c == Get(cache[a], k, stored)
<1>1. cache' = [cache EXCEPT ![a] = c] /\ UNCHANGED <<docs, fresh>>
  BY DEF GetDevice, database
<1>2. cache[a] \in Caches /\ fresh[a][k] \in Nat
  BY DEF SeenInv, Caches
<1>3. stored # Absent => stored \in Nat /\ stored >= fresh[a][k]
  <2>1. \A d \in At(k) : d.ver \in 0..writes /\ d.ver >= fresh[a][k]
    BY DEF SeenInv, At, DocType
  <2>2. \A d \in At(k) : d.ver \in Nat
    BY <2>1 DEF DocType
  <2>3. At(k) # {} => (CHOOSE d \in At(k) : TRUE) \in At(k)
    OBVIOUS
  <2>4. CASE At(k) = {}
    BY <2>4
  <2>5. CASE At(k) # {}
    <3>. DEFINE d == CHOOSE d \in At(k) : TRUE
    <3>1. stored = d.ver
      BY <2>5
    <3>. HIDE DEF d
    <3>2. d \in At(k)
      BY <2>3, <2>5 DEF d
    <3>. QED BY <2>1, <2>2, <3>1, <3>2
  <2>. QED BY <2>4, <2>5
<1>4. \A i \in Keys : cache[a].entry[i] # Absent =>
        /\ cache[a].entry[i] \in Entry /\ cache[a].entry[i].ver >= fresh[a][i]
        /\ cache[a].entry[i].armed = "yes" \/ cache[a].queued[i] > 0
  BY <1>2 DEF SeenInv, LocalChangesSeen, DeviceIsTimed, Caches
<1>5. ASSUME NEW v \in Nat, v >= fresh[a][k]
      PROVE  LET e == InsertDevice(cache[a], k, v)
             IN  /\ e \in Caches
                 /\ \A i \in Keys : e.entry[i] # Absent =>
                      /\ e.entry[i].ver >= fresh[a][i]
                      /\ e.entry[i].armed = "yes" \/ e.queued[i] > 0
  <2>1. CASE ~HasRoom(cache[a])
    BY <1>2, <1>4, <2>1 DEF InsertDevice
  <2>2. CASE HasRoom(cache[a])
    <3>1. [ver |-> v, armed |-> "yes"] \in Entry
      BY DEF Entry
    <3>. QED BY <1>2, <1>4, <1>5, <2>2, <3>1 DEF InsertDevice, Caches
  <2>. QED BY <2>1, <2>2
<1>6. /\ c \in Caches
      /\ \A i \in Keys : c.entry[i] # Absent =>
           /\ c.entry[i].ver >= fresh[a][i]
           /\ c.entry[i].armed = "yes" \/ c.queued[i] > 0
  <2>1. CASE cache[a].entry[k] # Absent
    <3>1. cache[a].entry[k].ver \in Nat /\ c = InsertDevice(cache[a], k, cache[a].entry[k].ver)
      BY <1>4, <2>1 DEF Get, Entry
    <3>. QED BY <1>4, <1>5, <2>1, <3>1
  <2>2. CASE cache[a].entry[k] = Absent /\ stored # Absent
    <3>1. c = InsertDevice(cache[a], k, stored)
      BY <2>2 DEF Get
    <3>. HIDE DEF stored, c
    <3>. QED BY <1>3, <1>5, <2>2, <3>1
  <2>3. CASE cache[a].entry[k] = Absent /\ stored = Absent
    <3>1. c = cache[a]
      BY <2>3 DEF Get
    <3>. QED BY <1>2, <1>4, <3>1
  <2>. QED BY <2>1, <2>2, <2>3
<1>. HIDE DEF c, stored
<1>. QED BY <1>1, <1>6, CacheMoves

(* Caches, field by field. *)
LEMMA CacheFields ==
  ASSUME NEW c, IsRecord(c, {"entry", "queued"}),
         c.entry \in [Keys -> Entry \cup {Absent}], c.queued \in [Keys -> Nat]
  PROVE  c \in Caches
  BY DEF Caches, IsRecord

LEMMA ElapsedCopy ==
  ASSUME NEW c \in Caches, NEW k \in Keys
  PROVE  /\ IsRecord(Elapse(c, k), {"entry", "queued"})
         /\ Elapse(c, k).entry = [c.entry EXCEPT ![k] = [c.entry[k] EXCEPT !.armed = "no"]]
         /\ Elapse(c, k).queued = [c.queued EXCEPT ![k] = c.queued[k] + 1]
  BY DEF Elapse, Caches, IsRecord

LEMMA HandledCopy ==
  ASSUME NEW c \in Caches, NEW k \in Keys
  PROVE  /\ IsRecord(ItemTimeout(c, k), {"entry", "queued"})
         /\ ItemTimeout(c, k).entry = [c.entry EXCEPT ![k] = Absent]
         /\ ItemTimeout(c, k).queued = [c.queued EXCEPT ![k] = c.queued[k] - 1]
  BY DEF ItemTimeout, RemoveDevice, Caches, IsRecord

LEMMA SeenStep ==
  ASSUME WorkType, WorkType', DocType, DocsGrow, SeenInv, [Next]_vars
  PROVE  SeenInv'
<1>1. \A v \in Workers : JobSeen(v)'
  BY AllVersions
<1>2. ASSUME UNCHANGED <<cache, fresh>> PROVE SeenInv'
  BY <1>1, <1>2, CacheKept
<1>3. ASSUME NEW w \in Workers, Request(w) PROVE SeenInv'
  BY <1>2, <1>3 DEF Request, PostDevice, PutDevice, DeleteDevice, PostService, PutService,
                    DeleteService
<1>4. ASSUME NEW w \in Workers, WorkerStep(w) PROVE SeenInv'
  <2>1. CASE RemoveFromCache(w)
    BY <1>1, <2>1, CopyForgotten
  <2>2. CASE CheckProtocol(w) \/ CheckDuplicate(w) \/ InsertDoc(w) \/ UpdateDoc(w)
             \/ FindUpdated(w) \/ RemoveDoc(w) \/ DeployDevice(w) \/ RemoveServices(w)
             \/ RemoveDevices(w)
    BY <1>2, <2>2 DEF CheckProtocol, CheckDuplicate, InsertDoc, UpdateDoc, FindUpdated,
                      RemoveDoc, DeployDevice, RemoveServices, RemoveDevices
  <2>. QED BY <1>4, <2>1, <2>2 DEF WorkerStep
<1>5. ASSUME NEW x \in Actors, RegisterStep(x) PROVE SeenInv'
  BY <1>2, <1>5 DEF RegisterStep, Unregister, Register, StoreRegistration
<1>6. ASSUME NEW a \in Renewing, RenewAll(a) \/ RenewNext(a) PROVE SeenInv'
  BY <1>2, <1>6 DEF RenewAll, RenewNext
<1>7. ASSUME NEW r \in live, RegistrationExpires(r) PROVE SeenInv'
  BY <1>2, <1>7 DEF RegistrationExpires
<1>8. ASSUME NEW a \in Agents, NEW k \in Keys, GetDevice(a, k) PROVE SeenInv'
  BY <1>1, <1>8, CopyRead
<1>9. ASSUME NEW a \in Agents, NEW k \in Keys, TimerElapses(a, k) PROVE SeenInv'
  <2>. DEFINE c == Elapse(cache[a], k)
  <2>1. cache' = [cache EXCEPT ![a] = c] /\ UNCHANGED fresh /\ cache[a].entry[k] # Absent
    BY <1>9 DEF TimerElapses, CacheOnly
  <2>2. cache[a] \in Caches
    BY DEF SeenInv, Caches
  <2>3. cache[a].entry[k] \in Entry /\ cache[a].queued[k] \in Nat
    BY <2>1, <2>2 DEF Caches
  <2>4. /\ IsRecord(c, {"entry", "queued"})
        /\ c.entry = [cache[a].entry EXCEPT ![k] = [ver |-> cache[a].entry[k].ver, armed |-> "no"]]
        /\ c.queued = [cache[a].queued EXCEPT ![k] = cache[a].queued[k] + 1]
    <3>1. [cache[a].entry[k] EXCEPT !.armed = "no"] = [ver |-> cache[a].entry[k].ver, armed |-> "no"]
      BY <2>3 DEF Entry
    <3>. QED BY <2>2, <3>1, ElapsedCopy
  <2>5. [ver |-> cache[a].entry[k].ver, armed |-> "no"] \in Entry
    BY <2>3 DEF Entry
  <2>. HIDE DEF c
  <2>6. c \in Caches
    <3>1. c.entry \in [Keys -> Entry \cup {Absent}] /\ c.queued \in [Keys -> Nat]
      BY <2>2, <2>3, <2>4, <2>5 DEF Caches
    <3>. QED BY <2>4, <3>1, CacheFields
  <2>7. ASSUME NEW i \in Keys, c.entry[i] # Absent
        PROVE  c.entry[i].ver >= fresh[a][i] /\ (c.entry[i].armed = "yes" \/ c.queued[i] > 0)
    <3>1. cache[a].entry[i] # Absent /\ c.entry[i].ver = cache[a].entry[i].ver
      BY <2>1, <2>2, <2>4, <2>7 DEF Caches
    <3>2. i # k => c.entry[i] = cache[a].entry[i] /\ c.queued[i] = cache[a].queued[i]
      BY <2>2, <2>4 DEF Caches
    <3>3. i = k => c.queued[i] > 0
      BY <2>2, <2>3, <2>4 DEF Caches
    <3>. QED BY <3>1, <3>2, <3>3 DEF SeenInv, LocalChangesSeen, DeviceIsTimed
  <2>. QED BY <1>1, <2>1, <2>6, <2>7, CacheMoves
<1>10. ASSUME NEW a \in Agents, NEW k \in Keys, TimerHandled(a, k) PROVE SeenInv'
  <2>. DEFINE c == ItemTimeout(cache[a], k)
  <2>1. cache' = [cache EXCEPT ![a] = c] /\ UNCHANGED fresh /\ cache[a].queued[k] > 0
    BY <1>10 DEF TimerHandled, CacheOnly
  <2>2. cache[a] \in Caches
    BY DEF SeenInv, Caches
  <2>3. /\ IsRecord(c, {"entry", "queued"})
        /\ c.entry = [cache[a].entry EXCEPT ![k] = Absent]
        /\ c.queued = [cache[a].queued EXCEPT ![k] = cache[a].queued[k] - 1]
    BY <2>2, HandledCopy
  <2>. HIDE DEF c
  <2>4. c \in Caches
    <3>1. c.entry \in [Keys -> Entry \cup {Absent}] /\ c.queued \in [Keys -> Nat]
      BY <2>1, <2>2, <2>3 DEF Caches
    <3>. QED BY <2>3, <3>1, CacheFields
  <2>5. ASSUME NEW i \in Keys, c.entry[i] # Absent
        PROVE  c.entry[i].ver >= fresh[a][i] /\ (c.entry[i].armed = "yes" \/ c.queued[i] > 0)
    <3>1. i # k /\ c.entry[i] = cache[a].entry[i] /\ c.queued[i] = cache[a].queued[i]
      BY <2>2, <2>3, <2>5 DEF Caches
    <3>. QED BY <2>5, <3>1 DEF SeenInv, LocalChangesSeen, DeviceIsTimed
  <2>. QED BY <1>1, <2>1, <2>4, <2>5, CacheMoves
<1>11. CASE UNCHANGED vars
  BY <1>2, <1>11 DEF vars
<1>. QED BY <1>3, <1>4, <1>5, <1>6, <1>7, <1>8, <1>9, <1>10, <1>11 DEF Next

-----------------------------------------------------------------------------
(* Registrations: steps that start none. *)

(* Those under way go on or end. *)
Fewer ==
  /\ \A x \in Actors : Registering(x)' =>
       /\ Registering(x) /\ reg'[x].doc = reg[x].doc
       /\ reg'[x].alone = "yes" => reg[x].alone = "yes"
  /\ \A x \in Actors : pc'[x] = "unregister" => pc[x] = "unregister"
  /\ \A x \in Actors : pc'[x] = "store" => pc[x] = "store" /\ reg'[x].id = reg[x].id
  /\ \A x \in Actors : pc'[x] # "store" => reg'[x].id = NoReg
  /\ \A w \in Workers : Registering(w)' =>
       job'[w].agent = job[w].agent /\ m_sm'[job[w].agent] = w

(* One document may be new, in the place of another one or of none. *)
DocsKept ==
  /\ writes \in Nat /\ writes' \in Nat /\ writes <= writes'
  /\ settled' \subseteq settled
  /\ settled' \subseteq {Key(d) : d \in docs'}
  /\ \A d, e \in docs' \ docs : d = e
  /\ \A d \in docs' \ docs :
       /\ d.ver = writes + 1 /\ Key(d) \notin settled'
       /\ d.reg # NoReg => \E e \in docs \ docs' : e.reg = d.reg

(* What is in force for those that matter stays in force. *)
LiveKept ==
  /\ \A d \in docs : Key(d) \in settled' /\ Registration(d.reg, d) \in live =>
       Registration(d.reg, d) \in live'
  /\ \A x \in Actors : pc'[x] = "store" /\ reg'[x].alone = "yes"
                       /\ Registration(reg[x].id, reg[x].doc) \in live =>
       Registration(reg[x].id, reg[x].doc) \in live'

(* A copy is one of before, or of a document there is. *)
CopiesKept ==
  \A c : IsCopy(c)' => IsCopy(c) \/ (c \in docs /\ UNCHANGED <<docs, writes>>)

LEMMA RegKept ==
  ASSUME DocType, RegInv, RegType', Fewer, DocsKept, LiveKept, CopiesKept
  PROVE  RegInv'
<1>1. AloneInv'
  <2>1. \A w \in Workers : Registering(w)' => m_sm'[job'[w].agent] = w
    BY DEF Fewer
  <2>2. ASSUME NEW x \in Actors, NEW y \in Actors, x # y, Registering(x)', Registering(y)',
               Key(reg'[x].doc) = Key(reg'[y].doc), ~Serialised(x, y)'
        PROVE  reg'[x].alone = "no"
    <3>1. ~Serialised(x, y)
      BY <2>2 DEF Fewer, Serialised
    <3>2. Registering(x) /\ Registering(y) /\ Key(reg[x].doc) = Key(reg[y].doc)
      BY <2>2 DEF Fewer
    <3>3. reg[x].alone = "no"
      BY <2>2, <3>1, <3>2 DEF RegInv, AloneInv
    <3>. QED BY <2>2, <3>3 DEF Fewer, RegType
  <2>3. \A x \in Actors : Registering(x)' => Key(reg'[x].doc) \notin settled'
    BY DEF Fewer, RegInv, AloneInv, DocsKept
  <2>. QED BY <2>1, <2>2, <2>3 DEF AloneInv, Key
<1>2. IdInv'
  <2>1. ASSUME NEW d \in docs', NEW e \in docs', d.reg = e.reg, d.reg # NoReg PROVE d = e
    BY <2>1 DEF DocsKept, RegInv, IdInv
  <2>2. ASSUME NEW d \in docs', Key(d) \in settled', NEW c, IsCopy(c)', c.reg = d.reg,
               d.reg # NoReg
        PROVE  Key(c) = Key(d)
    <3>1. d \in docs /\ Key(d) \in settled
      BY <2>2 DEF DocsKept
    <3>2. CASE IsCopy(c)
      BY <2>2, <3>1, <3>2 DEF RegInv, IdInv
    <3>3. CASE c \in docs
      BY <2>2, <3>1, <3>3 DEF RegInv, IdInv
    <3>. QED BY <2>2, <3>2, <3>3 DEF CopiesKept
  <2>3. ASSUME NEW x \in Actors, pc'[x] = "unregister" PROVE reg'[x].doc.reg # NoReg
    BY <2>3 DEF Fewer, RegInv, IdInv, Registering
  <2>4. ASSUME NEW x \in Actors, pc'[x] = "store"
        PROVE  /\ reg'[x].id # NoReg
               /\ \A d \in docs' : d.reg # reg'[x].id
               /\ \A c : IsCopy(c)' => c.reg # reg'[x].id
               /\ \A y \in Actors \ {x} : reg'[y].id # reg'[x].id
               /\ reg'[x].alone = "yes" => Registration(reg'[x].id, reg'[x].doc) \in live'
    <3>1. /\ pc[x] = "store" /\ reg'[x].id = reg[x].id /\ reg'[x].doc = reg[x].doc
          /\ reg'[x].alone = "yes" => reg[x].alone = "yes"
      BY <2>4 DEF Fewer, Registering
    <3>2. /\ reg[x].id # NoReg
          /\ \A d \in docs : d.reg # reg[x].id
          /\ \A c : IsCopy(c) => c.reg # reg[x].id
          /\ \A y \in Actors \ {x} : reg[y].id # reg[x].id
          /\ reg[x].alone = "yes" => Registration(reg[x].id, reg[x].doc) \in live
      BY <3>1 DEF RegInv, IdInv
    <3>3. \A d \in docs' : d.reg # reg'[x].id
      BY <3>1, <3>2 DEF DocsKept
    <3>4. \A c : IsCopy(c)' => c.reg # reg'[x].id
      BY <3>1, <3>2 DEF CopiesKept
    <3>5. \A y \in Actors \ {x} : reg'[y].id # reg'[x].id
      BY <3>1, <3>2 DEF Fewer
    <3>6. reg'[x].alone = "yes" => Registration(reg'[x].id, reg'[x].doc) \in live'
      BY <2>4, <3>1, <3>2 DEF LiveKept
    <3>. QED BY <3>1, <3>2, <3>3, <3>4, <3>5, <3>6
  <2>5. \A x \in Actors : pc'[x] # "store" => reg'[x].id = NoReg
    BY DEF Fewer
  <2>. QED BY <2>1, <2>2, <2>3, <2>4, <2>5 DEF IdInv, Key, Registration
<1>3. CopyInv'
  <2>. SUFFICES ASSUME NEW c, IsCopy(c)'
                PROVE  /\ c.ver \in 0..writes'
                       /\ \A d \in docs' : Key(c) = Key(d) /\ c.ver = d.ver =>
                            c.entity_name = d.entity_name /\ c.commands = d.commands
    BY DEF CopyInv, Key
  <2>1. CASE IsCopy(c)
    <3>1. /\ c.ver \in 0..writes
          /\ \A d \in docs : Key(c) = Key(d) /\ c.ver = d.ver =>
               c.entity_name = d.entity_name /\ c.commands = d.commands
      BY <2>1 DEF RegInv, CopyInv
    <3>. QED BY <3>1 DEF DocsKept
  <2>2. CASE c \in docs /\ UNCHANGED <<docs, writes>>
    BY <2>2 DEF DocType
  <2>. QED BY <2>1, <2>2 DEF CopiesKept
<1>4. SettledInv'
  <2>1. \A d \in docs' : Key(d) \in settled' => d \in docs /\ Key(d) \in settled
    BY DEF DocsKept
  <2>2. \A d \in docs : Key(d) \in settled /\ d.commands # {} => Registration(d.reg, d) \in live
    BY DEF RegInv, SettledInv, SettledIsRegistered, At
  <2>3. \A d \in docs' : Key(d) \in settled' /\ d.commands # {} => Registration(d.reg, d) \in live'
    BY <2>1, <2>2 DEF LiveKept
  <2>. QED BY <2>3 DEF SettledInv, SettledIsRegistered, At, DocsKept, Key, Registration
<1>. QED BY <1>1, <1>2, <1>3, <1>4 DEF RegInv

(* A step of a thread that registers nothing. *)
LEMMA AsideOf ==
  ASSUME WorkType, RegInv, NEW x \in Actors, OnlyOf(x), pc[x] \notin RegPlaces,
         pc'[x] \notin RegPlaces, UNCHANGED <<reg, m_sm>>
  PROVE  Fewer
<1>1. \A y \in Actors : Registering(y)' => y # x /\ Registering(y) /\ pc'[y] = pc[y] /\ job'[y] = job[y]
  BY DEF OnlyOf, Registering, RegPlaces
<1>2. \A y \in Actors : pc'[y] \in RegPlaces => pc'[y] = pc[y]
  BY DEF OnlyOf
<1>3. \A y \in Actors : pc'[y] # "store" => pc[y] # "store"
  BY DEF OnlyOf, RegPlaces
<1>4. \A w \in Workers : Registering(w)' => job'[w].agent = job[w].agent /\ m_sm'[job[w].agent] = w
  BY <1>1 DEF RegInv, AloneInv, Actors
<1>. QED BY <1>1, <1>2, <1>3, <1>4 DEF Fewer, RegPlaces, RegInv, IdInv

LEMMA CopiesAside ==
  ASSUME WorkType, NEW x \in Actors, OnlyOf(x), pc'[x] \notin RegPlaces, UNCHANGED reg,
         \/ x \in Workers
         \/ pc'[x] = "idle"
         \/ pc[x] # "idle" /\ job'[x] = job[x]
  PROVE  CopiesKept
<1>. SUFFICES ASSUME NEW c, IsCopy(c)' PROVE IsCopy(c)
  BY DEF CopiesKept
<1>1. CASE \E y \in Actors : Registering(y)' /\ c = reg'[y].doc
  BY <1>1 DEF OnlyOf, Registering, RegPlaces, IsCopy
<1>2. CASE \E a \in Renewing : pc'[a] # "idle" /\ c \in job'[a].todo
  BY <1>2, ActorsApart DEF OnlyOf, IsCopy, Actors
<1>. QED BY <1>1, <1>2 DEF IsCopy

LEMMA RegTypeKept ==
  ASSUME RegInv, UNCHANGED <<reg, m_sm>>
  PROVE  RegType'
  BY DEF RegInv, RegType

(* ... and changes no document. *)
LEMMA RegAside ==
  ASSUME WorkType, DocType, RegInv, NEW x \in Actors, OnlyOf(x), pc[x] \notin RegPlaces,
         pc'[x] \notin RegPlaces, UNCHANGED <<docs, writes, live, reg, settled, m_sm>>,
         \/ x \in Workers
         \/ pc'[x] = "idle"
         \/ pc[x] # "idle" /\ job'[x] = job[x]
  PROVE  RegInv'
<1>1. Fewer
  BY AsideOf
<1>2. DocsKept /\ LiveKept
  BY DEF DocsKept, LiveKept, DocType, RegInv, SettledInv
<1>3. CopiesKept
  BY CopiesAside
<1>. QED BY <1>1, <1>2, <1>3, RegKept, RegTypeKept

LEMMA RegOfRequests ==
  ASSUME WorkType, DocType, RegInv, NEW w \in Workers, Request(w)
  PROVE  RegInv'
<1>1. OnlyOf(w) /\ w \in Actors
  BY OneMoves DEF Actors
<1>2. pc[w] = "idle" /\ UNCHANGED <<docs, writes, live, reg, settled, m_sm>>
  BY DEF Request, PostDevice, PutDevice, DeleteDevice, PostService, PutService,
         DeleteService, Accept, database, broker
<1>3. ASSUME \/ \E c : Answer(w, c)
             \/ \E q \in {"protocol", "duplicate", "remove", "rmservice"} : Goto(w, q)
      PROVE  RegInv'
  <2>1. pc'[w] \notin RegPlaces
    BY <1>1, <1>3 DEF Answer, Goto, WorkType, RegPlaces
  <2>. QED BY <1>1, <1>2, <2>1, RegAside DEF RegPlaces
<1>4. ASSUME NEW a, NEW p, NEW body, PostDevice(w, a, p, body) PROVE RegInv'
  BY <1>3, <1>4 DEF PostDevice
<1>5. ASSUME NEW a, NEW k, NEW body, PutDevice(w, a, k, body) PROVE RegInv'
  BY <1>3, <1>5 DEF PutDevice
<1>6. ASSUME NEW a, NEW k, DeleteDevice(w, a, k) PROVE RegInv'
  BY <1>3, <1>6 DEF DeleteDevice
<1>7. ASSUME NEW a, NEW s, PostService(w, a, s) PROVE RegInv'
  BY <1>3, <1>7 DEF PostService
<1>8. ASSUME NEW a, NEW s, NEW t, PutService(w, a, s, t) PROVE RegInv'
  BY <1>3, <1>8 DEF PutService
<1>9. ASSUME NEW a, NEW s, NEW rm, DeleteService(w, a, s, rm) PROVE RegInv'
  BY <1>3, <1>9 DEF DeleteService
<1>. QED BY <1>4, <1>5, <1>6, <1>7, <1>8, <1>9 DEF Request

(* A worker that writes documents, or none, and has no registration. *)
LEMMA DocsAside ==
  ASSUME WorkType, DocType, RegInv, NEW w \in Workers, OnlyOf(w), pc[w] \notin RegPlaces,
         pc'[w] \notin RegPlaces, UNCHANGED <<live, reg, m_sm>>, DocsKept
  PROVE  RegInv'
<1>1. Fewer /\ CopiesKept
  BY AsideOf, CopiesAside DEF Actors
<1>2. LiveKept
  BY DEF LiveKept
<1>. QED BY <1>1, <1>2, RegKept, RegTypeKept

LEMMA InsertKept ==
  ASSUME DocType, RegInv, NEW w \in Workers, InsertDoc(w), docs' # docs
  PROVE  DocsKept
<1>1. PICK doc : /\ doc.ver = writes + 1 /\ doc.reg = NoReg
                 /\ docs' = docs \cup {doc} /\ writes' = writes + 1
                 /\ \A d \in docs : Key(d) # Key(doc)
  BY InsertedDoc
<1>2. settled' = settled /\ settled \subseteq {Key(d) : d \in docs}
  BY DEF InsertDoc, RegInv, SettledInv
<1>. QED BY <1>1, <1>2 DEF DocsKept, DocType

LEMMA UpdateKept ==
  ASSUME WorkType, DocType, RegInv, NEW w \in Workers, UpdateDoc(w),
         <<docs, writes, settled>>' # <<docs, writes, settled>>
  PROVE  DocsKept
<1>1. PICK old, new :
           /\ old \in docs
           /\ Key(old) = job[w].key
           /\ new.ver = writes + 1 /\ new.reg = old.reg
           /\ docs' = (docs \ {old}) \cup {new} /\ writes' = writes + 1
           /\ settled' = settled \ {job[w].key, Key(new)}
  BY UpdatedDoc
<1>2. \A d \in docs : d.ver \in 0..writes
  BY DEF DocType
<1>3. writes \in Nat /\ new \notin docs
  BY <1>1, <1>2 DEF DocType
<1>4. settled' \subseteq {Key(d) : d \in docs'}
  <2>1. ASSUME NEW k \in settled' PROVE k \in {Key(d) : d \in docs'}
    <3>1. PICK d \in docs : k = Key(d)
      BY <1>1, <2>1 DEF RegInv, SettledInv
    <3>. QED BY <1>1, <3>1
  <2>. QED BY <2>1
<1>. QED BY <1>1, <1>3, <1>4 DEF DocsKept

LEMMA RegOfWorkers ==
  ASSUME WorkType, DocType, RegInv, NEW w \in Workers, WorkerStep(w), ~DeployDevice(w)
  PROVE  RegInv'
<1>1. OnlyOf(w) /\ w \in Actors
  BY OneMoves DEF Actors
<1>2. pc[w] \notin RegPlaces
  BY DEF WorkerStep, CheckProtocol, CheckDuplicate, InsertDoc, UpdateDoc, FindUpdated, RemoveDoc,
         RemoveFromCache, RemoveServices, RemoveDevices, RegPlaces
<1>3. ASSUME \/ \E c : Answer(w, c)
             \/ \E q \in Places \ RegPlaces : Goto(w, q)
      PROVE  pc'[w] \notin RegPlaces
  BY <1>1, <1>3 DEF Answer, Goto, WorkType, RegPlaces
<1>4. pc'[w] \notin RegPlaces
  <2>1. CASE CheckProtocol(w) \/ CheckDuplicate(w)
    BY <1>3, <2>1 DEF CheckProtocol, CheckDuplicate, Places, RegPlaces
  <2>2. CASE InsertDoc(w)
    BY <1>3, <2>2 DEF InsertDoc, Places, RegPlaces
  <2>3. CASE UpdateDoc(w)
    BY <1>3, <2>3 DEF UpdateDoc, Places, RegPlaces
  <2>4. CASE FindUpdated(w) \/ RemoveDoc(w)
    BY <1>3, <2>4 DEF FindUpdated, RemoveDoc, Places, RegPlaces
  <2>5. CASE RemoveFromCache(w) \/ RemoveServices(w) \/ RemoveDevices(w)
    BY <1>3, <2>5 DEF RemoveFromCache, RemoveServices, RemoveDevices, Places, RegPlaces
  <2>. QED BY <2>1, <2>2, <2>3, <2>4, <2>5 DEF WorkerStep
<1>5. ASSUME UNCHANGED <<docs, writes, settled, live, reg, m_sm>> PROVE RegInv'
  BY <1>1, <1>2, <1>4, <1>5, RegAside
<1>6. ASSUME DocsKept, UNCHANGED <<live, reg, m_sm>> PROVE RegInv'
  BY <1>1, <1>2, <1>4, <1>6, DocsAside
<1>7. CASE CheckProtocol(w) \/ CheckDuplicate(w) \/ FindUpdated(w) \/ RemoveFromCache(w)
           \/ RemoveServices(w)
  BY <1>5, <1>7 DEF CheckProtocol, CheckDuplicate, FindUpdated, RemoveFromCache, RemoveServices,
                    database, broker
<1>8. CASE InsertDoc(w)
  <2>1. UNCHANGED <<live, reg, settled, m_sm>>
    BY <1>8 DEF InsertDoc
  <2>2. CASE docs' # docs
    BY <1>6, <1>8, <2>1, <2>2, InsertKept
  <2>3. CASE docs' = docs
    <3>1. DocsGrow
      <4>1. [Next]_vars
        BY <1>8 DEF Next, WorkerStep
      <4>. QED BY <4>1, DocStep
    <3>2. DocsKept
      BY <2>1, <2>3, <3>1 DEF DocsKept, DocsGrow, VersionsGrow, DocType, RegInv, SettledInv
    <3>. QED BY <1>6, <2>1, <3>2
  <2>. QED BY <2>2, <2>3
<1>9. CASE UpdateDoc(w)
  <2>1. UNCHANGED <<live, reg, m_sm>>
    BY <1>9 DEF UpdateDoc
  <2>2. CASE UNCHANGED <<docs, writes, settled>>
    BY <1>5, <2>1, <2>2
  <2>3. CASE ~ UNCHANGED <<docs, writes, settled>>
    BY <1>6, <1>9, <2>1, <2>3, UpdateKept
  <2>. QED BY <2>2, <2>3
<1>10. CASE RemoveDoc(w)
  <2>1. /\ UNCHANGED <<live, reg, m_sm>> /\ writes' = writes + 1
        /\ docs' = {d \in docs : Key(d) # job[w].key} /\ settled' = settled \ {job[w].key}
    BY <1>10 DEF RemoveDoc, At
  <2>2. DocsKept
    BY <2>1 DEF DocsKept, DocType, RegInv, SettledInv
  <2>. QED BY <1>6, <2>1, <2>2
<1>11. CASE RemoveDevices(w)
  <2>1. /\ UNCHANGED <<live, reg, m_sm>> /\ writes' = writes + 1
        /\ docs' = {d \in docs : d.path # job[w].path}
        /\ settled' = {k \in settled : k[2] # job[w].path}
    BY <1>11 DEF RemoveDevices
  <2>2. \A d \in docs : Key(d)[2] = d.path
    BY DEF Key
  <2>3. settled' \subseteq {Key(d) : d \in docs'}
    BY <2>1, <2>2 DEF RegInv, SettledInv
  <2>4. DocsKept
    BY <2>1, <2>3 DEF DocsKept, DocType
  <2>. QED BY <1>6, <2>1, <2>4
<1>. QED BY <1>7, <1>8, <1>9, <1>10, <1>11 DEF WorkerStep

(* make_registrations() reads the devices. *)
LEMMA RegOfRenewAll ==
  ASSUME WorkType, DocType, RegInv, NEW a \in Renewing, RenewAll(a)
  PROVE  RegInv'
<1>1. OnlyOf(a) /\ a \in Actors
  BY OneMoves DEF Actors
<1>2. pc[a] = "idle" /\ pc'[a] = "next" /\ UNCHANGED <<docs, writes, live, reg, settled, m_sm>>
  BY <1>1 DEF RenewAll, Goto, WorkType, database, broker
<1>3. job'[a].todo \subseteq docs
  BY <1>1 DEF RenewAll, WorkType, IsRecord
<1>4. Fewer
  BY <1>1, <1>2, AsideOf DEF RegPlaces
<1>5. DocsKept /\ LiveKept
  BY <1>2 DEF DocsKept, LiveKept, DocType, RegInv, SettledInv
<1>6. CopiesKept
  <2>. SUFFICES ASSUME NEW c, IsCopy(c)' PROVE IsCopy(c) \/ c \in docs
    BY <1>2 DEF CopiesKept
  <2>1. CASE \E y \in Actors : Registering(y)' /\ c = reg'[y].doc
    BY <1>1, <1>2, <2>1 DEF OnlyOf, Registering, IsCopy
  <2>2. CASE \E b \in Renewing : pc'[b] # "idle" /\ c \in job'[b].todo
    BY <1>1, <1>3, <2>2 DEF OnlyOf, IsCopy, Actors
  <2>. QED BY <2>1, <2>2 DEF IsCopy
<1>. QED BY <1>2, <1>4, <1>5, <1>6, RegKept, RegTypeKept

-----------------------------------------------------------------------------
(* The steps of a registration. *)

(* d is a document, or a copy read before. *)
LEMMA BeginsOne ==
  ASSUME WorkType, DocType, RegInv, NEW x \in Actors, OnlyOf(x), pc[x] \notin RegPlaces,
         NEW d, Begin(x, d), d \in docs \/ IsCopy(d), UNCHANGED <<docs, writes, live>>,
         IsRecord(m_sm, Agents)', job'[x].agent = job[x].agent,
         x \in Workers => m_sm[job[x].agent] = Nobody /\ m_sm'[job[x].agent] = x,
         \A w \in Workers : w # x /\ Registering(w) /\ m_sm[job[w].agent] = w =>
           m_sm'[job[w].agent] = w,
         x \in Renewing => job'[x].todo \subseteq job[x].todo /\ pc[x] # "idle"
  PROVE  RegInv'
<1>. DEFINE others == Overlap(x, Key(d))
<1>1. /\ pc'[x] = (IF d.reg # NoReg THEN "unregister" ELSE "register")
      /\ settled' = settled \ {Key(d)}
      /\ reg' = [y \in Actors |->
                  IF y = x THEN [doc |-> d, id |-> NoReg,
                                 alone |-> IF others = {} THEN "yes" ELSE "no"]
                  ELSE IF y \in others THEN [reg[y] EXCEPT !.alone = "no"] ELSE reg[y]]
  BY DEF Begin, Goto, WorkType
<1>2. Registering(x)' /\ \A y \in Actors \ {x} : Registering(y)' = Registering(y)
  BY <1>1 DEF Registering, OnlyOf
<1>3. /\ reg'[x].doc = d /\ reg'[x].id = NoReg
      /\ reg'[x].alone = IF others = {} THEN "yes" ELSE "no"
      /\ IsRecord(reg'[x], {"doc", "id", "alone"})
  BY <1>1 DEF IsRecord
<1>4. \A y \in Actors \ {x} :
        /\ IsRecord(reg'[y], {"doc", "id", "alone"})
        /\ reg'[y].doc = reg[y].doc /\ reg'[y].id = reg[y].id
        /\ reg'[y].alone = IF y \in others THEN "no" ELSE reg[y].alone
  BY <1>1 DEF RegInv, RegType, IsRecord
<1>5. \A y \in others : y \in Actors \ {x}
  BY DEF Overlap
<1>6. \A w \in Workers : Registering(w) => m_sm[job[w].agent] = w
  BY DEF RegInv, AloneInv
<1>7. \A w \in Workers : job'[w].agent = job[w].agent
  BY DEF OnlyOf, Actors
<1>8. RegType'
  <2>1. IsRecord(reg, Actors)'
    BY <1>1 DEF IsRecord
  <2>2. \A y \in Actors : IsRecord(reg'[y], {"doc", "id", "alone"}) /\ reg'[y].alone \in {"yes", "no"}
    BY <1>3, <1>4 DEF RegInv, RegType
  <2>. QED BY <2>1, <2>2 DEF RegType, IsRecord
<1>9. AloneInv'
  <2>1. ASSUME NEW w \in Workers, Registering(w)' PROVE m_sm'[job'[w].agent] = w
    BY <1>2, <1>6, <1>7, <2>1 DEF Actors
  <2>2. ASSUME NEW y \in Actors \ {x}, Registering(y), Key(reg[y].doc) = Key(d),
               ~Serialised(x, y)
        PROVE  y \in others
    BY <2>2 DEF Overlap, Serialised
  <2>3. ASSUME NEW y \in Actors, NEW z \in Actors, y # z, Registering(y)', Registering(z)',
               Key(reg'[y].doc) = Key(reg'[z].doc), ~Serialised(y, z)'
        PROVE  reg'[y].alone = "no"
    <3>1. ~Serialised(y, z) /\ ~Serialised(z, y)
      BY <1>7, <2>3 DEF Serialised
    <3>2. CASE y = x
      <4>1. z \in others
        BY <1>2, <1>3, <1>4, <2>2, <2>3, <3>1, <3>2
      <4>. QED BY <1>3, <3>2, <4>1
    <3>3. CASE z = x
      <4>1. y \in others
        BY <1>2, <1>3, <1>4, <2>2, <2>3, <3>1, <3>3
      <4>. QED BY <1>4, <1>5, <4>1
    <3>4. CASE y # x /\ z # x
      <4>1. reg[y].alone = "no"
        BY <1>2, <1>4, <2>3, <3>1, <3>4 DEF RegInv, AloneInv
      <4>. QED BY <1>4, <3>4, <4>1
    <3>. QED BY <3>2, <3>3, <3>4
  <2>4. ASSUME NEW y \in Actors, Registering(y)' PROVE Key(reg'[y].doc) \notin settled'
    BY <1>1, <1>2, <1>3, <1>4, <2>4 DEF RegInv, AloneInv
  <2>. QED BY <2>1, <2>3, <2>4 DEF AloneInv, Key
<1>10. \A c : IsCopy(c)' => IsCopy(c) \/ c = d
  <2>. SUFFICES ASSUME NEW c, IsCopy(c)' PROVE IsCopy(c) \/ c = d
    OBVIOUS
  <2>1. CASE \E y \in Actors : Registering(y)' /\ c = reg'[y].doc
    BY <1>2, <1>3, <1>4, <2>1 DEF IsCopy
  <2>2. CASE \E a \in Renewing : pc'[a] # "idle" /\ c \in job'[a].todo
    BY <2>2 DEF IsCopy, OnlyOf, Actors
  <2>. QED BY <2>1, <2>2 DEF IsCopy
<1>11. IdInv'
  <2>1. \A c, e \in docs : c.reg = e.reg /\ c.reg # NoReg => c = e
    BY DEF RegInv, IdInv
  <2>2. ASSUME NEW e \in docs, Key(e) \in settled', NEW c, IsCopy(c)', c.reg = e.reg, e.reg # NoReg
        PROVE  Key(c) = Key(e)
    <3>1. CASE IsCopy(c)
      BY <1>1, <2>2, <3>1 DEF RegInv, IdInv
    <3>2. CASE c \in docs
      BY <2>1, <2>2, <3>2
    <3>. QED BY <1>10, <2>2, <3>1, <3>2
  <2>3. ASSUME NEW y \in Actors, pc'[y] = "unregister" PROVE reg'[y].doc.reg # NoReg
    BY <1>1, <1>3, <1>4, <2>3 DEF RegInv, IdInv, OnlyOf
  <2>4. ASSUME NEW y \in Actors, pc'[y] # "store" PROVE reg'[y].id = NoReg
    BY <1>3, <1>4, <2>4 DEF RegInv, IdInv, OnlyOf
  <2>5. ASSUME NEW y \in Actors, pc'[y] = "store"
        PROVE  /\ reg'[y].id # NoReg
               /\ \A e \in docs : e.reg # reg'[y].id
               /\ \A c : IsCopy(c)' => c.reg # reg'[y].id
               /\ \A z \in Actors \ {y} : reg'[z].id # reg'[y].id
               /\ reg'[y].alone = "yes" => Registration(reg'[y].id, reg'[y].doc) \in live
    <3>1. y # x /\ pc[y] = "store"
      BY <1>1, <2>5 DEF OnlyOf
    <3>2. /\ reg[y].id # NoReg
          /\ \A e \in docs : e.reg # reg[y].id
          /\ \A c : IsCopy(c) => c.reg # reg[y].id
          /\ \A z \in Actors \ {y} : reg[z].id # reg[y].id
          /\ reg[y].alone = "yes" => Registration(reg[y].id, reg[y].doc) \in live
      BY <3>1 DEF RegInv, IdInv
    <3>3. reg'[y].id = reg[y].id /\ reg'[y].doc = reg[y].doc
          /\ (reg'[y].alone = "yes" => reg[y].alone = "yes")
      BY <1>4, <3>1
    <3>4. \A z \in Actors \ {y} : reg'[z].id # reg'[y].id
      BY <1>3, <1>4, <3>2, <3>3
    <3>5. \A c : IsCopy(c)' => c.reg # reg'[y].id
      BY <1>10, <3>2, <3>3
    <3>. QED BY <3>2, <3>3, <3>4, <3>5
  <2>. QED BY <2>1, <2>2, <2>3, <2>4, <2>5 DEF IdInv, Key, Registration
<1>12. CopyInv'
  <2>. SUFFICES ASSUME NEW c, IsCopy(c)'
                PROVE  /\ c.ver \in 0..writes
                       /\ \A e \in docs : Key(c) = Key(e) /\ c.ver = e.ver =>
                            c.entity_name = e.entity_name /\ c.commands = e.commands
    BY DEF CopyInv, Key
  <2>1. CASE IsCopy(c)
    BY <2>1 DEF RegInv, CopyInv
  <2>2. CASE c \in docs
    BY <2>2 DEF DocType
  <2>. QED BY <1>10, <2>1, <2>2
<1>13. SettledInv'
  BY <1>1 DEF RegInv, SettledInv, SettledIsRegistered, At, Key, Registration
<1>. QED BY <1>8, <1>9, <1>11, <1>12, <1>13 DEF RegInv

LEMMA RegOfDeploy ==
  ASSUME WorkType, DocType, RegInv, NEW w \in Workers, DeployDevice(w)
  PROVE  RegInv'
<1>1. OnlyOf(w) /\ w \in Actors /\ pc[w] = "deploy" /\ JobOK(w)
  BY OneMoves DEF Actors, WorkerStep, DeployDevice, WorkType
<1>. DEFINE found == {d \in At(job[w].key) : /\ d.protocol = job[w].protocol
                                             /\ HasPlugin(job[w].agent, d.protocol, d.path)
                                             /\ d.commands # {}}
<1>2. CASE found = {}
  <2>1. Deployed(w) /\ UNCHANGED <<docs, writes, live, reg, settled, m_sm>>
    BY <1>2 DEF DeployDevice, database
  <2>2. pc'[w] \notin RegPlaces
    BY <1>1, <2>1 DEF Deployed, Answer, Goto, WorkType, RegPlaces
  <2>. QED BY <1>1, <2>1, <2>2, RegAside DEF RegPlaces
<1>3. CASE found # {}
  <2>. DEFINE d == CHOOSE d \in found : TRUE
  <2>1. /\ Begin(w, d) /\ m_sm[job[w].agent] = Nobody
        /\ m_sm' = [m_sm EXCEPT ![job[w].agent] = w]
        /\ UNCHANGED <<docs, writes, live, job>>
    BY <1>3 DEF DeployDevice, database
  <2>2. d \in docs
    BY <1>3 DEF At
  <2>. HIDE DEF d
  <2>3. job[w].agent \in Agents
    BY <1>1 DEF JobOK
  <2>4. /\ IsRecord(m_sm, Agents)' /\ m_sm'[job[w].agent] = w
        /\ \A v \in Workers : v # w /\ m_sm[job[v].agent] = v => m_sm'[job[v].agent] = v
    BY <2>1, <2>3, ProvisioningAssumption DEF RegInv, RegType, IsRecord
  <2>5. w \notin Renewing
    BY ActorsApart
  <2>. QED BY <1>1, <2>1, <2>2, <2>4, <2>5, BeginsOne DEF RegPlaces
<1>. QED BY <1>2, <1>3

LEMMA RegOfRenewNext ==
  ASSUME WorkType, DocType, RegInv, NEW a \in Renewing, RenewNext(a)
  PROVE  RegInv'
<1>1. OnlyOf(a) /\ a \in Actors /\ pc[a] = "next" /\ a \notin Workers
  BY OneMoves, ActorsApart DEF Actors, RenewNext
<1>2. PICK d \in job[a].todo :
        job' = [job EXCEPT ![a] = [job[a] EXCEPT !.todo = job[a].todo \ {d}]] /\ Begin(a, d)
  BY DEF RenewNext
<1>3. job'[a].todo \subseteq job[a].todo /\ job'[a].agent = job[a].agent
  <2>1. job'[a] = [job[a] EXCEPT !.todo = job[a].todo \ {d}] /\ IsRecord(job[a], RenewFields)
    BY <1>1, <1>2 DEF WorkType, IsRecord
  <2>. QED BY <2>1 DEF IsRecord, RenewFields
<1>4. IsCopy(d)
  BY <1>1, <1>2 DEF IsCopy
<1>5. UNCHANGED <<docs, writes, live, m_sm>> /\ IsRecord(m_sm, Agents)'
  BY DEF RenewNext, database, RegInv, RegType, IsRecord
<1>. QED BY <1>1, <1>2, <1>3, <1>4, <1>5, BeginsOne DEF RegPlaces

(* A registration ends; the mutex is left to the next worker. *)
LEMMA EndsOne ==
  ASSUME WorkType, RegInv, NEW x \in Actors, OnlyOf(x), pc[x] \in RegPlaces,
         NEW stop \in BOOLEAN, Registered(x, stop), Release(x),
         reg' = [reg EXCEPT ![x] = NoRegistration]
  PROVE  Fewer /\ CopiesKept /\ RegType' /\ pc'[x] \notin RegPlaces
<1>1. pc'[x] \notin RegPlaces
  BY DEF Registered, Deployed, Answer, Goto, WorkType, RegPlaces
<1>2. /\ reg'[x] = NoRegistration /\ IsRecord(reg, Actors)'
      /\ \A y \in Actors \ {x} : reg'[y] = reg[y]
  BY DEF RegInv, RegType, IsRecord
<1>3. RegType'
  <2>1. IsRecord(NoRegistration, {"doc", "id", "alone"}) /\ NoRegistration.alone = "yes"
    BY DEF IsRecord, NoRegistration
  <2>2. IsRecord(m_sm, Agents)'
    BY DEF Release, RegInv, RegType, IsRecord
  <2>3. \A y \in Actors : IsRecord(reg'[y], {"doc", "id", "alone"}) /\ reg'[y].alone \in {"yes", "no"}
    BY <1>2, <2>1 DEF RegInv, RegType
  <2>. QED BY <1>2, <2>2, <2>3 DEF RegType, IsRecord
<1>4. \A y \in Actors : pc'[y] \in RegPlaces =>
        y # x /\ pc'[y] = pc[y] /\ job'[y] = job[y] /\ reg'[y] = reg[y]
  BY <1>1, <1>2 DEF OnlyOf
<1>5. ASSUME NEW w \in Workers, Registering(w)'
      PROVE  job'[w].agent = job[w].agent /\ m_sm'[job[w].agent] = w
  <2>1. w # x /\ Registering(w) /\ job'[w] = job[w]
    BY <1>4, <1>5 DEF Registering, RegPlaces, Actors
  <2>2. m_sm[job[w].agent] = w
    BY <2>1 DEF RegInv, AloneInv
  <2>3. CASE x \in Workers
    <3>1. m_sm[job[x].agent] = x
      BY <2>3 DEF RegInv, AloneInv, Registering, RegPlaces
    <3>2. job[w].agent # job[x].agent /\ job[w].agent \in Agents
      BY <2>1, <2>2, <3>1 DEF WorkType, JobOK, Registering
    <3>. QED BY <2>1, <2>2, <2>3, <3>2 DEF Release, RegInv, RegType, IsRecord
  <2>4. CASE x \notin Workers
    BY <2>1, <2>2, <2>4 DEF Release
  <2>. QED BY <2>3, <2>4
<1>6. Fewer
  <2>1. \A y \in Actors : pc'[y] # "store" => reg'[y].id = NoReg
    <3>1. NoRegistration.id = NoReg
      BY DEF NoRegistration
    <3>. QED BY <1>2, <3>1 DEF OnlyOf, RegInv, IdInv
  <2>. QED BY <1>4, <1>5, <2>1 DEF Fewer, Registering, RegPlaces
<1>7. CopiesKept
  <2>. SUFFICES ASSUME NEW c, IsCopy(c)' PROVE IsCopy(c)
    BY DEF CopiesKept
  <2>1. CASE \E y \in Actors : Registering(y)' /\ c = reg'[y].doc
    BY <1>4, <2>1 DEF Registering, RegPlaces, IsCopy
  <2>2. CASE \E a \in Renewing : pc'[a] # "idle" /\ c \in job'[a].todo
    <3>1. PICK a \in Renewing : pc'[a] # "idle" /\ c \in job'[a].todo
      BY <2>2
    <3>2. CASE a # x
      BY <3>1, <3>2 DEF OnlyOf, IsCopy, Actors
    <3>3. CASE a = x
      <4>1. x \notin Workers
        BY <3>3, ActorsApart
      <4>2. pc'[x] = "idle" \/ job' = job
        BY <4>1 DEF Registered, Goto, WorkType
      <4>. QED BY <3>1, <3>3, <4>2 DEF IsCopy, RegPlaces
    <3>. QED BY <3>2, <3>3
  <2>. QED BY <2>1, <2>2 DEF IsCopy
<1>. QED BY <1>1, <1>3, <1>6, <1>7

LEMMA DocsStill ==
  ASSUME DocType, RegInv, UNCHANGED <<docs, writes>>, settled' \subseteq settled
  PROVE  DocsKept
  BY DEF DocsKept, DocType, RegInv, SettledInv

LEMMA RegOfUnregister ==
  ASSUME WorkType, DocType, RegInv, NEW x \in Actors, Unregister(x)
  PROVE  RegInv'
<1>1. /\ pc[x] = "unregister" /\ pc'[x] = "register"
      /\ \A y \in Actors \ {x} : pc'[y] = pc[y]
      /\ UNCHANGED <<docs, writes, m_sm, job, reg, settled>>
      /\ live' \subseteq live
      /\ \A r \in live : r.id # reg[x].doc.reg => r \in live'
  BY DEF Unregister, Goto, WorkType, database
<1>2. \A y \in Actors : Registering(y)' = Registering(y) /\ (pc'[y] = "store") = (pc[y] = "store")
  BY <1>1 DEF Registering
<1>3. Fewer
  <2>1. \A y \in Actors : pc'[y] = "unregister" => pc[y] = "unregister"
    BY <1>1
  <2>2. \A w \in Workers : Registering(w)' => job'[w].agent = job[w].agent /\ m_sm'[job[w].agent] = w
    BY <1>1, <1>2 DEF RegInv, AloneInv, Actors
  <2>. QED BY <1>1, <1>2, <2>1, <2>2 DEF Fewer, RegInv, IdInv
<1>4. CopiesKept
  <2>1. \A a \in Renewing : pc'[a] # "idle" => pc[a] # "idle"
    BY <1>1 DEF Actors
  <2>. QED BY <1>1, <1>2, <2>1 DEF CopiesKept, IsCopy
<1>5. IsCopy(reg[x].doc) /\ reg[x].doc.reg # NoReg /\ Key(reg[x].doc) \notin settled
  BY <1>1 DEF IsCopy, Registering, RegInv, IdInv, AloneInv
<1>6. LiveKept
  <2>1. ASSUME NEW d \in docs, Key(d) \in settled, Registration(d.reg, d) \in live
        PROVE  Registration(d.reg, d) \in live'
    <3>1. d.reg # reg[x].doc.reg
      BY <1>5, <2>1 DEF RegInv, IdInv
    <3>. QED BY <1>1, <2>1, <3>1 DEF Registration
  <2>2. ASSUME NEW y \in Actors, pc[y] = "store", Registration(reg[y].id, reg[y].doc) \in live
        PROVE  Registration(reg[y].id, reg[y].doc) \in live'
    <3>1. reg[x].doc.reg # reg[y].id
      BY <1>5, <2>2 DEF RegInv, IdInv
    <3>. QED BY <1>1, <2>2, <3>1 DEF Registration
  <2>. QED BY <1>1, <1>2, <2>1, <2>2 DEF LiveKept
<1>7. DocsKept
  BY <1>1, DocsStill
<1>. QED BY <1>1, <1>3, <1>4, <1>6, <1>7, RegKept, RegTypeKept

(* What is in force under an id someone knows stays in force. *)
LEMMA KnownKept ==
  ASSUME NEW i, NEW d, i \in KnownIds, Registration(i, d) \in live, NEW new, NEW old,
         old = {IF r.id \in KnownIds THEN r ELSE [r EXCEPT !.id = NoReg] : r \in live}
  PROVE  Registration(i, d) \in old \cup {new}
<1>1. Registration(i, d).id = i
  BY DEF Registration
<1>. QED BY <1>1

LEMMA RegOfRegister ==
  ASSUME WorkType, DocType, RegInv, NEW x \in Actors, Register(x)
  PROVE  RegInv'
<1>. DEFINE i == CHOOSE j \in FreeIds : TRUE
            new == Registration(i, reg[x].doc)
            old == {IF r.id \in KnownIds THEN r ELSE [r EXCEPT !.id = NoReg] : r \in live}
<1>1. i \in FreeIds
  BY DEF Register
<1>2. /\ pc[x] = "register" /\ UNCHANGED <<docs, writes, settled>>
      /\ \/ /\ live' = old \cup {new}
            /\ reg' = [reg EXCEPT ![x].id = new.id]
            /\ Goto(x, "store")
            /\ UNCHANGED <<job, m_sm>>
         \/ /\ live' \in {live, old \cup {new}}
            /\ reg' = [reg EXCEPT ![x] = NoRegistration]
            /\ Release(x)
            /\ Registered(x, TRUE)
  BY DEF Register, database
<1>3. OnlyOf(x)
  BY OneMoves DEF RegisterStep
<1>4. new.id = i /\ new = Registration(i, reg[x].doc)
  BY DEF Registration
<1>. HIDE DEF i, new
<1>5. /\ \A d \in docs : d.reg \in KnownIds
      /\ \A y \in Actors : reg[y].id \in KnownIds
      /\ \A c : IsCopy(c) => c.reg \in KnownIds
  BY DEF KnownIds, IsCopy
<1>6. i # NoReg /\ i \notin KnownIds
  BY <1>1, ProvisioningAssumption DEF FreeIds
<1>7. ASSUME NEW j, NEW d, j \in KnownIds, Registration(j, d) \in live
      PROVE  Registration(j, d) \in live' 
  BY <1>2, <1>7, KnownKept
<1>8. LiveKept
  BY <1>5, <1>7 DEF LiveKept
<1>9. DocsKept
  BY <1>2, DocsStill
<1>10. CASE /\ reg' = [reg EXCEPT ![x] = NoRegistration]
            /\ Release(x) /\ Registered(x, TRUE)
  <2>1. Fewer /\ CopiesKept /\ RegType'
    BY <1>2, <1>3, <1>10, EndsOne DEF RegPlaces
  <2>. QED BY <1>8, <1>9, <2>1, RegKept
<1>11. CASE /\ live' = old \cup {new} /\ reg' = [reg EXCEPT ![x].id = new.id]
            /\ Goto(x, "store") /\ UNCHANGED <<job, m_sm>>
  <2>1. /\ pc'[x] = "store" /\ \A y \in Actors \ {x} : pc'[y] = pc[y]
        /\ \A y \in Actors \ {x} : reg'[y] = reg[y]
        /\ reg'[x].id = i /\ reg'[x].doc = reg[x].doc /\ reg'[x].alone = reg[x].alone
        /\ IsRecord(reg'[x], {"doc", "id", "alone"}) /\ IsRecord(reg, Actors)'
    BY <1>4, <1>11 DEF Goto, WorkType, RegInv, RegType, IsRecord
  <2>2. \A y \in Actors : /\ Registering(y)' = Registering(y)
                          /\ reg'[y].doc = reg[y].doc /\ reg'[y].alone = reg[y].alone
    BY <1>2, <2>1 DEF Registering
  <2>3. RegType'
    BY <1>11, <2>1, <2>2 DEF RegInv, RegType, IsRecord
  <2>4. \A c : IsCopy(c)' => IsCopy(c)
    <3>1. \A a \in Renewing : pc'[a] # "idle" => pc[a] # "idle"
      BY <1>2, <2>1 DEF Actors
    <3>. QED BY <1>11, <2>2, <3>1 DEF IsCopy
  <2>5. AloneInv'
    BY <1>2, <1>11, <2>2 DEF RegInv, AloneInv, Serialised, Actors
  <2>6. IdInv'
    <3>1. \A d, e \in docs : d.reg = e.reg /\ d.reg # NoReg => d = e
      BY DEF RegInv, IdInv
    <3>2. \A d \in docs : Key(d) \in settled =>
            \A c : IsCopy(c)' /\ c.reg = d.reg /\ d.reg # NoReg => Key(c) = Key(d)
      BY <2>4 DEF RegInv, IdInv
    <3>3. ASSUME NEW y \in Actors
          PROVE  /\ pc'[y] = "unregister" => reg'[y].doc.reg # NoReg
                 /\ pc'[y] # "store" => reg'[y].id = NoReg
      BY <2>1 DEF RegInv, IdInv
    <3>4. ASSUME NEW y \in Actors, pc'[y] = "store"
          PROVE  /\ reg'[y].id # NoReg
                 /\ \A d \in docs : d.reg # reg'[y].id
                 /\ \A c : IsCopy(c)' => c.reg # reg'[y].id
                 /\ \A z \in Actors \ {y} : reg'[z].id # reg'[y].id
                 /\ reg'[y].alone = "yes" => Registration(reg'[y].id, reg'[y].doc) \in live'
      <4>1. CASE y = x
        BY <1>4, <1>5, <1>6, <1>11, <2>1, <2>4, <4>1
      <4>2. CASE y # x
        <5>1. /\ reg[y].id # NoReg
              /\ \A d \in docs : d.reg # reg[y].id
              /\ \A c : IsCopy(c) => c.reg # reg[y].id
              /\ \A z \in Actors \ {y} : reg[z].id # reg[y].id
              /\ reg[y].alone = "yes" => Registration(reg[y].id, reg[y].doc) \in live
          BY <2>1, <3>4, <4>2 DEF RegInv, IdInv
        <5>2. reg'[y] = reg[y] /\ reg[y].id \in KnownIds
          BY <1>5, <2>1, <4>2
        <5>3. \A z \in Actors \ {y} : reg'[z].id # reg'[y].id
          BY <1>6, <2>1, <5>1, <5>2
        <5>4. reg'[y].alone = "yes" => Registration(reg'[y].id, reg'[y].doc) \in live'
          BY <1>7, <5>1, <5>2
        <5>. QED BY <2>4, <5>1, <5>2, <5>3, <5>4
      <4>. QED BY <4>1, <4>2
    <3>. QED BY <1>2, <3>1, <3>2, <3>3, <3>4 DEF IdInv, Key, Registration
  <2>7. CopyInv'
    BY <1>2, <2>4 DEF RegInv, CopyInv, Key
  <2>8. SettledInv'
    <3>1. \A d \in docs : Key(d) \in settled /\ d.commands # {} => Registration(d.reg, d) \in live'
      BY <1>5, <1>7 DEF RegInv, SettledInv, SettledIsRegistered, At
    <3>. QED BY <1>2, <3>1 DEF RegInv, SettledInv, SettledIsRegistered, At, Key, Registration
  <2>. QED BY <2>3, <2>5, <2>6, <2>7, <2>8 DEF RegInv
<1>. QED BY <1>2, <1>10, <1>11

(* The registration of d gets the new id: e.  It is settled when nobody    *)
(* overlapped it and d is the document that was read.                      *)
LEMMA RegOfStore ==
  ASSUME WorkType, DocType, RegInv, NEW x \in Actors, StoreRegistration(x)
  PROVE  RegInv'
<1>1. /\ pc[x] = "store" /\ Registering(x) /\ UNCHANGED <<writes, live>>
      /\ reg' = [reg EXCEPT ![x] = NoRegistration] /\ Release(x) /\ Registered(x, FALSE)
  BY DEF StoreRegistration, Registering
<1>2. OnlyOf(x)
  BY OneMoves DEF RegisterStep
<1>3. Fewer /\ CopiesKept /\ RegType' /\ pc'[x] \notin RegPlaces
  BY <1>1, <1>2, EndsOne DEF RegPlaces
<1>. DEFINE match == {d \in docs : d.id = reg[x].doc.id}
<1>4. CASE match = {}
  <2>1. UNCHANGED <<docs, settled>>
    BY <1>4 DEF StoreRegistration
  <2>2. DocsKept /\ LiveKept
    BY <1>1, <2>1, DocsStill DEF LiveKept
  <2>. QED BY <1>3, <2>2, RegKept
<1>5. CASE match # {}
  <2>0. PICK d \in docs : \E e : StoredAs(x, d, e)
    BY <1>5, StoredDoc
  <2>1. PICK e :
          /\ Key(e) = Key(d) /\ e.ver = d.ver /\ e.reg = reg[x].id
          /\ e.entity_name = d.entity_name /\ e.commands = d.commands
          /\ docs' = (docs \ {d}) \cup {e}
          /\ settled' = IF reg[x].alone = "no" \/ Key(d) # Key(reg[x].doc)
                        THEN settled \ {Key(d)}
                        ELSE IF d.ver = reg[x].doc.ver THEN settled \cup {Key(d)}
                        ELSE settled
    BY <2>0 DEF StoredAs
  <2>2. /\ reg[x].id # NoReg
        /\ \A f \in docs : f.reg # reg[x].id
        /\ \A c : IsCopy(c) => c.reg # reg[x].id
        /\ \A y \in Actors \ {x} : reg[y].id # reg[x].id
        /\ reg[x].alone = "yes" => Registration(reg[x].id, reg[x].doc) \in live
    BY <1>1 DEF RegInv, IdInv
  <2>3. Key(reg[x].doc) \notin settled /\ IsCopy(reg[x].doc)
    BY <1>1 DEF RegInv, AloneInv, IsCopy
  <2>4. \A c : IsCopy(c)' => IsCopy(c)
    BY <1>1, <2>1, <2>2, <1>3 DEF CopiesKept
  <2>5. Key(d) \in settled' => reg[x].alone # "no" /\ Key(d) = Key(reg[x].doc) /\ d.ver = reg[x].doc.ver
    BY <2>1, <2>3
  <2>6. settled' \subseteq settled \cup {Key(d)}
    BY <2>1
  <2>7. \A f \in docs \ {d} : Key(f) # Key(d)
    BY <2>1 DEF DocType
  <2>8. AloneInv'
    <3>1. \A w \in Workers : Registering(w)' => m_sm'[job'[w].agent] = w
      BY <1>3 DEF Fewer
    <3>2. ASSUME NEW y \in Actors, NEW z \in Actors, y # z, Registering(y)', Registering(z)',
                 Key(reg'[y].doc) = Key(reg'[z].doc), ~Serialised(y, z)'
          PROVE  reg'[y].alone = "no"
      <4>1. ~Serialised(y, z)
        BY <1>3, <3>2 DEF Fewer, Serialised
      <4>2. Registering(y) /\ Registering(z) /\ Key(reg[y].doc) = Key(reg[z].doc)
        BY <1>3, <3>2 DEF Fewer
      <4>3. reg[y].alone = "no"
        BY <3>2, <4>1, <4>2 DEF RegInv, AloneInv
      <4>. QED BY <1>3, <3>2, <4>3 DEF Fewer, RegType
    <3>3. ASSUME NEW y \in Actors, Registering(y)' PROVE Key(reg'[y].doc) \notin settled'
      <4>1. y # x /\ Registering(y) /\ reg'[y].doc = reg[y].doc
        BY <1>3, <3>3 DEF Fewer, Registering, RegPlaces
      <4>2. Key(reg[y].doc) \notin settled
        BY <4>1 DEF RegInv, AloneInv
      <4>3. ASSUME Key(reg[y].doc) = Key(d), Key(d) \in settled' PROVE FALSE
        <5>1. Key(reg[x].doc) = Key(reg[y].doc) /\ reg[x].alone # "no"
          BY <2>5, <4>3
        <5>2. Serialised(x, y)
          BY <1>1, <4>1, <5>1 DEF RegInv, AloneInv
        <5>3. m_sm[job[x].agent] = x /\ m_sm[job[y].agent] = y
          BY <1>1, <4>1, <5>2 DEF RegInv, AloneInv, Serialised
        <5>. QED BY <4>1, <5>2, <5>3 DEF Serialised
      <4>. QED BY <2>6, <4>1, <4>2, <4>3
    <3>. QED BY <3>1, <3>2, <3>3 DEF AloneInv, Key
  <2>9. IdInv'
    <3>1. \A f, g \in docs' : f.reg = g.reg /\ f.reg # NoReg => f = g
      BY <2>1, <2>2 DEF RegInv, IdInv
    <3>2. ASSUME NEW f \in docs', Key(f) \in settled', NEW c, IsCopy(c)', c.reg = f.reg,
                 f.reg # NoReg
          PROVE  Key(c) = Key(f)
      <4>1. CASE f = e
        BY <2>1, <2>2, <2>4, <3>2, <4>1
      <4>2. CASE f # e
        <5>1. f \in docs /\ Key(f) \in settled
          BY <2>1, <2>6, <2>7, <3>2, <4>2
        <5>. QED BY <2>4, <3>2, <5>1 DEF RegInv, IdInv
      <4>. QED BY <4>1, <4>2
    <3>3. ASSUME NEW y \in Actors, pc'[y] = "unregister" PROVE reg'[y].doc.reg # NoReg
      BY <1>3, <3>3 DEF Fewer, RegInv, IdInv, Registering
    <3>4. \A y \in Actors : pc'[y] # "store" => reg'[y].id = NoReg
      BY <1>3 DEF Fewer
    <3>5. ASSUME NEW y \in Actors, pc'[y] = "store"
          PROVE  /\ reg'[y].id # NoReg
                 /\ \A f \in docs' : f.reg # reg'[y].id
                 /\ \A c : IsCopy(c)' => c.reg # reg'[y].id
                 /\ \A z \in Actors \ {y} : reg'[z].id # reg'[y].id
                 /\ reg'[y].alone = "yes" => Registration(reg'[y].id, reg'[y].doc) \in live
      <4>1. /\ y # x /\ pc[y] = "store" /\ reg'[y].id = reg[y].id /\ reg'[y].doc = reg[y].doc
            /\ reg'[y].alone = "yes" => reg[y].alone = "yes"
        BY <1>3, <3>5 DEF Fewer, Registering, RegPlaces
      <4>2. /\ reg[y].id # NoReg
            /\ \A f \in docs : f.reg # reg[y].id
            /\ \A c : IsCopy(c) => c.reg # reg[y].id
            /\ \A z \in Actors \ {y} : reg[z].id # reg[y].id
            /\ reg[y].alone = "yes" => Registration(reg[y].id, reg[y].doc) \in live
        BY <4>1 DEF RegInv, IdInv
      <4>3. \A f \in docs' : f.reg # reg'[y].id
        BY <2>1, <2>2, <4>1, <4>2
      <4>4. \A z \in Actors \ {y} : reg'[z].id # reg'[y].id
        BY <1>3, <4>1, <4>2 DEF Fewer
      <4>. QED BY <2>4, <4>1, <4>2, <4>3, <4>4
    <3>. QED BY <1>1, <3>1, <3>2, <3>3, <3>4, <3>5 DEF IdInv, Key, Registration
  <2>10. CopyInv'
    <3>. SUFFICES ASSUME NEW c, IsCopy(c)
                  PROVE  /\ c.ver \in 0..writes
                         /\ \A f \in docs' : Key(c) = Key(f) /\ c.ver = f.ver =>
                              c.entity_name = f.entity_name /\ c.commands = f.commands
      BY <1>1, <2>4 DEF CopyInv, Key
    <3>. QED BY <2>1 DEF RegInv, CopyInv
  <2>11. SettledInv'
    <3>1. \A f \in docs : Key(f) \in settled /\ f.commands # {} => Registration(f.reg, f) \in live
      BY DEF RegInv, SettledInv, SettledIsRegistered, At
    <3>2. ASSUME NEW f \in docs', Key(f) \in settled', f.commands # {}
          PROVE  Registration(f.reg, f) \in live
      <4>1. CASE f = e
        <5>1. Key(d) = Key(reg[x].doc) /\ d.ver = reg[x].doc.ver /\ reg[x].alone # "no"
          BY <2>1, <2>5, <3>2, <4>1
        <5>2. d.entity_name = reg[x].doc.entity_name /\ d.commands = reg[x].doc.commands
          BY <2>1, <2>3, <5>1 DEF RegInv, CopyInv
        <5>3. Registration(reg[x].id, reg[x].doc) \in live
          BY <2>2, <5>1 DEF RegInv, RegType
        <5>. QED BY <2>1, <4>1, <5>2, <5>3 DEF Registration
      <4>2. CASE f # e
        <5>1. f \in docs /\ Key(f) \in settled
          BY <2>1, <2>6, <2>7, <3>2, <4>2
        <5>. QED BY <3>1, <3>2, <5>1
      <4>. QED BY <4>1, <4>2
    <3>3. settled' \subseteq {Key(f) : f \in docs'}
      <4>1. \A f \in docs : \E g \in docs' : Key(g) = Key(f)
        BY <2>1
      <4>2. \A k \in settled' : \E f \in docs : k = Key(f)
        BY <2>1, <2>6 DEF RegInv, SettledInv
      <4>. QED BY <4>1, <4>2
    <3>. QED BY <1>1, <3>2, <3>3 DEF SettledInv, SettledIsRegistered, At, Key, Registration
  <2>. QED BY <1>3, <2>8, <2>9, <2>10, <2>11 DEF RegInv
<1>. QED BY <1>4, <1>5

LEMMA RegOfExpiry ==
  ASSUME WorkType, DocType, RegInv, NEW r \in live, RegistrationExpires(r)
  PROVE  RegInv'
<1>1. /\ UNCHANGED <<docs, writes, m_sm, pc, job>> /\ live' = live \ {r}
      /\ settled' = {k \in settled : \A d \in At(k) : d.reg # r.id}
      /\ reg' = [x \in Actors |-> IF pc[x] = "store" /\ reg[x].id = r.id
                                  THEN [reg[x] EXCEPT !.alone = "no"] ELSE reg[x]]
  BY DEF RegistrationExpires, database
<1>2. \A x \in Actors :
        /\ IsRecord(reg'[x], {"doc", "id", "alone"})
        /\ reg'[x].doc = reg[x].doc /\ reg'[x].id = reg[x].id
        /\ reg'[x].alone = IF pc[x] = "store" /\ reg[x].id = r.id THEN "no" ELSE reg[x].alone
  BY <1>1 DEF RegInv, RegType, IsRecord
<1>3. RegType'
  <2>1. IsRecord(reg, Actors)'
    BY <1>1 DEF IsRecord
  <2>2. \A x \in Actors : reg'[x].alone \in {"yes", "no"}
    BY <1>2 DEF RegInv, RegType
  <2>. QED BY <1>1, <1>2, <2>1, <2>2 DEF RegInv, RegType, IsRecord
<1>4. Fewer
  BY <1>1, <1>2 DEF Fewer, Registering, RegInv, AloneInv, IdInv, Actors
<1>5. CopiesKept
  BY <1>1, <1>2 DEF CopiesKept, IsCopy, Registering
<1>6. DocsKept
  BY <1>1, DocsStill
<1>7. LiveKept
  <2>1. ASSUME NEW d \in docs, Key(d) \in settled', Registration(d.reg, d) \in live
        PROVE  Registration(d.reg, d) \in live'
    BY <1>1, <2>1 DEF Registration, At
  <2>2. ASSUME NEW x \in Actors, pc[x] = "store", reg'[x].alone = "yes",
               Registration(reg[x].id, reg[x].doc) \in live
        PROVE  Registration(reg[x].id, reg[x].doc) \in live'
    BY <1>1, <1>2, <2>2 DEF Registration
  <2>. QED BY <1>1, <2>1, <2>2 DEF LiveKept
<1>. QED BY <1>3, <1>4, <1>5, <1>6, <1>7, RegKept

LEMMA RegStep ==
  ASSUME WorkType, DocType, RegInv, [Next]_vars
  PROVE  RegInv'
<1>1. ASSUME UNCHANGED <<docs, writes, live, reg, settled, m_sm, pc, job>> PROVE RegInv'
  BY <1>1 DEF RegInv, RegType, AloneInv, IdInv, CopyInv, SettledInv, SettledIsRegistered,
              Registering, IsCopy, Serialised, At, Key, Registration
<1>2. ASSUME NEW w \in Workers, Request(w) \/ WorkerStep(w) PROVE RegInv'
  BY <1>2, RegOfRequests, RegOfWorkers, RegOfDeploy
<1>3. ASSUME NEW x \in Actors, RegisterStep(x) PROVE RegInv'
  BY <1>3, RegOfUnregister, RegOfRegister, RegOfStore DEF RegisterStep
<1>4. ASSUME NEW a \in Renewing, RenewAll(a) \/ RenewNext(a) PROVE RegInv'
  BY <1>4, RegOfRenewAll, RegOfRenewNext
<1>5. ASSUME NEW r \in live, RegistrationExpires(r) PROVE RegInv'
  BY <1>5, RegOfExpiry
<1>6. ASSUME NEW a \in Agents, NEW k \in Keys,
             GetDevice(a, k) \/ TimerElapses(a, k) \/ TimerHandled(a, k)
      PROVE  RegInv'
  BY <1>1, <1>6 DEF GetDevice, TimerElapses, TimerHandled, CacheOnly, database, broker
<1>7. CASE UNCHANGED vars
  BY <1>1, <1>7 DEF vars
<1>. QED BY <1>2, <1>3, <1>4, <1>5, <1>6, <1>7 DEF Next

-----------------------------------------------------------------------------
LEMMA ProvStart == Init => ProvInv
<1>. SUFFICES ASSUME Init PROVE ProvInv
  OBVIOUS
<1>1. WorkType
  BY WorkStart
<1>2. DocType
  <2>1. \A d \in StoredDevices : IsRecord(d, DeviceFields) /\ d.ver = 0
    BY StoredAssumption DEF IsRecord
  <2>2. \A d, e \in StoredDevices : Key(d) = Key(e) => d = e
    BY StoredAssumption
  <2>. QED BY <2>1, <2>2 DEF Init, DocType
<1>3. /\ \A x \in Actors : pc[x] = "idle" /\ reg[x] = NoRegistration
      /\ \A a \in Renewing : pc[a] = "idle"
      /\ \A w \in Workers : pc[w] = "idle"
  BY DEF Init, Actors
<1>4. SeenInv
  <2>1. EmptyCache \in Caches /\ \A k \in Keys : EmptyCache.entry[k] = Absent
    BY DEF EmptyCache, Caches
  <2>2. /\ cache \in [Agents -> Caches] /\ fresh \in [Agents -> [Keys -> Nat]]
        /\ \A a \in Agents : cache[a] = EmptyCache
        /\ \A a \in Agents, k \in Keys : fresh[a][k] = 0
    BY <2>1 DEF Init
  <2>3. LocalChangesSeen /\ DeviceIsTimed
    BY <2>1, <2>2 DEF LocalChangesSeen, DeviceIsTimed
  <2>4. \A a \in Agents, k \in Keys :
          fresh[a][k] <= writes /\ \A d \in At(k) : d.ver >= fresh[a][k]
    <3>1. writes = 0 /\ \A d \in docs : d.ver = 0
      BY StoredAssumption DEF Init
    <3>. QED BY <2>2, <3>1 DEF At
  <2>5. \A w \in Workers : JobSeen(w)
    BY <1>3 DEF JobSeen
  <2>. QED BY <2>2, <2>3, <2>4, <2>5 DEF SeenInv, Caches
<1>5. RegInv
  <2>1. ~ \E c : IsCopy(c)
    BY <1>3 DEF IsCopy, Registering
  <2>2. \A x \in Actors : ~Registering(x) /\ reg[x].id = NoReg /\ pc[x] = "idle"
    BY <1>3 DEF Registering, NoRegistration
  <2>3. RegType
    BY <1>3 DEF RegType, Init, IsRecord, NoRegistration
  <2>4. AloneInv
    BY <2>2 DEF AloneInv, Actors
  <2>5. IdInv
    <3>1. \A d, e \in docs : d.reg = e.reg /\ d.reg # NoReg => d = e
      BY StoredAssumption DEF Init
    <3>. QED BY <2>1, <2>2, <3>1 DEF IdInv
  <2>6. CopyInv
    BY <2>1 DEF CopyInv
  <2>7. SettledInv
    BY DEF SettledInv, SettledIsRegistered, Init, At
  <2>. QED BY <2>3, <2>4, <2>5, <2>6, <2>7 DEF RegInv
<1>. QED BY <1>1, <1>2, <1>4, <1>5 DEF ProvInv

LEMMA ProvStep == ProvInv /\ [Next]_vars => ProvInv'
<1>. SUFFICES ASSUME ProvInv, [Next]_vars PROVE ProvInv'
  OBVIOUS
<1>1. WorkType'
  BY WorkStep DEF ProvInv
<1>2. DocsGrow
  BY DocStep DEF ProvInv
<1>3. SeenInv'
  BY <1>1, <1>2, SeenStep DEF ProvInv
<1>4. RegInv'
  BY RegStep DEF ProvInv
<1>. QED BY <1>1, <1>2, <1>3, <1>4 DEF ProvInv, DocsGrow

(* The copy an agent keeps of a device is never older than the last change *)
(* made through that agent, and will leave the cache                       *)
(* (remove_from_cache, Cache::get and item_timeout, whatever order they    *)
(* come in); and a device whose registration nobody overlapped and nobody  *)
(* changed since has, under the id its document holds, a registration of   *)
(* its entity and its commands in force (deploy_device, updated,           *)
(* make_registrations), failing exchanges, expiring registrations and      *)
(* agents that share the database included.                                *)
THEOREM DevicesStayInOrder == Spec => []DevicesInOrder
<1>1. ProvInv => DevicesInOrder
  BY DEF ProvInv, SeenInv, RegInv, SettledInv, DevicesInOrder
<1>. QED BY <1>1, ProvStart, ProvStep, PTL DEF Spec
=============================================================================
