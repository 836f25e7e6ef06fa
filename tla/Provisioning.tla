---------------------------- MODULE Provisioning ----------------------------
(***************************************************************************)
(* The provisioning API of iota::AdminService (services/admin_service.cc), *)
(* the registration of devices in the Context Broker by                    *)
(* iota::CommandHandle (rest/command_handle.cc), and the device caches of  *)
(* the plugins, at several agents that share one database.                 *)
(*                                                                         *)
(* A request is worked on by a thread (a worker) of the agent it was sent  *)
(* to, one database operation or one exchange with the Context Broker per  *)
(* step.  Every agent also has the thread make_registrations(), which      *)
(* renews all registrations again and again (the agents of Renewing).      *)
(* deploy_device() and undeploy_device() hold the mutex m_sm of the        *)
(* process; make_registrations() does not take it.                         *)
(*                                                                         *)
(* One service is modelled.  The caches of the plugins of a process are    *)
(* cleared in one loop and are read independently: one stands for all.     *)
(***************************************************************************)
EXTENDS DeviceCache, Sequences

CONSTANTS
  Agents, Workers,
  Renewing,        \* agents whose registration thread takes part
  Ids, Paths,      \* device ids, service_paths
  Plugins,         \* Plugins[a]: resources of the plugins loaded at a
  ProtocolOf,      \* ProtocolOf[r]: the protocol of the plugin at resource r
  Posts,           \* bodies of POST devices: sequences of devices
  Puts,            \* bodies of PUT device: records with some device fields
  Services,        \* service documents that may be provisioned
  Provisioned,     \* the services that exist at the start
  StoredDevices,   \* the devices stored, and registered, at the start
  RegIds,          \* registration ids of the Context Broker
  NoReg, Nobody,
  Expiring,        \* "yes" if registrations may reach the end of their duration
  MaxRequests,     \* bound: provisioning requests
  MaxReads,        \* bound: device lookups of the plugins
  MaxFailures      \* bound: failed exchanges with the Context Broker

ASSUME ProvisioningAssumption ==
  /\ Renewing \subseteq Agents
  /\ Keys = Ids \X Paths
  /\ Workers \cap Agents = {}
  /\ Nobody \notin Workers
  /\ {MaxRequests, MaxReads, MaxFailures} \subseteq Nat
  /\ NoReg \notin RegIds

VARIABLES
  services,   \* collection SERVICE
  docs,       \* collection DEVICE
  writes,     \* number of writes of the API so far: the next version
  live,       \* registrations that are in force at the Context Broker
  cache,      \* cache[a]: the device cache
  m_sm,       \* m_sm[a]: the worker that holds AdminService::m_sm
  pc, job,    \* what each worker, and each registration thread, is doing
  reg,        \* reg[x]: the registration x has under way; alone is history
  code,       \* code[w]: status code of the latest answer of w
  fresh,      \* history: fresh[a][k], version of the last local change of k
  settled,    \* history: devices registered as they are stored
  requests, reads, failures

vars == <<services, docs, writes, live, cache, m_sm, pc, job, reg, code, fresh,
          settled, requests, reads, failures>>

database == <<services, docs, writes>>
broker == <<live, reg, settled>>
counters == <<requests, reads, failures>>

Actors == Workers \cup Renewing

Key(d) == <<d.id, d.path>>
At(k) == {d \in docs : Key(d) = k}

DeviceFields ==
  {"id", "path", "entity_name", "entity_type", "protocol", "commands", "reg", "ver"}

(* put_device.schema: neither the service_path nor the registration.       *)
ASSUME PutsAssumption == \A body \in Puts : DOMAIN body \cap {"path", "reg", "ver"} = {}

(* What the unique index and the Context Broker keep apart. *)
ASSUME StoredAssumption ==
  /\ \A d \in StoredDevices : d = [f \in DeviceFields |-> d[f]] /\ d.ver = 0
  /\ \A d, e \in StoredDevices :
       Key(d) = Key(e) \/ (d.reg = e.reg /\ d.reg # NoReg) => d = e

----------------------------------------------------------------------------
(* Indexes.  createIndex() compares where it means to assign (dropIndex == *)
(* ...), so that only the number of indexes, that of _id included, counts: *)
(* with any other number than two it drops them all and makes the new one. *)
CreateIndex(indexes, index) ==
  IF Cardinality(indexes) + 1 = 2 THEN indexes ELSE {index}

DeviceIndexes ==
  CreateIndex(CreateIndex({}, {"id", "path"}),
              {"entity_name", "entity_type", "path"})

ServiceIndexes ==
  CreateIndex(CreateIndex({}, {"apikey", "resource"}), {"path", "resource"})

(* A unique index refuses the document (duplicate key, 409). *)
Clash(table, doc, indexes) ==
  \E i \in indexes : \E d \in table : \A f \in i : d[f] = doc[f]

----------------------------------------------------------------------------
Registration(i, d) ==
  [id |-> i, entity_name |-> d.entity_name, commands |-> d.commands]

NoJob == [op |-> "none"]
NoRegistration == [doc |-> [reg |-> NoReg], id |-> NoReg, alone |-> "yes"]

Init ==
  /\ services = Provisioned
  /\ docs = StoredDevices
  /\ writes = 0
  /\ live = {Registration(d.reg, d) : d \in StoredDevices}
  /\ cache = [a \in Agents |-> EmptyCache]
  /\ m_sm = [a \in Agents |-> Nobody]
  /\ pc = [x \in Actors |-> "idle"]
  /\ job = [x \in Actors |-> NoJob]
  /\ reg = [x \in Actors |-> NoRegistration]
  /\ code = [w \in Workers |-> 0]
  /\ fresh = [a \in Agents |-> [k \in Keys |-> 0]]
  /\ settled = {Key(d) : d \in StoredDevices}
  /\ requests = 0 /\ reads = 0 /\ failures = 0

Goto(x, label) == pc' = [pc EXCEPT ![x] = label]

(* create_response(), and the end of the request. *)
Answer(w, c) ==
  /\ pc' = [pc EXCEPT ![w] = "idle"]
  /\ job' = [job EXCEPT ![w] = NoJob]
  /\ code' = [code EXCEPT ![w] = c]

Accept(w) ==
  /\ pc[w] = "idle"
  /\ requests < MaxRequests
  /\ requests' = requests + 1
  /\ UNCHANGED <<reads, failures>>

(* get_device_protocol(): a plugin of this process for the protocol, at a  *)
(* resource the service has.                                               *)
HasPlugin(a, protocol, p) ==
  \E s \in services : s.path = p /\ s.resource \in Plugins[a]
                      /\ ProtocolOf[s.resource] = protocol

(* post_device_json(): the body must not be empty, the service must exist. *)
(* (A body against the schema ends as one its plugin refuses, below.)      *)
PostDevice(w, a, p, body) ==
  /\ Accept(w)
  /\ CASE body = <<>> -> Answer(w, 400)
       [] body # <<>> /\ ~ \E s \in services : s.path = p -> Answer(w, 404)
       [] OTHER ->
            /\ Goto(w, "protocol")
            /\ job' = [job EXCEPT ![w] =
                 [op |-> "post", agent |-> a, path |-> p, todo |-> body]]
            /\ UNCHANGED code
  /\ UNCHANGED <<database, broker, cache, m_sm, fresh>>

(* The protocol of the next device of the body, and what its plugin        *)
(* demands of it (check_provisioned_data).                                 *)
CheckProtocol(w) ==
  /\ pc[w] = "protocol"
  /\ LET dev == Head(job[w].todo)
     IN  IF HasPlugin(job[w].agent, dev.protocol, job[w].path) /\ dev.valid = "yes"
         THEN Goto(w, "duplicate") /\ UNCHANGED <<job, code>>
         ELSE Answer(w, 400)
  /\ UNCHANGED <<database, broker, cache, m_sm, fresh, counters>>

(* check_device_commands_duplicate(): only for a body with both an entity  *)
(* name and commands; true when no device of the entity shares one.        *)
NoDuplicate(p, protocol, dev) ==
  "entity_name" \in DOMAIN dev /\ "commands" \in DOMAIN dev =>
    ~ \E d \in docs : /\ d.path = p /\ d.protocol = protocol
                      /\ d.entity_name = dev.entity_name
                      /\ d.commands \cap dev.commands # {}

CheckDuplicate(w) ==
  /\ pc[w] = "duplicate"
  /\ LET j == job[w]
         ok == IF j.op = "post"
               THEN NoDuplicate(j.path, Head(j.todo).protocol, Head(j.todo))
               ELSE NoDuplicate(j.key[2], j.protocol, j.body)
     IN  IF ok THEN /\ Goto(w, IF j.op = "post" THEN "insert" ELSE "update")
                    /\ UNCHANGED <<job, code>>
               ELSE Answer(w, 409)
  /\ UNCHANGED <<database, broker, cache, m_sm, fresh, counters>>

(* devTable->insert(). *)
InsertDoc(w) ==
  /\ pc[w] = "insert"
  /\ LET j == job[w]
         b == Head(j.todo)
         doc == [id |-> b.id, path |-> j.path, entity_name |-> b.entity_name,
                 entity_type |-> b.entity_type, protocol |-> b.protocol,
                 commands |-> b.commands, reg |-> NoReg, ver |-> writes + 1]
     IN  IF Clash(docs, doc, DeviceIndexes)
         THEN Answer(w, 409) /\ UNCHANGED <<docs, writes>>
         ELSE /\ docs' = docs \cup {doc}
              /\ writes' = writes + 1
              /\ Goto(w, "deploy")
              /\ job' = [job EXCEPT ![w] =
                   [op |-> "post", agent |-> j.agent, path |-> j.path,
                    todo |-> Tail(j.todo), key |-> Key(doc),
                    protocol |-> b.protocol]]
              /\ UNCHANGED code
  /\ UNCHANGED <<services, live, reg, settled, cache, m_sm, fresh, counters>>

(* put_device_json(), up to the check of the protocol of the stored        *)
(* device.  An id, service_path pair is unique, so count() is at most 1.   *)
(* A record without fields stands for a body the schema or the plugin      *)
(* refuses.                                                                *)
PutDevice(w, a, k, body) ==
  /\ Accept(w)
  /\ LET protocol == IF At(k) = {} THEN "" ELSE (CHOOSE d \in At(k) : TRUE).protocol
     IN  CASE DOMAIN body = {} -> Answer(w, 400)
           [] DOMAIN body # {} /\ At(k) # {} /\ ~HasPlugin(a, protocol, k[2]) ->
                Answer(w, 400)
           [] OTHER ->
                /\ Goto(w, "duplicate")
                /\ job' = [job EXCEPT ![w] =
                     [op |-> "put", agent |-> a, key |-> k, body |-> body,
                      protocol |-> protocol, ver |-> 0]]
                /\ UNCHANGED code
  /\ UNCHANGED <<database, broker, cache, m_sm, fresh>>

(* $set with the fields of the body.  removeField() returns a new object,  *)
(* which put_device_json() drops: the protocol is set as well.             *)
Updated(d, body) ==
  [f \in DOMAIN d |-> IF f \in DOMAIN body THEN body[f] ELSE d[f]]

UpdateDoc(w) ==
  /\ pc[w] = "update"
  /\ LET j == job[w]
     IN  IF At(j.key) = {}
         THEN Answer(w, 404) /\ UNCHANGED <<docs, writes, settled>>
         ELSE LET old == CHOOSE d \in At(j.key) : TRUE
                  new == [Updated(old, j.body) EXCEPT !.ver = writes + 1]
              IN  IF Clash(docs \ {old}, new, DeviceIndexes)
                  THEN Answer(w, 409) /\ UNCHANGED <<docs, writes, settled>>
                  ELSE /\ docs' = (docs \ {old}) \cup {new}
                       /\ writes' = writes + 1
                       /\ settled' = settled \ {j.key, Key(new)}
                       /\ Goto(w, "find")
                       /\ job' = [job EXCEPT ![w].ver = writes + 1]
                       /\ UNCHANGED code
  /\ UNCHANGED <<services, live, reg, cache, m_sm, fresh, counters>>

FindUpdatedAgain(w) ==
  /\ pc[w] = "find"
  /\ \E d \in At(job[w].key) :
       /\ Goto(w, "deploy")
       /\ job' = [job EXCEPT ![w].protocol = d.protocol]
  /\ UNCHANGED <<database, broker, cache, m_sm, code, fresh, counters>>

(* The device is read again with the query of the update, that is under    *)
(* its old id: a device that was given another id is not deployed.         *)
FindUpdated(w) ==
  /\ pc[w] = "find"
  /\ LET found == At(job[w].key)
     IN  IF found = {}
         THEN Goto(w, "uncache") /\ UNCHANGED job
         ELSE /\ Goto(w, "deploy")
              /\ job' = [job EXCEPT ![w].protocol = (CHOOSE d \in found : TRUE).protocol]
  /\ UNCHANGED <<database, broker, cache, m_sm, code, fresh, counters>>

RemoveFromCacheOnPut(w) ==
  /\ pc[w] = "uncache"
  /\ LET j == job[w]
     IN  /\ cache' = IF j.op = "put"
                    THEN [cache EXCEPT ![j.agent] = RemoveDevice(@, j.key)] ELSE cache
         /\ fresh' = [fresh EXCEPT ![j.agent][j.key] = IF j.ver > @ THEN j.ver ELSE @]
  /\ Answer(w, 204)
  /\ UNCHANGED <<database, broker, m_sm, counters>>

(* remove_from_cache(), after the write, at this process only. *)
RemoveFromCache(w) ==
  /\ pc[w] = "uncache"
  /\ LET j == job[w]
     IN  /\ cache' = [cache EXCEPT ![j.agent] = RemoveDevice(@, j.key)]
         /\ fresh' = [fresh EXCEPT ![j.agent][j.key] = IF j.ver > @ THEN j.ver ELSE @]
  /\ Answer(w, 204)
  /\ UNCHANGED <<database, broker, m_sm, counters>>

(* delete_device_json(): undeploy_device() waits for the mutex, but the    *)
(* Device it is given has no protocol and matches no plugin.               *)
DeleteDevice(w, a, k) ==
  /\ Accept(w)
  /\ m_sm[a] = Nobody
  /\ Goto(w, "remove")
  /\ job' = [job EXCEPT ![w] = [op |-> "delete", agent |-> a, key |-> k, ver |-> 0]]
  /\ UNCHANGED <<database, broker, cache, m_sm, code, fresh>>

RemoveDoc(w) ==
  /\ pc[w] = "remove"
  /\ docs' = docs \ At(job[w].key)
  /\ writes' = writes + 1
  /\ settled' = settled \ {job[w].key}
  /\ Goto(w, "uncache")
  /\ job' = [job EXCEPT ![w].ver = writes + 1]
  /\ UNCHANGED <<services, live, reg, cache, m_sm, code, fresh, counters>>

----------------------------------------------------------------------------
(* Registrations in the Context Broker. *)

(* After deploy_device(): the next device of a POST, or the end. *)
Deployed(w) ==
  IF job[w].op = "post"
  THEN IF job[w].todo = <<>> THEN Answer(w, 201)
       ELSE Goto(w, "protocol") /\ UNCHANGED <<job, code>>
  ELSE Goto(w, "uncache") /\ UNCHANGED <<job, code>>

Registering(x) == pc[x] \in {"unregister", "register", "store"}

(* Other registrations of the device under way, those of workers of the   *)
(* same process apart: the mutex keeps these from overlapping.             *)
Overlap(x, k) ==
  {y \in Actors \ {x} :
     /\ Registering(y) /\ Key(reg[y].doc) = k
     /\ {x, y} \subseteq Workers => job[x].agent # job[y].agent}

(* x starts to register d, as it has read it. *)
Begin(x, d) ==
  /\ Goto(x, IF d.reg # NoReg THEN "unregister" ELSE "register")
  /\ settled' = settled \ {Key(d)}
  /\ LET others == Overlap(x, Key(d))
     IN  reg' = [y \in Actors |->
           IF y = x THEN [doc |-> d, id |-> NoReg,
                          alone |-> IF others = {} THEN "yes" ELSE "no"]
           ELSE IF y \in others THEN [reg[y] EXCEPT !.alone = "no"] ELSE reg[y]]

DeployDeviceUnlocked(w) ==
  /\ pc[w] = "deploy"
  /\ LET j == job[w]
         found == {d \in At(j.key) : /\ d.protocol = j.protocol
                                      /\ HasPlugin(j.agent, d.protocol, d.path)
                                      /\ d.commands # {}}
     IN  IF found = {}
         THEN Deployed(w) /\ UNCHANGED <<m_sm, reg, settled>>
         ELSE /\ Begin(w, CHOOSE d \in found : TRUE)
              /\ UNCHANGED <<m_sm, job, code>>
  /\ UNCHANGED <<database, live, cache, fresh, counters>>

(* deploy_device() and the reads of send_register_device(): the device is  *)
(* registered when a plugin of its protocol serves its service_path and it *)
(* has commands.  The mutex is held until the registration is stored.  The *)
(* index of DEVICE leaves one document at most; of several services of the *)
(* place that differ in their apikey one is modelled: the code goes round  *)
(* for each and registers the device again.                                *)
DeployDevice(w) ==
  /\ pc[w] = "deploy"
  /\ m_sm[job[w].agent] = Nobody
  /\ LET j == job[w]
         found == {d \in At(j.key) : /\ d.protocol = j.protocol
                                      /\ HasPlugin(j.agent, d.protocol, d.path)
                                      /\ d.commands # {}}
     IN  IF found = {}
         THEN Deployed(w) /\ UNCHANGED <<m_sm, reg, settled>>
         ELSE /\ Begin(w, CHOOSE d \in found : TRUE)
              /\ m_sm' = [m_sm EXCEPT ![j.agent] = w]
              /\ UNCHANGED <<job, code>>
  /\ UNCHANGED <<database, live, cache, fresh, counters>>

(* The end of a registration: the mutex is released, or the registration   *)
(* thread goes on with the next device (stop: an exception ends its pass). *)
Release(x) ==
  m_sm' = IF x \in Workers THEN [m_sm EXCEPT ![job[x].agent] = Nobody] ELSE m_sm

Registered(x, stop) ==
  IF x \in Workers THEN Deployed(x)
  ELSE /\ UNCHANGED code
       /\ IF stop \/ job[x].todo = {}
          THEN Goto(x, "idle") /\ job' = [job EXCEPT ![x] = NoJob]
          ELSE Goto(x, "next") /\ UNCHANGED job

Fails == failures < MaxFailures /\ failures' = failures + 1

(* send_register() with an old registration id first lets the old          *)
(* registration expire (duration PT1S); a failure is not noticed.          *)
Unregister(x) ==
  /\ pc[x] = "unregister"
  /\ Goto(x, "register")
  /\ \/ live' = {r \in live : r.id # reg[x].doc.reg} /\ UNCHANGED failures
     \/ Fails /\ UNCHANGED live
  /\ UNCHANGED <<database, cache, m_sm, job, reg, code, fresh, settled, requests, reads>>

(* Registration ids that someone still knows.  Of the other registrations  *)
(* in force only what they are for matters.                                *)
KnownIds ==
  {d.reg : d \in docs} \cup {reg[x].id : x \in Actors}
  \cup {reg[x].doc.reg : x \in {y \in Actors : Registering(y)}}
  \cup UNION {{d.reg : d \in job[a].todo} : a \in {b \in Renewing : pc[b] # "idle"}}

FreeIds == RegIds \ KnownIds

(* Then it registers the device anew, under an id the Context Broker       *)
(* chooses.  An answer that is missing or is no registration makes         *)
(* RegisterResponse throw: the catch (...) ends the registration (and the  *)
(* pass of the registration thread); the registration may be in force all  *)
(* the same.                                                               *)
Register(x) ==
  /\ pc[x] = "register"
  /\ FreeIds # {}
  /\ LET new == Registration(CHOOSE i \in FreeIds : TRUE, reg[x].doc)
         old == {IF r.id \in KnownIds THEN r ELSE [r EXCEPT !.id = NoReg] : r \in live}
     IN  \/ /\ live' = old \cup {new}
            /\ reg' = [reg EXCEPT ![x].id = new.id]
            /\ Goto(x, "store")
            /\ UNCHANGED <<job, code, m_sm, failures>>
         \/ /\ Fails
            /\ live' \in {live, old \cup {new}}
            /\ reg' = [reg EXCEPT ![x] = NoRegistration]
            /\ Release(x)
            /\ Registered(x, TRUE)
  /\ UNCHANGED <<database, cache, fresh, settled, requests, reads>>

(* updated(): the document is looked for by device id and service, without *)
(* the service_path.                                                       *)
StoreRegistration(x) ==
  /\ pc[x] = "store"
  /\ LET match == {d \in docs : d.id = reg[x].doc.id}
     IN  IF match = {}
         THEN UNCHANGED <<docs, settled>>
         ELSE \E d \in match :
                /\ docs' = (docs \ {d}) \cup {[d EXCEPT !.reg = reg[x].id]}
                /\ settled' =
                     IF reg[x].alone = "no" \/ Key(d) # Key(reg[x].doc)
                     THEN settled \ {Key(d)}
                     ELSE IF d.ver = reg[x].doc.ver THEN settled \cup {Key(d)}
                     ELSE settled
  /\ reg' = [reg EXCEPT ![x] = NoRegistration]
  /\ Release(x)
  /\ Registered(x, FALSE)
  /\ UNCHANGED <<services, writes, live, cache, fresh, counters>>

RenewNew(a) ==
  /\ pc[a] = "idle"
  /\ LET todo == {d \in docs : /\ d.commands # {} /\ HasPlugin(a, d.protocol, d.path)
                                /\ d.reg = NoReg}
     IN  /\ todo # {}
         /\ job' = [job EXCEPT ![a] = [op |-> "renew", agent |-> a, todo |-> todo]]
  /\ Goto(a, "next")
  /\ UNCHANGED <<database, broker, cache, m_sm, code, fresh, counters>>

(* make_registrations(), send_all_registrations_from_mongo(): devices with *)
(* commands of the services of this resource, read when the pass begins,   *)
(* each once whatever the number of services of its place.                 *)
RenewAll(a) ==
  /\ pc[a] = "idle"
  /\ LET todo == {d \in docs : d.commands # {} /\ HasPlugin(a, d.protocol, d.path)}
     IN  /\ todo # {}
         /\ job' = [job EXCEPT ![a] = [op |-> "renew", agent |-> a, todo |-> todo]]
  /\ Goto(a, "next")
  /\ UNCHANGED <<database, broker, cache, m_sm, code, fresh, counters>>

RenewNext(a) ==
  /\ pc[a] = "next"
  /\ \E d \in job[a].todo :
       /\ job' = [job EXCEPT ![a].todo = @ \ {d}]
       /\ Begin(a, d)
  /\ UNCHANGED <<database, live, cache, m_sm, code, fresh, counters>>

(* The duration of a registration is over, perhaps before it is stored. *)
RegistrationExpires(r) ==
  /\ Expiring = "yes"
  /\ live' = live \ {r}
  /\ settled' = {k \in settled : \A d \in At(k) : d.reg # r.id}
  /\ reg' = [x \in Actors |-> IF pc[x] = "store" /\ reg[x].id = r.id
                              THEN [reg[x] EXCEPT !.alone = "no"] ELSE reg[x]]
  /\ UNCHANGED <<database, cache, m_sm, pc, job, code, fresh, counters>>

----------------------------------------------------------------------------
(* Services. *)

(* post_service_json(), one service in the body. *)
PostService(w, a, s) ==
  /\ Accept(w)
  /\ CASE s.resource \notin Plugins[a] -> Answer(w, 404) /\ UNCHANGED services
       [] s.resource \in Plugins[a] /\ Clash(services, s, ServiceIndexes) ->
            Answer(w, 409) /\ UNCHANGED services
       [] OTHER -> Answer(w, 201) /\ services' = services \cup {s}
  /\ UNCHANGED <<docs, writes, broker, cache, m_sm, fresh>>

(* put_service_json(): the service s, found by path, apikey and resource,  *)
(* becomes t.                                                              *)
PutService(w, a, s, t) ==
  /\ Accept(w)
  /\ s.path = t.path
  /\ CASE {s.resource, t.resource} \subseteq Plugins[a] /\ s \in services
            /\ ~Clash(services \ {s}, t, ServiceIndexes) ->
            Answer(w, 204) /\ services' = (services \ {s}) \cup {t}
       [] {s.resource, t.resource} \subseteq Plugins[a] /\ s \in services
            /\ Clash(services \ {s}, t, ServiceIndexes) ->
            Answer(w, 409) /\ UNCHANGED services
       [] OTHER -> Answer(w, 404) /\ UNCHANGED services
  /\ UNCHANGED <<docs, writes, broker, cache, m_sm, fresh>>

(* delete_service_json(): the services of the path are counted, ...        *)
DeleteService(w, a, s, remove_devices) ==
  /\ Accept(w)
  /\ Goto(w, "rmservice")
  /\ job' = [job EXCEPT ![w] =
       [op |-> "rmservice", agent |-> a, path |-> s.path, resource |-> s.resource,
        rmdevices |-> remove_devices,
        num |-> Cardinality({t \in services : t.path = s.path})]]
  /\ UNCHANGED <<database, broker, cache, m_sm, code, fresh>>

(* ... those with the resource are removed, ...                            *)
RemoveServices(w) ==
  /\ pc[w] = "rmservice"
  /\ LET j == job[w]
         removed == {t \in services : t.path = j.path /\ t.resource = j.resource}
     IN  /\ services' = services \ removed
         /\ IF j.num - Cardinality(removed) = 0 /\ j.rmdevices = "yes"
            THEN Goto(w, "rmdevices") /\ UNCHANGED <<job, code>>
            ELSE Answer(w, 204)
  /\ UNCHANGED <<docs, writes, broker, cache, m_sm, fresh, counters>>

(* ... and the devices of the path with the last one: not those in caches, *)
(* nor their registrations.                                                *)
RemoveDevices(w) ==
  /\ pc[w] = "rmdevices"
  /\ docs' = {d \in docs : d.path # job[w].path}
  /\ writes' = writes + 1
  /\ settled' = {k \in settled : k[2] # job[w].path}
  /\ Answer(w, 204)
  /\ UNCHANGED <<services, live, reg, cache, m_sm, fresh, counters>>

----------------------------------------------------------------------------
(* Lookups of the plugins (RestHandle::get_device), and cache timers. *)
GetDevice(a, k) ==
  /\ reads < MaxReads
  /\ reads' = reads + 1
  /\ cache' = [cache EXCEPT ![a] =
       Get(@, k, IF At(k) = {} THEN Absent ELSE (CHOOSE d \in At(k) : TRUE).ver)]
  /\ UNCHANGED <<database, broker, m_sm, pc, job, code, fresh, requests, failures>>

CacheOnly == UNCHANGED <<database, broker, m_sm, pc, job, code, fresh, counters>>

TimerElapses(a, k) ==
  /\ cache[a].entry[k] # Absent
  /\ cache[a].entry[k].armed = "yes"
  /\ cache' = [cache EXCEPT ![a] = Elapse(@, k)]
  /\ CacheOnly

TimerHandled(a, k) ==
  /\ cache[a].queued[k] > 0
  /\ cache' = [cache EXCEPT ![a] = ItemTimeout(@, k)]
  /\ CacheOnly

----------------------------------------------------------------------------
Request(w) ==
  \E a \in Agents :
    \/ \E p \in Paths, body \in Posts : PostDevice(w, a, p, body)
    \/ \E k \in Keys, body \in Puts : PutDevice(w, a, k, body)
    \/ \E k \in Keys : DeleteDevice(w, a, k)
    \/ \E s \in Services : PostService(w, a, s)
    \/ \E s, t \in Services : PutService(w, a, s, t)
    \/ \E s \in Services, rm \in {"yes", "no"} : DeleteService(w, a, s, rm)

WorkerStep(w) ==
  \/ CheckProtocol(w) \/ CheckDuplicate(w) \/ InsertDoc(w)
  \/ UpdateDoc(w) \/ FindUpdated(w) \/ RemoveDoc(w) \/ RemoveFromCache(w)
  \/ DeployDevice(w) \/ RemoveServices(w) \/ RemoveDevices(w)

RegisterStep(x) == Unregister(x) \/ Register(x) \/ StoreRegistration(x)

Next ==
  \/ \E w \in Workers : Request(w) \/ WorkerStep(w)
  \/ \E x \in Actors : RegisterStep(x)
  \/ \E a \in Renewing : RenewAll(a) \/ RenewNext(a)
  \/ \E r \in live : RegistrationExpires(r)
  \/ \E a \in Agents, k \in Keys :
       GetDevice(a, k) \/ TimerElapses(a, k) \/ TimerHandled(a, k)

Spec == Init /\ [][Next]_vars

(* Timers expire, and the threads of the io_service run their handlers. *)
TimerSpec ==
  /\ Spec
  /\ \A a \in Agents, k \in Keys :
       WF_vars(TimerElapses(a, k)) /\ WF_vars(TimerHandled(a, k))

(* Workers and registration threads run, exchanges with the Context Broker *)
(* end, registrations expire; requests and lookups need not come.          *)
FairSpec ==
  /\ Spec
  /\ \A w \in Workers : WF_vars(WorkerStep(w))
  /\ \A x \in Actors : WF_vars(RegisterStep(x))
  /\ \A a \in Renewing : WF_vars(RenewAll(a) \/ RenewNext(a))
  /\ WF_vars(\E r \in live : RegistrationExpires(r))

----------------------------------------------------------------------------
(* A device changed or removed through an agent is never again seen there  *)
(* as it was: once the agent has answered, its cache holds no copy older   *)
(* than that change, whoever reads devices and whatever timers expire in   *)
(* between (remove_from_cache(), "to force reload new data").              *)
LocalChangesSeen ==
  \A a \in Agents, k \in Keys :
    cache[a].entry[k] # Absent => cache[a].entry[k].ver >= fresh[a][k]

(* Every cached device will leave the cache: its timer runs, or a handler  *)
(* for its key waits.  (Other agents learn of a change in no other way.)   *)
DeviceIsTimed ==
  \A a \in Agents, k \in Keys :
    cache[a].entry[k] # Absent =>
      cache[a].entry[k].armed = "yes" \/ cache[a].queued[k] > 0

(* A device whose registration no other agent and no registration thread   *)
(* overlapped, that did not expire, and that nobody changed since, has a   *)
(* registration in force for its entity and its commands, and knows its    *)
(* id.  Changes at the same agent may have overlapped it: deploy_device()  *)
(* serialises them.  A device of the same id under another service_path    *)
(* may take its place (updated() does not look at the path): both are then *)
(* left with what is not theirs, and are not settled.                      *)
SettledIsRegistered ==
  \A k \in settled : \A d \in At(k) :
    d.commands # {} => Registration(d.reg, d) \in live

(* Every request is answered, failures of the Context Broker included. *)
RequestsAnswered == \A w \in Workers : pc[w] # "idle" ~> pc[w] = "idle"

Stale(a, k) ==
  /\ cache[a].entry[k] # Absent
  /\ \A d \in At(k) : d.ver # cache[a].entry[k].ver

(* An agent drops its copy of a device that was changed or removed through *)
(* another one, once its plugins stop asking for it.                       *)
StaleDropped == \A a \in Agents, k \in Keys : Stale(a, k) ~> ~Stale(a, k)

Wanted(d) == d.commands # {} /\ \E a \in Renewing : HasPlugin(a, d.protocol, d.path)

Covered(d) ==
  \E r \in live : r.entity_name = d.entity_name /\ r.commands = d.commands

(* The registration thread makes up for everything: a device with commands *)
(* that stays provisioned has, again and again, a registration in force    *)
(* for its commands, whatever failed or was given another id before.       *)
RegisteredAgain == \A k \in Keys : []<>(\A d \in At(k) : Wanted(d) => Covered(d))

(* The copies an agent keeps of a device follow what was changed through   *)
(* it and do not stay for ever, and the Context Broker knows the commands  *)
(* of a device that nobody is changing.                                    *)
DevicesInOrder == LocalChangesSeen /\ DeviceIsTimed /\ SettledIsRegistered
=============================================================================
