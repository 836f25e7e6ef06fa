---------------------------- MODULE Configuration ---------------------------
(***************************************************************************)
(* The configuration of an agent: Configurator (rest/riot_conf.cc), the    *)
(* handlers that change it (agents() and agent() of                        *)
(* services/admin_service.cc), the searches of RestHandle for a service    *)
(* (rest/rest_handle.cc: the database first, the configuration next), and  *)
(* the file of devices (util/dev_file.cc) of agents without a database.    *)
(*                                                                         *)
(* At this commit no URL leads to agents() and agent(): the lines of       *)
(* add_common_urls() that give them one are commented out, and only the    *)
(* tests of the agent still do.  They are modelled as they are written.    *)
(*                                                                         *)
(* A text is what a file or a request may hold.  The names of services,    *)
(* paths and resources are numbers, in the order of the keys of the maps;  *)
(* 0 is the empty string and path 1 is "/".  A Resource object in memory   *)
(* has an id: which load made it.                                          *)
(***************************************************************************)
EXTENDS Integers, Sequences, FiniteSets, FiniteSetsExt, SequencesExt

CONSTANTS
  CThreads,     \* threads, each with one request
  Texts,        \* configurations a POST may carry
  PutTexts,     \* resources a PUT may carry
  Asks,         \* searches
  Stored,       \* documents of SERVICE_TABLE, in the order of a find
  Storages,     \* subset of {"mongodb", "file"}
  FirstTexts,   \* what the file may hold at the start
  DeviceFiles,  \* what the file of devices may hold
  MaxCached     \* types::MAX_SIZE_CACHE

Plugin == 1     \* get_resource() of the plugin that searches
NoText == [parses |-> FALSE]
NoRoot == "none"
Nobody == "nobody"

ASSUME ConfigurationAssumption == Nobody \notin CThreads

VARIABLES
  cfile,      \* the text of the file
  root,       \* _root_fields
  resources,  \* _resources: by name
  document,   \* _document: a text, NoText when null
  sm,         \* AdminService::m_sm
  mutex,      \* Configurator::m_mutex
  docMutex,   \* Configurator::m_mutex_document
  nextId,     \* ids of Resource objects
  storage,    \* _storage_type
  cached,     \* registeredDevices of an agent with a file of devices
  cthread     \* what each thread is doing

confVars == <<cfile, root, resources, document, sm, mutex, docMutex, nextId,
              storage, cached, cthread>>

----------------------------------------------------------------------------
(* check_service(): the six fields are there and strings. *)
CheckService(s) == s.good

(* check_resource(): every service is checked, and the error of one is the *)
(* error of the resource.                                                  *)
CheckResource(r) ==
  r.object /\ r.name # 0 /\ \A i \in DOMAIN r.services : CheckService(r.services[i])

ServiceKey(s) == <<s.service, s.path>>

(* Resource::add_service(): the first one of a key stays. *)
ServiceMap(services) ==
  [k \in {ServiceKey(s) : s \in Range(services)} |->
     services[Min({i \in DOMAIN services : ServiceKey(services[i]) = k})]]

ResourceObject(r, id) == [id |-> id, services |-> ServiceMap(r.services)]

Known(name) == name \in DOMAIN resources

AddResourcesAnew(rs, list, id) ==
  [n \in DOMAIN rs \cup {r.name : r \in Range(list)} |->
     IF n \notin {r.name : r \in Range(list)} THEN rs[n]
     ELSE ResourceObject(list[Min({i \in DOMAIN list : list[i].name = n})], id)]

(* add_resource(resource): insert() keeps the object that is there. *)
AddResources(rs, list, id) ==
  [n \in DOMAIN rs \cup {r.name : r \in Range(list)} |->
     IF n \in DOMAIN rs THEN rs[n]
     ELSE ResourceObject(list[Min({i \in DOMAIN list : list[i].name = n})], id)]

Resources(text) == SelectSeq(text.resources, CheckResource)

Refused(text) ==
  ~text.parses \/ ~text.object \/ ~text.array \/ Resources(text) # text.resources

(* check_configuration_json(): the fields and the good resources are taken *)
(* over before it is known whether the whole is.                           *)
TakeOver(text) ==
  /\ root' = IF text.object THEN text.root ELSE root
  /\ resources' = IF text.object /\ text.array
                  THEN AddResources(resources, Resources(text), nextId) ELSE resources
  /\ nextId' = nextId + 1

(* Resource::get_value() and getAll(): the text of what is in memory. *)
Before(k, l) == k[1] < l[1] \/ (k[1] = l[1] /\ k[2] < l[2])
ResourceText(name, r) ==
  LET keys == SetToSortSeq(DOMAIN r.services, Before)
  IN  [object |-> TRUE, name |-> name, services |-> [i \in DOMAIN keys |-> r.services[keys[i]]]]
TextOf(rt, rs) ==
  LET names == SetToSortSeq(DOMAIN rs, <)
  IN  [parses |-> TRUE, object |-> TRUE, root |-> rt, array |-> TRUE,
       resources |-> [i \in DOMAIN names |-> ResourceText(names[i], rs[names[i]])]]

----------------------------------------------------------------------------
(* init(): what a file gives an agent that starts. *)
Loaded(text, rt, rs) ==
  IF text.parses /\ text.object
  THEN /\ rt = text.root
       /\ rs = IF text.array THEN AddResources(<<>>, Resources(text), 0) ELSE <<>>
  ELSE rt = NoRoot /\ rs = <<>>

(* DevicesFile::parse_to_cache(): a device that cannot be read ends it; a  *)
(* full cache takes no more, and a second one of a key changes nothing.    *)
DeviceKey(d) == <<d.name, d.service, d.path>>
FromFile(d) == [name |-> d.name, service |-> d.service,
                path |-> IF d.path = 0 THEN 1 ELSE d.path, active |-> d.active]
Readable(ds) == SelectInSeq(ds, LAMBDA d : ~d.good)
ParseToCache(ds) ==
  LET some == IF Readable(ds) = 0 THEN ds ELSE SubSeq(ds, 1, Readable(ds) - 1)
      item == [i \in DOMAIN some |-> FromFile(some[i])]
      Is(i) == \A j \in 1..(i - 1) : DeviceKey(item[j]) # DeviceKey(item[i])
      New(i) == {j \in 1..i : Is(j)}
  IN  {item[i] : i \in {j \in DOMAIN item : Is(j) /\ Cardinality(New(j)) <= MaxCached}}

NoThread == [op |-> "none", pc |-> "idle", text |-> NoText, error |-> FALSE, again |-> FALSE,
             ask |-> <<>>, broker |-> "", ref |-> <<>>, ans |-> <<>>]

(* DevicesFile::init(): a file that is missing, or is not JSON, gives an   *)
(* empty cache.                                                            *)
DevicesAtStart == {{}} \cup {ParseToCache(ds) : ds \in DeviceFiles}

(* The constructor of RestHandle: the file of devices only without mongodb. *)
ConfInit(pc) ==
  /\ cfile \in FirstTexts
  /\ Loaded(cfile, root, resources)
  /\ document = IF Refused(cfile) THEN NoText ELSE cfile
  /\ sm = Nobody /\ mutex = Nobody /\ docMutex = Nobody
  /\ nextId = 1
  /\ storage \in Storages
  /\ \/ storage = "mongodb" /\ cached = {}
     \/ storage = "file" /\ cached \in DevicesAtStart
  /\ cthread = [t \in CThreads |-> [NoThread EXCEPT !.pc = pc]]

Goto(t, pc) == cthread' = [cthread EXCEPT ![t].pc = pc]
Begin(t, op, pc, text) ==
  cthread' = [cthread EXCEPT ![t] = [NoThread EXCEPT !.op = op, !.pc = pc, !.text = text]]
AnswerWith(t, ans) == cthread' = [cthread EXCEPT ![t].pc = "done", ![t].ans = ans]

(* agents(), POST, and conf_global_adm() *)
AgentsPost(t, text) ==
  /\ cthread[t].pc = "idle" /\ sm = Nobody
  /\ sm' = t
  /\ Begin(t, "post", "update", text)
  /\ UNCHANGED <<cfile, root, resources, document, mutex, docMutex, nextId, storage, cached>>

(* agent(), PUT, and add_resource(name, json): get_service() has had m_sm. *)
(* The text names its resource itself or is given the name of the URL.     *)
AgentPut(t, name, text) ==
  LET named == [text EXCEPT !.name = IF @ = 0 THEN name ELSE @]
      rest == [n \in DOMAIN resources \ {name} |-> resources[n]]
  IN  /\ cthread[t].pc = "idle" /\ sm = Nobody /\ docMutex = Nobody
      /\ IF ~text.parses \/ ~CheckResource(named)
         THEN /\ cthread' = [cthread EXCEPT ![t].op = "put", ![t].pc = "done", ![t].ans = <<"refused">>]
              /\ UNCHANGED <<resources, document, docMutex, nextId>>
         ELSE /\ resources' = AddResources(rest, <<named>>, nextId)
              /\ nextId' = nextId + 1
              /\ document' = TextOf(root, resources')
              /\ docMutex' = t
              /\ Begin(t, "put", "update", document')
      /\ UNCHANGED <<cfile, root, sm, mutex, storage, cached>>

(* update_conf() takes m_mutex; a thread of a PUT already holds the other. *)
UpdateConf(t) ==
  /\ cthread[t].pc = "update" /\ mutex = Nobody
  /\ mutex' = t
  /\ Goto(t, "read")
  /\ UNCHANGED <<cfile, root, resources, document, sm, docMutex, nextId, storage, cached>>

(* read_file(), up to the end of check_configuration_json(). *)
ReadFile(t) ==
  LET text == cthread[t].text
      bad == Refused(text)
  IN  /\ cthread[t].pc = "read"
      /\ IF text.parses
         THEN docMutex \in {Nobody, t} /\ TakeOver(text)
         ELSE UNCHANGED <<root, resources, nextId>>
      /\ cthread' = [cthread EXCEPT
           ![t].error = @ \/ bad,
           ![t].pc = IF text.parses THEN "document"
                     ELSE IF cthread[t].again THEN "end" ELSE "reload"]
      /\ UNCHANGED <<cfile, document, sm, mutex, docMutex, storage, cached>>

(* read_file(), the rest, without m_mutex_document; then write() or        *)
(* reload().                                                               *)
SetDocument(t) ==
  LET th == cthread[t]
      bad == Refused(th.text)
  IN  /\ th.pc = "document"
      /\ document' = IF bad THEN NoText ELSE th.text
      /\ Goto(t, IF th.again THEN "end" ELSE IF bad THEN "reload" ELSE "write")
      /\ UNCHANGED <<cfile, root, resources, sm, mutex, docMutex, nextId, storage, cached>>

WriteConf(t) ==
  /\ cthread[t].pc = "write"
  /\ cfile' = document
  /\ Goto(t, "end")
  /\ UNCHANGED <<root, resources, document, sm, mutex, docMutex, nextId, storage, cached>>

ReloadNot(t) ==
  /\ cthread[t].pc = "reload"
  /\ Goto(t, "end")
  /\ UNCHANGED <<cfile, root, resources, document, sm, mutex, docMutex, nextId, storage, cached>>

Reload(t) ==
  /\ cthread[t].pc = "reload"
  /\ cthread' = [cthread EXCEPT ![t].text = cfile, ![t].again = TRUE, ![t].pc = "read"]
  /\ UNCHANGED <<cfile, root, resources, document, sm, mutex, docMutex, nextId, storage, cached>>

EndUpdateKeeps(t) ==
  /\ cthread[t].pc = "end"
  /\ mutex' = Nobody
  /\ sm' = IF sm = t THEN Nobody ELSE sm
  /\ AnswerWith(t, IF cthread[t].error /\ cthread[t].op = "post" THEN <<"refused">> ELSE <<"ok">>)
  /\ UNCHANGED <<cfile, root, resources, document, docMutex, nextId, storage, cached>>

EndUpdate(t) ==
  /\ cthread[t].pc = "end"
  /\ mutex' = Nobody
  /\ sm' = IF sm = t THEN Nobody ELSE sm
  /\ docMutex' = IF docMutex = t THEN Nobody ELSE docMutex
  /\ AnswerWith(t, IF cthread[t].error /\ cthread[t].op = "post" THEN <<"refused">> ELSE <<"ok">>)
  /\ UNCHANGED <<cfile, root, resources, document, nextId, storage, cached>>

(* agents() and agent(), GET: getAll() makes a document if there is none;  *)
(* getResource() needs none.                                               *)
AgentsGet(t) ==
  /\ cthread[t].pc = "idle" /\ sm = Nobody /\ docMutex = Nobody
  /\ document' = IF document = NoText THEN TextOf(root, resources) ELSE document
  /\ cthread' = [cthread EXCEPT ![t].op = "get", ![t].pc = "done", ![t].ans = <<"ok", document'>>]
  /\ UNCHANGED <<cfile, root, resources, sm, mutex, docMutex, nextId, storage, cached>>

AgentGet(t, name) ==
  /\ cthread[t].pc = "idle" /\ sm = Nobody /\ docMutex = Nobody
  /\ cthread' = [cthread EXCEPT ![t].op = "get", ![t].pc = "done",
       ![t].ans = IF Known(name) THEN <<"ok", ResourceText(name, resources[name])>> ELSE <<"not found">>]
  /\ UNCHANGED <<cfile, root, resources, document, sm, mutex, docMutex, nextId, storage, cached>>

----------------------------------------------------------------------------
(* A search by name and path, by name only (path 0) or by API key. *)
Suits(s, ask) ==
  IF ask.by = "name" THEN s.service = ask.service /\ ask.path \in {0, s.path}
  ELSE s.apikey = ask.apikey

(* get(field), and get_default_context_broker(): the field names a broker. *)
Field(rt) == rt
DefaultBroker == IF root = NoRoot THEN "" ELSE Field(root)

(* fill_service_with_bson() and the end of the searches in the file: what  *)
(* the service lacks is taken from the first level of the configuration    *)
(* (the broker stands for the timeout too).                                *)
FillService(s, default) ==
  [service |-> s.service, path |-> s.path, apikey |-> s.apikey,
   cbroker |-> IF s.cbroker = "" THEN default ELSE s.cbroker]

(* get_service_by_name_bbdd(), get_service_by_apiKey_bbdd(): the first one *)
(* is taken, of however many; an error of the database is not a no.        *)
SearchService(t, ask) ==
  LET Fits(i) == Suits(Stored[i], ask)
  IN  /\ cthread[t].pc = "idle" /\ ask.by # "device" /\ docMutex = Nobody
      /\ \/ storage = "mongodb"
            /\ \E i \in DOMAIN Stored :
                 /\ Fits(i) /\ \A j \in 1..(i - 1) : ~Fits(j)
                 /\ cthread' = [cthread EXCEPT ![t].op = "search", ![t].ask = ask, ![t].pc = "done",
                      ![t].ans = <<"database", FillService(Stored[i], DefaultBroker)>>]
         \/ storage = "mongodb"
            /\ cthread' = [cthread EXCEPT ![t].op = "search", ![t].ask = ask, ![t].pc = "done",
                                          ![t].ans = <<"exception">>]
         \/ (storage = "file" \/ \A i \in DOMAIN Stored : ~Fits(i))
            /\ cthread' = [cthread EXCEPT ![t].op = "search", ![t].ask = ask, ![t].pc = "lookup",
                                          ![t].broker = DefaultBroker]
      /\ UNCHANGED <<cfile, root, resources, document, sm, mutex, docMutex, nextId, storage, cached>>

(* Resource::get_service_by_apikey() takes the first one of the map,       *)
(* get_service(service, path) the one of the key, and get_service(service) *)
(* the only one there is.                                                  *)
SuitingKeys(ask) ==
  {k \in DOMAIN resources[Plugin].services : Suits(resources[Plugin].services[k], ask)}
ByApiKey(ask) == SuitingKeys(ask)
ByNameAndPath(ask) == SuitingKeys(ask)
ByNameOnly(ask) == IF Cardinality(SuitingKeys(ask)) > 1 THEN {} ELSE SuitingKeys(ask)

(* getService(), getServicebyApiKey(): a reference to the service, taken   *)
(* under m_mutex_document.                                                 *)
LookupService(t) ==
  LET ask == cthread[t].ask
      keys == IF ~Known(Plugin) THEN {}
              ELSE IF ask.by = "apikey" THEN ByApiKey(ask)
              ELSE IF ask.path = 0 THEN ByNameOnly(ask) ELSE ByNameAndPath(ask)
  IN  /\ cthread[t].pc = "lookup" /\ docMutex = Nobody
      /\ \/ keys = {} /\ AnswerWith(t, <<"exception">>)
         \/ \E k \in keys :
              /\ \A l \in keys \ {k} : Before(k, l)
              /\ cthread' = [cthread EXCEPT ![t].pc = "use",
                   ![t].ref = <<resources[Plugin].id, resources[Plugin].services[k]>>]
      /\ UNCHANGED <<cfile, root, resources, document, sm, mutex, docMutex, nextId, storage, cached>>

(* get_service_by_name_file(), get_service_by_apiKey_file(): the object is *)
(* read after the lock is gone.                                            *)
Lives(id) == Known(Plugin) /\ resources[Plugin].id = id
UseService(t) ==
  LET ref == cthread[t].ref
  IN  /\ cthread[t].pc = "use"
      /\ AnswerWith(t, IF Lives(ref[1]) THEN <<"file", FillService(ref[2], cthread[t].broker)>> ELSE <<"garbage">>)
      /\ UNCHANGED <<cfile, root, resources, document, sm, mutex, docMutex, nextId, storage, cached>>

(* get_device_empty_service_path() and getAllServicePath(): the paths the  *)
(* configuration has for the service, in the order of the map.             *)
Matching(name, service, path) ==
  {d \in cached : DeviceKey(d) = <<name, service, path>>}
FirstPath(ask) ==
  LET paths == {k[2] : k \in {l \in DOMAIN resources[Plugin].services : l[1] = ask.service}}
      with == {p \in paths : Matching(ask.name, ask.service, p) # {}}
  IN  IF with = {} THEN {} ELSE Matching(ask.name, ask.service, Min(with))

(* get_device() of an agent with a file of devices: a null pointer when    *)
(* there is none, an exception when it is not active or the plugin has no  *)
(* configuration.                                                          *)
GetFileDevice(t, ask) ==
  LET all == ask.path = 0 /\ ask.service # 0
      found == IF all THEN IF Known(Plugin) THEN FirstPath(ask) ELSE {}
               ELSE IF ask.service = 0 THEN {d \in cached : d.name = ask.name}
               ELSE Matching(ask.name, ask.service, ask.path)
  IN  /\ cthread[t].pc = "idle" /\ ask.by = "device" /\ storage = "file"
      /\ all => docMutex = Nobody
      /\ \E ans \in IF all /\ ~Known(Plugin) THEN {<<"exception">>}
                    ELSE IF found = {} THEN {<<"null">>}
                    ELSE {IF d.active THEN <<"device", d>> ELSE <<"exception">> : d \in found} :
           cthread' = [cthread EXCEPT ![t].op = "device", ![t].ask = ask, ![t].pc = "done",
                                      ![t].ans = ans]
      /\ UNCHANGED <<cfile, root, resources, document, sm, mutex, docMutex, nextId, storage, cached>>

ConfNext ==
  \E t \in CThreads :
    \/ \E text \in Texts : AgentsPost(t, text)
    \/ \E name \in {1, 2}, text \in PutTexts : AgentPut(t, name, text)
    \/ \E name \in {1, 2} : AgentGet(t, name)
    \/ \E ask \in Asks : SearchService(t, ask) \/ GetFileDevice(t, ask)
    \/ AgentsGet(t) \/ UpdateConf(t) \/ ReadFile(t) \/ SetDocument(t) \/ WriteConf(t)
    \/ Reload(t) \/ EndUpdate(t) \/ LookupService(t) \/ UseService(t)

----------------------------------------------------------------------------
(* When no change is under way and the file can be loaded, the agent runs  *)
(* on what it holds: the fields and the document are those of the file and *)
(* every resource of it is there, also after a configuration that was      *)
(* refused, for which parts had already been taken over (update_conf(),    *)
(* read_file()).  What a resource holds may still be older.                *)
FileIsInForce ==
  mutex = Nobody /\ docMutex = Nobody /\ ~Refused(cfile) =>
    /\ root = cfile.root /\ document = cfile
    /\ {r.name : r \in Range(cfile.resources)} \subseteq DOMAIN resources

(* A search gets what it asked for: the database before the configuration, *)
(* which is used only when the database has none, and without a path only  *)
(* when there is no doubt; and the service it reads after the lock is      *)
(* there, unless a PUT of the plugin's resource came between               *)
(* (rest_handle.cc, riot_conf.cc).  A device of the file is active and the *)
(* one asked for; without a service only the name counts.                  *)
SearchIsTruthful ==
  \A t \in CThreads :
    LET ask == cthread[t].ask
        ans == cthread[t].ans
        one == ans # <<>> /\ cthread[t].pc = "done"
    IN  /\ one /\ ans[1] \in {"database", "file"} => Suits(ans[2], ask)
        /\ one /\ ans[1] = "file" /\ storage = "mongodb" =>
             \A i \in DOMAIN Stored : ~Suits(Stored[i], ask)
        /\ one /\ ans[1] = "garbage" => \E u \in CThreads : cthread[u].op = "put"
        /\ one /\ ans[1] = "device" =>
             /\ ans[2].active /\ ans[2].name = ask.name
             /\ ask.service # 0 => /\ ans[2].service = ask.service
                                   /\ ask.path \in {0, ans[2].path}

(* Updates wait for one another and end, but for one case: a POST has      *)
(* m_mutex and wants m_mutex_document, a PUT has that one and wants        *)
(* m_mutex (update_conf() and add_resource() take them in opposite order). *)
(* Who waits so waits only while agents() and agent() have their URLs.     *)
Moves(t) ==
  \/ cthread[t].pc = "update" /\ mutex = Nobody
  \/ cthread[t].pc = "read" /\ docMutex \in {Nobody, t}
  \/ cthread[t].pc \in {"document", "write", "reload", "end"}
OnlyInversionBlocks ==
  mutex # Nobody =>
    Moves(mutex) \/ (docMutex \notin {Nobody, mutex} /\ cthread[docMutex].pc = "update")

(* The file is what the agent works with, its searches find what is there, *)
(* and they are not kept from it.                                          *)
ConfigurationServes == FileIsInForce /\ SearchIsTruthful /\ OnlyInversionBlocks
=============================================================================
