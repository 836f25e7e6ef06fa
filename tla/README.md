# A verification development for the FIWARE IoT Agent (C++)

TLA+ modules that model the agent's own logic, TLC runs that check them on
small instances, and TLAPS proofs of the results that matter most. The
program's code is under `src/` of the repository and paths below are relative
to it: `rest/command_handle.cc` is `src/rest/command_handle.cc`. (Paths in
`PROJECT.json` have the checkout, `src/`, in front.) `doc/` is the repository's
`doc/`.

## 1. The system

An IoT Agent stands between devices (Ultralight, MQTT, Thinking Things, Modbus)
and a FIWARE Context Broker. Measures of devices become NGSI `updateContext`
requests; attributes that a user writes on a device entity become *commands*
that the agent keeps until the device reads them, answers them or lets them
expire. Several agents may share one MongoDB (High Availability). An agent
started as IoT Agent Manager forwards provisioning to the agents that
registered with it.

| Component | State it keeps | Operations | Interacts with |
| --- | --- | --- | --- |
| Commands: `rest/command_handle.*`, `util/command_cache.*`, `util/timer.h` | COMMAND collection, cache with one timer per command and one mutex, registrations | updateContext, save_command, get_all_command, remove_command, process_command_response, timeout_f, queryContext, make_registrations | plugins, `Collection`, `ContextBrokerCommunicator` |
| HTTP client: `util/http_client.*` | connection, timer, callback, pending operation | send, async_send, and the handlers of connection and timer | everything that speaks HTTP |
| Context Broker and identity manager: `rest/iot_cb_comm.*`, `util/oauth_comm.*` | tokens, retry counter | send, async_send, receive_event, the chain of validation | both services |
| Filters: `rest/oauth_filter.cc`, `rest/media_filter.cc`, `util/access_control.cc` | requests that wait for a verdict | filter, validation, role, access control | `RestHandle` |
| Front end: `rest/rest_handle.*`, `rest/iot_statistic.cc` | filters, URLs, counters, registration in the Manager | handle_request, get_device, get_service_by_*, register_iota_manager, get_statistics | all services |
| Provisioning: `services/admin_service.cc`, `util/*_collection.cc`, `util/cache.*` | SERVICE and DEVICE collections, device caches of the plugins | POST, PUT, DELETE, GET of services and devices | caches, registrations, database |
| Manager: `services/admin_mgmt_service.cc` | PROTOCOL and SERVICE_MGMT collections | registration of agents, fan-out of requests, pages of devices | agents, over HTTP |
| Database access: `util/collection.cc`, `util/mongo_connection.cc` | pool of connections, alarm | insert, update, remove, find with retries; conn, done, reconnect | MongoDB |
| Configuration: `rest/riot_conf.cc`, `util/dev_file.cc` | the document, its resources and services, two mutexes | read, update, add_resource, searches | front end, provisioning |
| Start: `app/main.cc`, `rest/process.cc` | servers, plugins | load, start, shutdown | plugins |
| Ultralight: `ultra_light/` | none beside the device | measures, polls, results | commands, Context Broker |
| MQTT: `mqtt/`, `esp/` | sensor, runners, wrappers, broker session | parse, publish, subscribe, execute a command, stop | broker, commands |
| Modbus: `modbus/`, `rest/tcp_service.*` | buffers of connections, operations and labels | frame, complete, judge an answer; read the file | gateways |
| Thinking Things: `thinkingthings/`, `esp/plugins/postprocessor_tt/` | one postprocessor for all threads | transform, query, answer, publish | Context Broker |
| NGSI classes: `ngsi/` | none (values) | naming, mapping, static attributes | all |

What is hard here: four kinds of threads act on one command (the request of the
Context Broker, a poll, a result, a timer) and each takes the cache mutex and
the database in several steps; agents share the database and not the caches;
timers cannot be recalled once expired; any database operation may fail, or may
fail after it was done, between two steps; an agent may die; callbacks race
timeouts; provisioning changes documents that plugins have cached and that the
registration thread works on; the Manager's fan-out fails in part; the MQTT
plugin has threads for every input, message and command that share unlocked
maps; devices speak in pieces and in forms the parsers were not written for.
`PROJECT.json` lists the hazards at the lines where they bite.

What makes it correct: a command is delivered, ends once and is abandoned by
nobody; an HTTP request is concluded exactly once; a send to the Context Broker
ends, is retried at most once and keeps credentials where they belong; a
request reaches its handler only past every filter; cached devices follow the
provisioned ones and their registrations stay in force; the answer to a fan-out
says what each agent did; an agent becomes known to the Manager in the end;
connections of the database belong to one user; a message of a device becomes
one whole update of its own entity or nothing.

## 2. Modules

| Module | Models | Proofs |
| --- | --- | --- |
| `CommandCache` | `util/command_cache.*`, `util/command.*`, `util/timer.h`: operators on the heap of command objects | in `CommandHandleProofs` |
| `CommandHandle` (extends it) | `rest/command_handle.cc`, the COMMAND collection, results of devices | `CommandHandleProofs` |
| `CommandLife` | abstract: the life of a command as a cluster promises it | |
| `HttpOutcome`, `HttpExchange` | abstract: what the sender of a request may count on | |
| `HttpClient` | `util/http_client.cc` | `HttpClientProofs` |
| `ContextBroker` (extends `HttpOutcome`) | `rest/iot_cb_comm.cc`, trust tokens of `util/oauth_comm.cc`, `util/alarm.cc` | `PeersProofs` |
| `PepFilter` | filters of `rest/`, the PEP side of `util/oauth_comm.cc`, `util/access_control.cc` | `PepFilterProofs` |
| `DeviceCache` | `util/cache.*`: copies, timers, capacity | |
| `Provisioning` (extends it) | devices of `services/admin_service.cc`, registrations of `rest/command_handle.cc`, at several agents | `ProvisioningProofs` |
| `ServiceRequests` | services of `services/admin_service.cc`, headers and URLs | in `NorthboundProofs` |
| `DevicePages` | GET devices of the Manager | in `NorthboundProofs` |
| `ManagerRequests` (extends it) | the fan-out of `services/admin_mgmt_service.cc` | `NorthboundProofs` |
| `AgentRegistration` | `register_iota_manager`, its retries, and `post_protocol_json` of the Manager | in `PeersProofs` |
| `Configuration` | `rest/riot_conf.cc`, `util/dev_file.cc`, searches for services and devices | in `NorthboundProofs` |
| `Database` | `util/collection.cc`, `util/mongo_connection.cc`, the database alarm | in `NorthboundProofs` |
| `Statistics` | `rest/iot_statistic.cc` and who counts and reports | in `NorthboundProofs` |
| `AgentStart` | `app/main.cc`, `rest/process.cc` | in `NorthboundProofs` |
| `NgsiRequests` | updateContext and queryContext, templates of commands, search for the device | `DevicesProofs` |
| `UlText`, `Ultralight` | `ultra_light/`, naming and mapping of `ngsi/ContextElement.cc` | in `DevicesProofs` |
| `EspParser` | the interpreter of tags of `esp/` on `mqtt/config/sensormqtt.xml`, JSON postprocessors, publication | |
| `MqttSession` | threads, wrappers and runners of the MQTT plugin | `MqttSessionProofs` |
| `SensorFile` | start of the MQTT plugin: the sensor made of its file | in `DevicesProofs` |
| `Modbus` | `modbus/`, `rest/tcp_service.cc` | in `MqttSessionProofs` |
| `OperationFile` | the file of operations of the Modbus plugin | in `DevicesProofs` |
| `PluginFiles` (extends it and `SensorFile`) | the files of both plugins side by side | in `DevicesProofs` |
| `ThinkingThings` | `thinkingthings/`, `postprocessor_tt/`, `util/TTCBPublisher.cc` | in `DevicesProofs` |
| `Arranged` | what a loop over a map or a list makes: sets in order, parts of sequences, texts joined and read from place to place | in `DevicesProofs` |
| `MC...` | values of constants, and the next-state relation where several modules share a run | |

The comment at the head of each module says what its state stands for and what
it abstracts; `PROJECT.json` maps every definition to its lines. The ideas:

**Commands.** `heap` holds the `Command` objects of all agents with what
`shared_ptr` and the timer know of them; `Collect` destroys what nothing refers
to. `mongo` is the COMMAND collection, `req`, `poll`, `ans` the threads of
updateContext, poll and result, `lock` the timeout handler that holds the cache
mutex of an agent. `handed` and `expiry` are history. One action is one critical
section of the cache mutex or one database operation; `timeout_f` keeps the
mutex from its check to its removal while the threads of *other* agents run. A
failing database operation is a disjunct of the action that makes it
(`DbFails`); `Crash` takes away what an agent has in memory.

**HTTP, Context Broker, filters.** `HttpClient` is one exchange of either kind of
client; handlers run one at a time but are queued in any order, and cancelling
does not reach what is queued. `ContextBroker` has any number of sends, which
share alarms; `PepFilter` any number of requests, which share the tables of the
filters.

**Provisioning.** A request runs in a worker of its agent, one database operation
or exchange with the Context Broker per step, while plugins read devices into
their caches, cache timers elapse and are handled late, the registration thread
goes over all devices without the mutex the requests hold, and registrations
expire in the Context Broker. The version of a document tells an old copy from
the present one.

**Services, Manager, configuration, database, counters, start.** In
`ServiceRequests`, POST inserts one service at a time and DELETE counts,
removes and then removes devices, in separate steps. `ManagerRequests` sends
every item to every agent of its protocol, each of which may fail, and
`AgentRegistration` follows an agent's services into the Manager's two
collections over failures of exchange and database and restarts elsewhere.
`Configuration` has the two mutexes and the threads that take them.
`Database` lets every call of the driver end with each of its exceptions, also
after a write was done, under the real handlers and retries. `Statistics` has
the search and the insertion of an hour as separate steps without a lock.
`AgentStart` loads lists of resources with all that can be wrong with each.

**Devices.** The protocol modules are parsers and translators: texts are
sequences of separators and words (of bytes, for Modbus), an action is what the
code does with one of them, and the state is what the code keeps in between:
tags still to run, pieces of a frame, results of the shared postprocessor,
entries read so far. `MqttSession` has the threads.

**How they compose.** `HttpClient` implements `HttpExchange` with the outcomes of
`HttpOutcome`; `ContextBroker` takes these outcomes and `HttpExchange`'s
liveness as its environment, and so do `PepFilter`, `Provisioning` and
`AgentRegistration`. `CommandHandle` takes from `ContextBroker` that
`updateContext` is fire and forget, and from `NgsiRequests` the commands.
`EspParser` is what a runner of `MqttSession` does with its message, on the
sensor `SensorFile` makes; its results end in `ResultRemoveMongo` of
`CommandHandle`. `Database` is where the failures come from that
`CommandHandle`, `ServiceRequests` and `AgentRegistration` allow.

## 3. Runs

| Run | Instance | Shows |
| --- | --- | --- |
| `command_ha` | two agents, one command, two polls, one result, timers; fair | `NothingForgotten`: what is cached has a timer, and somebody stays responsible for what is stored; `LifeCycleFair`: it is closed in the end |
| `command_failures` | two agents, one pushed command that may also be polled, cache of one entry, a database failure, a crash, racing `save_command` | `OneExpiry`, `LifeCycle` (refinement of `CommandLife`), `TypeOK` |
| `command_races` | one agent, a pushed and a polled command, cache of one entry, a failure, a crash | `CopiesAreTrue`: marked before handed, one copy per agent |
| `http_exchange` | one request, both kinds of client, with and without proxy; fair | `ExchangeSafe`, `ExchangeLive` (refinement of `HttpExchange`) |
| `peers_requests` | one of the two peers of an agent in each behaviour: a synchronous and an asynchronous send to the Context Broker with trust tokens; or a registration in the Manager of an agent with one service and two addresses, three events, two posts under way; fair | `TrustPrivate`, `RetryDiscipline`, `CallerTold`, `SendsEnd`, `RegistrationHolds`, `AlarmEnds` |
| `pep_chain` | two requests, five shapes, both filters; fair | `Admitted`, `EntriesMatch`, `Answered` |
| `provisioning_api` | two agents, two workers, two requests, two reads, a cache of one device; fair timers | `DevicesInOrder`: local changes seen, copies timed, settled devices registered; `StaleDropped` |
| `provisioning_renew` | one agent, its registration thread, one request, one failing exchange, expiring registrations; fair | `RequestsAnswered`, `RegisteredAgain` |
| `northbound` | parts side by side: three agents with up to three devices under the Manager; three threads on the configuration; two threads of requests about services; two of the database with a pool of one; two that count; resources to load | `PagesFit`, `AnswersAreTrue`, `ConfigurationServes`, `ChangesAreOwn`, `ConnectionIsOwn`, `ReportIsTrue`, `CountersKept`, `GoodResourcesServe` |
| `protocols` | parts side by side: all short messages of each protocol, requests of the Context Broker, files | `AnswersAreOwn`, `ApplicationsValueStands`, `CommandsAsAsked`, `MessageBecomesUpdate`, `MessageAsDocumented`, `AnswerJudged`, `FilesAsWritten` |
| `mqtt_single` | the instance of `protocols`; a violation | `SingleMeasurePublished`, which the documentation promises and the sensor file does not keep (item 25 of section 6) |
| `mqtt_threads` | two inputs, a command, two messages, a broken connection, a stop; fair | `MessagesOnce`, `StopIsClean`, `SubscribedAgain`, `CommandAnswered` |

In `peers_requests`, `northbound` and `protocols` a behaviour is one of a single
part, chosen in the initial state: the parts share no state in the program
either, and one run for them keeps the list of runs to the questions asked.

**Properties in parts.** Several properties are conjunctions of named parts, each
with its comment in the module: `NothingForgotten` (`CachedIsTimed`, `NoOrphan`),
`CopiesAreTrue` (`MarkedBeforeHanded`, `CacheConsistent`), `DevicesInOrder`
(`LocalChangesSeen`, `DeviceIsTimed`, `SettledIsRegistered`), `PagesFit`
(`PageIsPrefix`, `PageIsComplete`), `AnswersAreTrue` (`AnswerIsTruthful`,
`ErrorsAreComplete`), `ConfigurationServes` (`FileIsInForce`,
`SearchIsTruthful`, `OnlyInversionBlocks`), `ChangesAreOwn` (`WithinItsScope`,
`RefusedChangesNothing`, `DevicesFollowServices`), `ConnectionIsOwn`
(`UsedByOne`, `NoneLost`), `CountersKept` (`OnlyMeetingHurts`, `HoursKept`),
`RegistrationHolds` (`SettledIsSynced`, `AlarmIsFollowedUp`),
`MessageBecomesUpdate` (`WholeMessageOrNothing`, `OneEntity`),
`MessageAsDocumented` (`DocumentedIsTaken`, `UnderItsOwnTopic`), `AnswerJudged`
(`FrameIsProtected`, `GoodAnswerAccepted`, `NothingFalseAccepted`,
`BufferReleased`), `AnswersAreOwn` (`DeviceIsToldDesired`, `OwnUnlessMet`,
`PublishedWasSent`),
`CommandsAsAsked` (`CommandsAnswered`, `CommandAsProvisioned`),
`FilesAsWritten` (`LabelsFitRegisters`, `RunsAsWritten`, `RunnersServed`),
`MessagesOnce` (`HandedOnce`, `TakenInOrder`), `StopIsClean` (`StoppedIsQuiet`,
`OnlyStopHurts`). Where the code has a known gap (section 6), the part says
exactly when it holds: `OnlyInversionBlocks` that threads block each other only
by the one inversion of the two mutexes, `OnlyMeetingHurts` that a counter is
damaged only when two threads open an hour together, `OnlyStopHurts` that a
wrapper is used after its deletion only while the sensor stops, `OwnUnlessMet`
that a Thinking Things device has another's module published in its name only at
the very module where two threads were at the postprocessor together. That the
code does have these gaps is not a claim of a passing run; the one gap that
contradicts the documentation in so many words has its violation run,
`mqtt_single`. `UnderItsOwnTopic` says of the topics of MQTT only what it can:
from a topic of several levels nothing is published under another key or
device, and the single measures the documentation promises are the subject of
`SingleMeasurePublished` alone.

**Bounds.** `Reqs`, `Polls`, `Answers`, `MaxFaults`, `MaxCrashes`, `MaxRequests`,
`MaxReads`, `MaxFailures`, `MaxEvents`, `MaxPosts`, `MaxAttempts`, `MaxDocs`,
`MaxCopies`, `MaxClock`, `MaxMessages`, `MaxDesired` and `Bounds` bound how often
something is asked, fails, dies or is sent; `Obj`, `Conns`, `RegIds` the objects
there can be. Two agents are enough for a disagreement between a cache and the
shared collection, since a check compares one copy with one document; two
commands for the index and the capacity of the cache (1 where the full cache
matters); three objects let a copy be reloaded while a queued timeout holds an
old one. Three agents with up to three devices give the Manager a page that
begins in one agent, covers one and ends in the next. Three threads are the
least for a deadlock of two with an observer. A pool of one with two threads has
a full and an empty pool, and a third connection a replaced one. Two hours with a
clock of four let hours be dropped. Contents are all sequences over the symbols
a parser tells apart, long enough for two measures with a separator too many
(Ultralight: 5 symbols of five kinds, 7 of three; MQTT: topics of 7, payloads of
5 and 6; Modbus: one or two registers, all divisions of the frames, and in turn
every byte damaged by each of `Changes`: its lowest bit, its highest bit, all of
it). Deviations of a request from the ordinary one are taken one at a time
where the code stops at the first.

`SaveRaces` FALSE (`command_ha`) assumes that the database insertion of
`save_command` is done before the next poll, result or expiry *at the same
agent*. With racing insertions `NothingForgotten` does not hold: a timer that
expires before its document is inserted is refused, and the document stored
afterwards has no timer. What holds in spite of such races is the subject of
`command_failures` and `command_races`.

Symmetry is used for threads in `northbound` and `protocols` only, which check
invariants and one action property. `CHECK_DEADLOCK FALSE`: every instance has a
bounded number of requests, messages or exchanges, after which the system rests.

**Fairness.** The threads of an agent run what is posted to them, timers expire
and are handled, and an exchange concludes (which is what `ExchangeLive` checks
of `HttpClient` with only timers and threads fair). Nothing is assumed of the
answers of Context Broker, identity manager, devices or database, nor that a
request, poll or send is ever begun. In particular: `Provisioning!TimerSpec` has
the cache timers only; its `FairSpec` the workers, the steps of a registration,
the registration thread, and registrations that expire; `AgentRegistration` the
steps of an agent, among them its retry timer, and that a post is handled or
its exchange fails (in `MCPeers` both peers have their fairness, and the one that
is not chosen has nothing to do); `MqttSession` the server threads and those of commands, and,
for the external broker, that it comes back after a failure and acknowledges
connections, without which `SubscribedAgain` would be about the broker.

**Mutants.** Beside the mapped definitions stand the plausible mistakes
(`MarkUpsert`, `HasRoomOffByOne`, `TellAgain`, `RetryUncounted`, `TakeAll`,
`MappedByName`, `LoadedOrOut` and others) that each property must reject;
`PROJECT.json` pairs them.

## 4. Proofs

All theorems hold for every value of the constants under the named assumptions
of the modules (functions have their domains and ranges, the sizes are natural
numbers, `None` is no object, `NoConn` no connection; of the MQTT session, that
there are finitely many commands and that inputs, commands and numbers of
messages are different things; of services, that the documents at the start were
stored by an agent; of registrations, that an address belongs to one agent; of
the configuration, that the holder of a free lock, `Nobody`, is no thread; of
provisioning, that stored documents have their fields and no key or registration
id twice, that a PUT names neither path, registration nor version, and that
`NoReg` is no registration id; of requests and files of devices, that what is a
list there is a finite one, with texts for texts and numbers for addresses, that
mappings are finite and a static attribute has name, value and time; of Modbus,
that an operation has the numbers its constructors take, at most 125 registers
to read and 123 to write, as many as the byte count of a frame allows for, and
does not read register 65535, whose key in `_values` would be 0).

- `CommandHandleProofs!TypeCorrect`. `TypeOK` is not inductive: a handler reads
  fields of the object its thread holds. `TypeInv` adds `LiveRefs` (an address a
  request, an answer or a timeout handler holds is a live object of the same
  agent) and `ThreadRefs` (which program points hold one). So no step follows a
  freed or null pointer.
- `CommandHandleProofs!ExpiryReportedOnce`, `LifeRefinement`. `NextEffect` reduces
  every step to its effect on the collection. `DocInv` (a document belongs to a
  request that has left `save_command`) and `ExpiryInv` (a reported expiry has
  no document any more) are inductive with `OneExpiry`, and the effects map to
  the actions of `CommandLife`. Crashes and failures are effects too.
- `CommandHandleProofs!CopiesStayTrue`. The stored document of a polled command is
  marked before a device gets it, and a cache stays within its size with one
  object per sequence (`CacheOK`). `CopiesInv` adds: of a command that is not
  stored yet there is only the object `save_command` will write (`ObjInv`); what
  a poll has found can never be stored as ready again (`Safe`) and is marked as
  far as the poll has got (`PollInv`), and so is what was handed to a device
  (`HandInv`). The last two are needed because a poll marks the objects and each
  document in separate steps.
- `CommandHandleProofs!CachedStaysTimed`. What is cached has a running timer, a
  queued handler or a running one, through crashes and failures, if commands have
  a timeout and ids and sequences of their own (`Distinct`). Ids are uuids, save
  those of Ultralight (item 12 of section 6): the theorems with `Distinct` say
  nothing of a device that is asked the same command twice. `TimedInv` adds that
  the object a result has found is of the id it answers: it is why
  `ResultRemoveCache`, which cancels the timer of the one object and removes an
  object of the id, does both to the same.
- `CommandHandleProofs!NobodyForgotten`, under `Undisturbed`: no command is pushed,
  no database operation fails, no agent crashes, the insertion of `save_command`
  comes before the next poll, result or expiry at its agent, ids are distinct
  and there is room in the caches. Each condition is needed: see section 6 for
  pushes, crashes and failures, section 3 for the insertion; a full cache starts
  no timer, and of two cached objects of one id `remove` takes any. For any number
  of agents, commands and polls, `KeptInv` then says of every stored command that
  it is about to be closed (`Closing`) or that some object of it has a timer that
  will not be refused (`Witness`): a delivered object, or any as long as no poll
  is about to mark the document. A refused timeout removes the object found for
  the id in its agent's cache. That this is never the witness is why the invariant
  also follows the ready objects (`ReadyOK`: cached, and timed once only) and what
  a refusing handler holds (`RefusedOK`). `Touches` first tells which steps concern
  the objects of one command.
- `HttpClientProofs!ClientExchange`. `ClientInv` relates callback, history and
  mode (`ToldOnce`) and says that nothing was closed or aborted while a callback
  is owed (`Owed`); every handler is then a `Conclude` or a stutter of
  `HttpExchange`.
- `PeersProofs!TrustStaysPrivate`, `RetriedOnce`, `ToldOrAlarmed`.
  `Replaced`: past the
  identity manager, the token of a send is never the trust token; `Counted`:
  requests, tries and the position of a send agree.
- `PepFilterProofs!OnlyAdmitted`, `TablesMatch`. `Progress`: who is at filter n
  has passed those before; `AtPep`: a user id was vouched for, and access
  control is asked only with one.
- `NorthboundProofs!PagesOfAgents`, `PagesOfManager`. For any number of agents
  and devices (`PageInv`): what
  is left of limit and offset when an agent is asked is what the agents before
  it left over; the arithmetic of the last agent of a page is split by whether
  the offset, the limit or both end inside it.
- `NorthboundProofs!AnswersOfManager`. `RequestInv` follows every item at every
  agent: it is still to be asked, or the agent has it and is among the good ones,
  or its address could not be resolved, or the agent is among the bad ones
  (`Sorted`); nobody is good or bad without a reason (`Justified`); an answered
  request is over (`Ordered`). The three kinds of answer follow by cases of
  `Code`.
- `NorthboundProofs!ChangesOfServices`. `SInv` says of every request where it is
  and what it has passed (`Routed`: past the filter its path is good, because
  about, the one URL without headers, has another handler), that it has changed
  nothing yet (`NotYet`) or only what it names (`InScope`), and of a DELETE that
  no more services are at its place than it has counted, unless one came in
  between (`Recounted`). Every change of the collection keeps the last for the
  other threads (`FewerOrRaced`): removals and updates keep or lower the number,
  insertions are noted.
- `NorthboundProofs!CountersStay`. As long as no two threads have met, who opens
  an hour is alone and its hour is later than all others (`Alone`), there is no
  null pointer, and the hours that are kept, with the one being opened, are the
  last of those with traffic as the code keeps them: at most `HOURS`, and exactly
  so many once an older one has gone (`LastOf`). That these are the latest is
  `LastAreLatest`, by cardinalities; that the first hour is the least,
  `OldestHour`, needs that the naturals are well-founded.
- `NorthboundProofs!GoodOnesServe`. What is good was loaded when it was read
  (`LoadedWhenRead`), because no plugin of its name was before (`ReadBefore`);
  the servers start one after the other (`ServersInTurn`), and a name of
  AdminService leads to a plugin of this name (`NamesLead`).
- `NorthboundProofs!FileServes`. The thread with `m_mutex` is followed from the
  text it reads to the file it writes (`FileOf`): a good text is taken over
  whole, and after a bad one the file is read again. That no other POST or PUT
  comes between is `LocksInv`: a POST keeps `m_sm` and a PUT `m_mutex_document`
  until it ends. A search that has a reference keeps the object unless somebody
  puts a resource (`SearchOf`), because nothing else replaces an object.
- `PeersProofs!ManagerAgrees`. A registration that met no other of
  its agent is followed through the Manager: what it has read and written is
  what the collections hold of its address (`AloneInv`), because an address is
  of one agent (`RegistrationAssumption`). After its last step nothing of the
  agent is under way that could undo it (`SettledInv`), however many
  registrations failed or came late before. `FollowInv`: a timer that is off is
  not thought to be set, which is why a failure sets it again.
- `NorthboundProofs!ReportsTrue`. What a caller is told agrees with what was
  written or read. `Sound` says of every unfinished operation how far it may have
  come: how often it was tried (`AttemptsFit`), what of it is in the collection
  (`WritesFit`) and what its cursor has left (`CursorFits`).
- `NorthboundProofs!ConnectionsOwn`. `ConnectionIsOwn` needs `Shape` (where a
  thread stands decides whether it has a connection). Most actions only work on
  their own Collection (`Works`) and keep pool and connections; `DOpen`,
  `Reconnect`, `DClose` and `DServe` are argued one by one. That the connections
  in use are no more than the threads (`InUseBound`) is a surjection from the
  threads; the sizes of finite sets come from `FiniteSetTheorems`.
- `ProvisioningProofs!DevicesStayInOrder`, for any agents, workers, plugins,
  documents and requests, with failing exchanges and expiring registrations.
  `SeenInv` follows the version a worker has written until the agent has dropped
  every older copy: what is fresh for an agent is never newer than the document
  and never older than its copy, whatever order timers and reads come in. For the
  registrations a thread works with a copy of a document that may be changed,
  deleted or inserted anew behind its back; so `CopyInv` says that a copy is the
  document of its version, `IdInv` that a registration id is with one document and
  the copies of that one and that a new one is known to nobody else, and
  `AloneInv` that of two threads that register one device, and are not kept apart
  by the mutex, none is alone. `SettledInv` then survives every step: an
  unregistration can only end what is not settled.
- `DevicesProofs!DevicesHearTheirOwn`, `ApplicationsAreKept`, for any threads,
  messages and writes of applications. `TTInv` follows every thread module by
  module: the attributes it has kept are those of its own valid modules, in their
  order, except at the positions in `met`, where another thread used the shared
  postprocessor between its two calls (`OwnSoFar`, `ResultStands`); one encounter
  does not disturb the modules before and after it, because every module starts
  with an `initialize()` of its own. `SentInv` says what holds also in `met`: the
  result that stands in the postprocessor is the one of a valid module that some
  request has sent. The theorem does not say that a device only publishes its
  own, which the code does not ensure. Of the answers, what a thread tells is of
  the entity it asked for, or echoes what the device sent where nothing was set
  (`ToldDesired`). `ApplicationsAreKept` rests on what a thread has seen while it
  works, which is all the broker has of the configuration (`HasSeen`), and on its
  first publication coming only after an error or when there was no entity.
- `DevicesProofs!FilesAreRead`, for all files. `OpInv` says what is read so far of
  the operations, with addresses in ascending order (`InOrderArranges`,
  `Consecutive`); `SensorInv` that each section of the sensor's file has become
  what is written there once it is read, and that a runner has its server.
- `DevicesProofs!CommandsAreAnswered`, for all documents, devices and templates.
  `NgsiInv` follows the two loops over elements and attributes: what was dealt
  with is stored or made the code of its element (`CodesJudge`), a status went out
  before its document was stored (`NotifiedFirst`), and what is stored fits the
  template (`StoredFits`). `FillMeans` is the lemma about templates: replacing
  mark by mark, as the code does, is what the template means, since both are
  walks over the same text.
- `DevicesProofs!MeasuresAreUpdates`, for all contents, mappings and static
  attributes. The lemmas about texts say that the tokens of what is after the
  first separator are the other tokens (`TokensAfter`), and that texts of at least
  one symbol which together have as many symbols as there are texts have one each
  (`JoinedOnes`): with the code's final comparison of numbers, no piece of the
  message can have made two elements in the place of another that made none
  (`TranslateMeans`). `ULInv` is then that what is sent, with what is still to be
  sent, is the translation. The proof found a case that no run had: a measure
  named TimeInstant (item 24).
- `MqttSessionProofs!CrossedOnce`, `OnlyStopTakesAway`, for any number of inputs,
  commands and messages. `SessionInv` relates the threads to what they share: a
  command whose output was written was handed over, and once (`CommandInv`); the
  messages in the buffers and on the wires lie, in order, between the last one
  taken and the last one sent (`MessageInv`); the one wrapper with a topic is that
  of the server thread of mqttrunner (`TopicInv`); there are ids left for every
  thread that still makes a wrapper (`CountInv`); and, as long as nobody stops,
  every wrapper is used by its owner only (`OwnInv`). `OwnInv` is what rules out
  that one thread reads what another's wrapper received; it is false once a stop
  has begun, and `StopInv` says what holds instead.
- `MqttSessionProofs!AnswersAreJudged`, for all operations, registers, answers and
  pieces. The checksum first: a step of `crc()` maps different states, and
  different bytes, to different states (`StepTellsApart`), because the low bytes
  of the table are all different; so two frames that differ in one byte differ in
  their checksums (`CrcTellsApart`), and whatever byte of an answer is changed,
  `check_crc()` fails (`ChangedFails`). Each entry of the two tables is given by
  the bits of its index (`EntryIs`), and these are the bits that eight shifts with
  the polynomial of Modbus leave (`EightShifts`); so `crc()` is the reference for
  every sequence of bytes (`CrcIsReference`), which no run could show. Then
  `ModbusInv`: what was read, without the echo that was dropped, is what is kept
  (`Kept`), and an operation is completed by the test on what is kept and judged
  by it (`Judged`), wherever the pieces end. The one condition is
  `ShortenedRead`: when the changed byte is the one that says how long the answer
  to a read is, the frame is cut where that byte says, and only the bytes at
  that place decide. `check_completed()` cannot know better.

Only model-checked: liveness (`LifeCycleFair`, `ExchangeLive`, `SendsEnd`,
`Answered`, `StaleDropped`, `RequestsAnswered`, `RegisteredAgain`, `AlarmEnds`,
`SubscribedAgain`, `CommandAnswered`), which needs fairness and ENABLED, out of
reach of TLAPS; `NoOrphan` of agents that are disturbed; `MessageAsDocumented`,
because the interpreter of tags is recursive by nature (`EspParser` has RECURSIVE
operators). Iterations over lists and texts are recursive functions (`Walk`,
`set_env_info`, `CrcFrom`); what they compute is proved by the least number for
which it fails (`LeastOf`, `Upwards`), not by the induction theorems of the
library.

## 5. Abstractions

- One (service, service path) per command model and one service in
  `Provisioning`: no key matches across two.
- Contents, ids and sequences of commands are abstract in `CommandHandle`;
  whether ids are unique is a parameter (`IdOf`), because protocols differ.
- The position of an object in a hashed index is arbitrary: the set of later
  objects a poll returns is a choice.
- Deadlines are not compared; a timer may expire at any time.
- Of an answer of an external service, what the code tests.
- A database operation of `CommandHandle` that fails has no effect (`DbFails`).
  Writes that were done although the driver threw are the subject of `Database`.
- One service document for each service, path and protocol in `Provisioning`:
  where the code goes over the documents of a place that differ in their API key
  only, and sends once for each, the model sends once (`DeployDevice`,
  `RenewAll`).
- Of the reads of a runner of MQTT, the one with which it leaves its loop is a
  step (`ReadMessage`); those before it change nothing others see. A round of
  `runLoop()` that meets a closed server is such a stutter.
- A call of the postprocessor of Thinking Things, of a module's `transform()` or
  of an accessor is one step. Strings torn by two threads that write them at the
  same time are left out.
- The caches of the plugins of a process are one in `Provisioning`; one plugin
  and one protocol per agent in `AgentRegistration`; one service with the MQTT
  plugin in `SensorFile`.
- Values of measures, of counters and of registers are symbols, except in Modbus
  frames, whose bytes and checksum are computed.
- JSON and XML documents are the values read from them; how they are written is
  left out, except where a parser is the subject (`Ultralight`, `EspParser`,
  `Modbus`).
- What the standard library does when two threads change one map at the very
  same time is left out; the order of whole lookups and insertions is not.

## 6. Disagreements met while modelling

Seen in the models or while reading for them; they are the code's, and none is
hidden by a model: each is a behaviour of a module, a restriction a property
states, or an abstraction named above.

*Commands*

1. `rest/command_handle.cc:1732`: the 202 of a push is processed after the result
   of the device was, and "delivered" replaces "OK"; `doc/commands.md:232` says
   of delivered "did not send the result".
2. `rest/command_handle.cc:85`: an agent that restarts reloads nothing; a command
   stored before has no timer and never expires, against `doc/commands.md:334`.
3. `util/command_cache.h:158`: a poll at an agent without a copy loads one
   document only; `doc/UL20_protocol.md:130` says it "returns all pending
   commands".
4. `rest/command_handle.cc:1509`: by the loop of item 13 a device is also given
   commands it already has (`rest/command_handle.h:337`).
5. `util/http_client.cc:146`: a proxy whose name does not resolve has already
   replaced the port, and the connection goes to the server at that port.
6. `util/http_client.cc:299`: with a synchronous client, a late timeout replaces
   the success of a complete response; `rest/iot_cb_comm.cc:242` then raises
   alarm 200 (`doc/deploy.md:648`: "communication ... is broken").
7. `rest/iot_cb_comm.cc:168`: a host of the identity manager that does not resolve
   raises the alarm of the Context Broker.
8. `util/oauth_comm.cc:349`: only status 400 ends the validation of a token,
   whereas the comment above says "When result is not from a OK response, we
   finalize."
9. `util/oauth_comm.cc:182`: the alarm about the login of the PEP is never ended
   (`doc/deploy.md:649`).
10. `rest/command_handle.cc:1721`: the 202 branch marks the document before the
    cached object; a timeout in between takes its own agent for another one and
    abandons the command, against `doc/commands.md:334` ("If command timeout
    expires ... an updateContextRequest will be sent").
11. `rest/command_handle.cc:141`: a poll at another agent between the check and
    the removal of `timeout_f`: "expired read" is reported for a command a device
    was just given; `doc/commands.md:231`: "the device didn't ask for it".
12. `rest/command_handle.cc:157`: Ultralight ids are device@command; the timer of
    an answered command left at another agent expires its successor with the
    same id (`util/command.h:181`: the id "should be unique").
13. `util/command_cache.h:150`: from the first match the loop runs to the end of
    the index, so that a poll is given commands of other devices;
    `doc/UL20_protocol.md:102`: "all commands for this device".
14. `rest/iot_cb_comm.cc:70`: the retry after a 401 presents the access token of
    the first attempt as trust id; the renewal cannot work
    (`doc/architecture.md:123`).
15. `rest/oauth_filter.cc:199`: access control is asked about a user without a
    role for the subservice; `doc/architecture.md:113` has such a request
    unauthenticated.
16. `util/timer.h:36` takes an unsigned short: a timeout of 65536 s or more is
    truncated. `rest/command_handle.cc:159` dereferences the document in a trace
    before it tests it for NULL. `rest/rest_handle.cc:424` reads the id of a
    request back from a header that the request may already have.
    `rest/iot_cb_comm.cc:79`: of two overlapping sends the later handler decides
    about the alarm, not the later exchange.

*Requests of the Context Broker*

17. One uuid per updateContext is the id of *all* its MQTT commands
    (`rest/command_handle.cc:1047`). An attribute of type command without value
    is dropped and answered 200. A command is cached before its database
    insertion fails (`:1457`): answered 500, yet delivered. An error of
    `execute_command` is not told (`:909`). The second search for a device
    ignores path and protocol (`rest/rest_handle.cc:818`).
    `enable_ngsi_service` assigns the handler of queries instead of that of
    updates (`:1608`). Templates count "%" and not "%s". Requested attributes of
    queryContext are ignored, and a query without them reads the size of a null
    value.

*Provisioning and services*

18. Another agent serves its old copy of a device until the cache timer drops it,
    which never happens while its plugin keeps asking. Two requests may both pass
    the test for a duplicate and insert (`services/admin_service.cc:1568`); the
    unique index of the comment in `util/device_collection.cc:290` is never
    created. A POST that fails in the middle leaves what it inserted. One device
    ends a whole pass of the registration thread (`rest/command_handle.cc:446`).
    A registration id is stored without the path (`:543`, `:663`), so that it may
    land on the device of the same id under another path; a registration may
    expire before its id is stored; a device may be deleted without its
    registration. "Protocol cannot be modified",
    but the result of `removeField` is discarded (`services/admin_service.cc:1680`).
    `Map2BSON` and `BSON2Map` use different keys (`util/device_collection.cc:83`).
19. A service may be stored under the path `/*` or `/#`. Two DELETEs at a time may
    leave devices without any service.
20. `util/collection.cc:382`: the retry of an update wraps `$set` again and starts
    its count again; `:468`: the number of a retried removal is dropped, so a PUT
    may answer 404 and devices may stay; `:831`: `more()` has no return value
    after most exceptions, and a listing is cut short with 200. The alarm is ended
    by writes only. A broken connection goes back to the pool.
21. Configuration: `update_conf` and `add_resource` take the two mutexes in
    opposite orders (`rest/riot_conf.cc:146`, `:328`), but the URLs of the handlers
    that would let them meet are commented out (`services/admin_service.cc:179`):
    `Configuration` models the handlers as written, and only the tests, which give
    them URLs, can run into it. Changed resources are not applied, as `insert`
    keeps the old ones. Parts of a refused configuration stay in force (`:531`).
    References are used after the unlock (`:314`). `write()` truncates before it
    writes (`:471`). A malformed device ends the loading of the file of devices.

*Manager*

22. An agent whose address does not resolve is passed over and the answer is 201
    or 204 (`services/admin_mgmt_service.cc:1246`, against
    `doc/API_REFERENCE_MANAGER.md:40`). A page is too short when an agent is passed over (`:308`).
    A failed first update is taken for "not found" and doubles the PROTOCOL entry
    (`:1021`). Documents of an old address stay. Exceptions of
    `register_iota_manager` are not retried (`rest/rest_handle.cc:339`), and
    `retries_set` is not initialised (`services/admin_service.h:495`).

*Start and counters*

23. `main()` returns 0 after an exception. A TCP plugin that fails is loaded as
    HTTP service (`app/main.cc:314`). A `start()` that throws ends the agent
    (`rest/process.cc:171`). `register_plugin` tests an object for true
    (`rest/rest_handle.cc:145`). Two threads that open an hour together leave a
    null accumulator, and the report then never ends (`:703`).

*Devices*

24. Ultralight: a mapping of an attribute to its own name recurses without end
    (`ngsi/ContextElement.cc:278`); mappings in a chain are applied twice; an odd
    number of fields is read past its end (`ultra_light/ULInsertObservation.cc:319`);
    commands are marked delivered although the answer is 400
    (`ultra_light/ul20_service.cc:344`). A measure that is named, or mapped to,
    TimeInstant gives its entity two attributes of that name (`:346`), and so does
    one named like a static attribute of the device.
25. MQTT: by a misspelt element (`mqtt/config/sensormqtt.xml:122`) single measures
    on `<api-key>/<device-id>/<type>`, described in `doc/MQTT_protocol.md:138`, are
    never published: the finding of the run `mqtt_single`. A message longer than the
    buffer is cut. `stop()` uses a runner after it released the lock
    (`esp/source/TDA.cpp:1140`), `closeClient` after `closeServer` stops another
    wrapper (`ESP_Plugin_Input_Mqtt.cpp:664`), the maps of wrappers have no lock
    (`:455`), a failed subscription is not tried again, and a command whose
    publication is lost is answered 202 (`mqtt/MqttService.cc:232`).
26. The MQTT service deletes the publisher before it stops the runners that use it
    (`mqtt/MqttService.cc:61`). A sensor file without the command "main", or a
    plugin without name, ends the agent; every other mistake in it is passed over
    in silence. `~ESP_Sensor()` indexes maps of pointers with 0, 1, ...
    (`esp/source/TDA.cpp:522`) and would not end if a runner were left.
27. Modbus: echo and answer in one piece, trailing bytes and an exception answer
    to a read are never complete (`modbus/modbus.cc:282`, `:313`); more than 127
    registers overflow the byte count (`:126`); a released buffer is put back
    (`rest/tcp_service.cc:158`). In the file of operations, gaps between addresses
    give wrong labels, and an entry without a name ends its part of the file.
28. Thinking Things: all threads share one postprocessor without a lock
    (`thinkingthings/TTService.cpp:281`): where two of them meet, the module of one
    device is published as the other's, is lost, or the request ends with 500;
    `AnswersAreOwn` exempts exactly the modules at which that happened. An error
    of the Context Broker is read as "not found", upon which a value of an
    application is overwritten; and a module other than those for desired values
    is published under its own name, whatever an application has set there.

## 7. Not modelled

- The vendored XML parser and the loggers (`esp/tinyxml/`, `esp/logger/`): not
  this program's logic, and about a fifth of the lines.
- Reading and writing of JSON, XML and dates (`ngsi/`, `util/FuncUtil.cc`,
  `util/iota_exception.cc`): conversions, whose values are taken as they are.
- The SensorML, Ultralight and text postprocessors and the file output of
  `esp/`: no configuration of the agent uses them; likewise the XML mappings of
  Thinking Things modules.
- Handlers on agents whose URLs are commented out in
  `services/admin_service.cc`, except the two that `Configuration` has; the
  synchronous calls of the PEP, which only tests make.
- The values of statistics, the texts of answers and traces.
- The deadlines of timers against each other: every order is allowed instead.

Worth doing next: `MessageAsDocumented`, with the tags of the interpreter as a
recursive function, so that it can be proved as well as checked.
