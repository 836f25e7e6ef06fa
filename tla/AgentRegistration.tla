------------------------- MODULE AgentRegistration --------------------------
(***************************************************************************)
(* Agents that register in the IoT Agent Manager                           *)
(* (RestHandle::register_iota_manager(),                                   *)
(* AdminService::set_register_retries()) and what the manager does with a  *)
(* registration (post_protocol_json() of services/admin_mgmt_service.cc).  *)
(*                                                                         *)
(* An agent sends its services to the manager when it starts, after every  *)
(* change of them and when the retry timer fires; the exchange is          *)
(* asynchronous.  The manager keeps the endpoints of a protocol (PROTOCOL) *)
(* and the services of every endpoint (SERVICE_MGMT).                      *)
(*                                                                         *)
(* One protocol and one plugin per agent are modelled.  The identifier of  *)
(* an agent in PROTOCOL is the agent itself; its address may change when   *)
(* it restarts.                                                            *)
(***************************************************************************)
EXTENDS Integers, FiniteSets

CONSTANTS
  Agents, Services,
  Addresses,      \* Addresses[a]: endpoints agent a may have, apart from others
  FirstAddress,   \* FirstAddress[a]: its endpoint at the start
  Known,          \* agents that have started, and registered, before
  FirstServices,  \* the services every agent has at the start
  MaxEvents,      \* bound: changes of services through the API of agents, restarts,
                  \* failing exchanges and database operations
  MaxPosts        \* bound: registrations of an agent under way at a time

Endpoints == UNION {Addresses[a] : a \in Agents}

ASSUME RegistrationAssumption ==
  /\ \A a, b \in Agents : a # b => Addresses[a] \cap Addresses[b] = {}
  /\ FirstAddress \in [Agents -> Endpoints]
  /\ \A a \in Agents : FirstAddress[a] \in Addresses[a]
  /\ Known \subseteq Agents /\ FirstServices \subseteq Services
  /\ MaxEvents \in Nat /\ MaxPosts \in Nat \ {0}

VARIABLES
  address,      \* address[a]: the endpoint of a
  svc,          \* svc[a]: its services
  due,          \* due[a]: calls of register_iota_manager() not made yet
  posts,        \* registrations under way
  retries_set,  \* retries_set[a]: not initialised by the constructor
  timer,        \* timer[a]: _timer_register, "none" before it is first made
  alarm,        \* alarm[a]: ALARM_CODE_NO_IOTA_MANAGER
  protocols,    \* PROTOCOL: the endpoints of the protocol
  mgmt,         \* SERVICE_MGMT
  settled,      \* history: agents whose last registration met no other
  unsent,       \* history: agents whose last registration was not even sent
  events        \* changes, restarts and failures so far

registrationVars == <<address, svc, due, posts, retries_set, timer, alarm, protocols, mgmt,
                      settled, unsent, events>>

agents == <<address, svc, due>>
retry == <<retries_set, timer, alarm>>
tables == <<protocols, mgmt>>
history == <<settled, unsent>>

RegistrationInit ==
  /\ address = FirstAddress
  /\ svc = [a \in Agents |-> FirstServices]
  /\ due = [a \in Agents |-> IF a \in Known THEN 0 ELSE 1]
  /\ posts = {}
  /\ retries_set \in [Agents -> {"yes", "no"}]
  /\ timer = [a \in Agents |-> "none"]
  /\ alarm = [a \in Agents |-> "off"]
  /\ protocols = {[id |-> a, endpoint |-> FirstAddress[a]] : a \in Known}
  /\ mgmt = [service: FirstServices, endpoint: {FirstAddress[a] : a \in Known}]
  /\ settled = Known
  /\ unsent = {}
  /\ events = 0

Happens == events < MaxEvents /\ events' = events + 1

----------------------------------------------------------------------------
(* Agents. *)

(* A change of the services through the API of the agent: first the        *)
(* collection, then register_iota_manager().                               *)
ServiceChanged(a, services) ==
  /\ Happens
  /\ services # svc[a]
  /\ svc' = [svc EXCEPT ![a] = services]
  /\ due' = [due EXCEPT ![a] = @ + 1]
  /\ settled' = settled \ {a}
  /\ UNCHANGED <<address, posts, retry, tables, unsent>>

(* A number that no registration of the agent under way has. *)
IsFree(a, k) == \A m \in posts : m.agent = a => m.n # k

Free(a) == CHOOSE k \in 0..MaxPosts - 1 : IsFree(a, k)

(* register_iota_manager(): under m_sm the services are read and sent.     *)
(* Two registrations of an agent that meet may be handled in any order.    *)
RegisterIotaManager(a) ==
  /\ due[a] > 0
  /\ \E k \in 0..MaxPosts - 1 : IsFree(a, k)
  /\ due' = [due EXCEPT ![a] = @ - 1]
  /\ LET others == {m \in posts : m.agent = a /\ m.at # "end"}
         new == [agent |-> a, n |-> Free(a), endpoint |-> address[a],
                 services |-> svc[a], at |-> "net", old |-> {}, waits |-> "yes",
                 alone |-> IF others = {} THEN "yes" ELSE "no"]
     IN  posts' = (posts \ others) \cup {[m EXCEPT !.alone = "no"] : m \in others}
                  \cup {new}
  /\ settled' = settled \ {a}
  /\ unsent' = unsent \ {a}
  /\ UNCHANGED <<address, svc, retry, tables, events>>

(* The database or the resolution of the manager's name fails before       *)
(* anything is sent: the exception is logged, nothing is tried again.      *)
RegisterThrows(a) ==
  /\ due[a] > 0
  /\ Happens
  /\ due' = [due EXCEPT ![a] = @ - 1]
  /\ settled' = settled \ {a}
  /\ unsent' = unsent \cup {a}
  /\ UNCHANGED <<address, svc, posts, retry, tables>>

(* A registration is forgotten when the agent waits for it no more and the *)
(* manager has done with it.                                               *)
With(m, n) == (posts \ {m}) \cup (IF n.waits = "no" /\ n.at = "end" THEN {} ELSE {n})

(* set_register_retries(true). *)
SetRegisterRetries(a) ==
  IF retries_set[a] = "yes" THEN UNCHANGED <<retries_set, timer>>
  ELSE /\ retries_set' = [retries_set EXCEPT ![a] = "yes"]
       /\ timer' = [timer EXCEPT ![a] = "armed"]

(* receive_event_from_manager() with an error: the manager may have the    *)
(* registration all the same, now or later.                                *)
RegistrationFails(m) ==
  /\ m \in posts /\ m.waits = "yes"
  /\ Happens
  /\ \/ posts' = posts \ {m} /\ m.at = "net"
     \/ posts' = With(m, [m EXCEPT !.waits = "no"])
  /\ SetRegisterRetries(m.agent)
  /\ alarm' = [alarm EXCEPT ![m.agent] = "on"]
  /\ UNCHANGED <<agents, tables, history>>

(* ... with an answer, of whatever status. *)
RegistrationAnswered(m) ==
  /\ m \in posts /\ m.waits = "yes" /\ m.at = "end"
  /\ posts' = posts \ {m}
  /\ alarm' = [alarm EXCEPT ![m.agent] = "off"]
  /\ UNCHANGED <<agents, retries_set, timer, tables, history, events>>

TimerFires(a) ==
  /\ timer[a] = "armed"
  /\ timer' = [timer EXCEPT ![a] = "fired"]
  /\ UNCHANGED <<agents, posts, retries_set, alarm, tables, history, events>>

TimeoutKeepsRetries(a) ==
  /\ timer[a] = "fired"
  /\ timer' = [timer EXCEPT ![a] = "off"]
  /\ due' = [due EXCEPT ![a] = @ + 1]
  /\ UNCHANGED <<address, svc, posts, retries_set, alarm, tables, history, events>>

TimeoutRearms(a) ==
  /\ timer[a] = "fired"
  /\ timer' = [timer EXCEPT ![a] = "armed"]
  /\ UNCHANGED <<agents, posts, retries_set, alarm, tables, history, events>>

(* timeout_register_iota_manager(): set_register_retries(false), then      *)
(* register_iota_manager().                                                *)
TimeoutRegister(a) ==
  /\ timer[a] = "fired"
  /\ timer' = [timer EXCEPT ![a] = "off"]
  /\ retries_set' = [retries_set EXCEPT ![a] = "no"]
  /\ due' = [due EXCEPT ![a] = @ + 1]
  /\ UNCHANGED <<address, svc, posts, alarm, tables, history, events>>

(* The process stops, and starts anew at one of its addresses.             *)
Restart(a, e) ==
  /\ Happens
  /\ address' = [address EXCEPT ![a] = e]
  /\ due' = [due EXCEPT ![a] = 1]
  /\ posts' = {IF m.agent = a THEN [m EXCEPT !.waits = "no"] ELSE m : m \in posts}
              \ {m \in posts : m.agent = a /\ m.at = "end"}
  /\ \E r \in {"yes", "no"} : retries_set' = [retries_set EXCEPT ![a] = r]
  /\ timer' = [timer EXCEPT ![a] = "none"]
  /\ alarm' = [alarm EXCEPT ![a] = "off"]
  /\ settled' = settled \ {a}
  /\ unsent' = unsent \ {a}
  /\ UNCHANGED <<svc, tables>>

----------------------------------------------------------------------------
(* post_protocol_json(), one database operation per step. *)
ManagerStep(m, from) == m \in posts /\ m.at = from

(* A failure of one of the first two updates is taken for a protocol or an *)
(* endpoint that does not exist.                                           *)
UpdateById(m) ==
  /\ ManagerStep(m, "net")
  /\ LET known == {p \in protocols : p.id = m.agent}
     IN  \/ /\ \E p \in known :
                 protocols' = (protocols \ {p}) \cup {[p EXCEPT !.endpoint = m.endpoint]}
            /\ posts' = With(m, [m EXCEPT !.at = "fill"])
            /\ UNCHANGED events
         \/ /\ IF known = {} THEN UNCHANGED events ELSE Happens
            /\ posts' = With(m, [m EXCEPT !.at = "byendpoint"])
            /\ UNCHANGED protocols
  /\ UNCHANGED <<agents, retry, mgmt, history>>

UpdateByEndpoint(m) ==
  /\ ManagerStep(m, "byendpoint")
  /\ LET known == {p \in protocols : p.endpoint = m.endpoint}
     IN  \/ /\ \E p \in known :
                 protocols' = (protocols \ {p}) \cup {[p EXCEPT !.id = m.agent]}
            /\ posts' = With(m, [m EXCEPT !.at = "fill"])
            /\ UNCHANGED events
         \/ /\ IF known = {} THEN UNCHANGED events ELSE Happens
            /\ posts' = With(m, [m EXCEPT !.at = "add"])
            /\ UNCHANGED protocols
  /\ UNCHANGED <<agents, retry, mgmt, history>>

AddEndpoint(m) ==
  /\ ManagerStep(m, "add")
  /\ protocols' = protocols \cup {[id |-> m.agent, endpoint |-> m.endpoint]}
  /\ posts' = With(m, [m EXCEPT !.at = "fill"])
  /\ UNCHANGED <<agents, retry, mgmt, history, events>>

ServicesOf(e) == {d \in mgmt : d.endpoint = e}

(* fillServices(). *)
FillServices(m) ==
  /\ ManagerStep(m, "fill")
  /\ posts' = With(m, [m EXCEPT !.at = "sync", !.old = ServicesOf(m.endpoint)])
  /\ UNCHANGED <<agents, retry, tables, history, events>>

Posted(m) == {[service |-> s, endpoint |-> m.endpoint] : s \in m.services}

(* The services of the registration, inserted or updated. *)
UpsertServices(m) ==
  /\ ManagerStep(m, "sync")
  /\ mgmt' = mgmt \cup Posted(m)
  /\ posts' = With(m, [m EXCEPT !.at = "clean"])
  /\ UNCHANGED <<agents, retry, protocols, history, events>>

(* History: nothing else of the agent has happened meanwhile. *)
Settles(m) ==
  m.alone = "yes" /\ m.services = svc[m.agent] /\ m.endpoint = address[m.agent]
  /\ due[m.agent] = 0

KeepOldServices(m) ==
  /\ ManagerStep(m, "clean")
  /\ posts' = With(m, [m EXCEPT !.at = "end"])
  /\ settled' = IF Settles(m) THEN settled \cup {m.agent} ELSE settled
  /\ UNCHANGED <<agents, retry, protocols, mgmt, unsent, events>>

(* Those that were there and are no longer are removed. *)
RemoveOldServices(m) ==
  /\ ManagerStep(m, "clean")
  /\ mgmt' = mgmt \ (m.old \ Posted(m))
  /\ posts' = With(m, [m EXCEPT !.at = "end"])
  /\ settled' = IF Settles(m) THEN settled \cup {m.agent} ELSE settled
  /\ UNCHANGED <<agents, retry, protocols, unsent, events>>

(* A failing database operation ends the request with an error status. *)
PostProtocolFails(m) ==
  /\ m \in posts /\ m.at \in {"add", "fill", "sync", "clean"}
  /\ Happens
  /\ posts' = With(m, [m EXCEPT !.at = "end"])
  /\ UNCHANGED <<agents, retry, tables, history>>

----------------------------------------------------------------------------
HandlePost(m) ==
  \/ UpdateById(m) \/ UpdateByEndpoint(m) \/ AddEndpoint(m)
  \/ FillServices(m) \/ UpsertServices(m) \/ RemoveOldServices(m)

AgentStep(a) == RegisterIotaManager(a) \/ TimerFires(a) \/ TimeoutRegister(a)

RegistrationNext ==
  \/ \E a \in Agents : \/ AgentStep(a)
                       \/ RegisterThrows(a)
                       \/ \E new \in SUBSET Services : ServiceChanged(a, new)
                       \/ \E e \in Addresses[a] : Restart(a, e)
  \/ \E m \in posts : HandlePost(m) \/ RegistrationAnswered(m)
                      \/ RegistrationFails(m) \/ PostProtocolFails(m)

RegistrationSpec == RegistrationInit /\ [][RegistrationNext]_registrationVars

(* Threads run, the retry timer expires, the manager works on what it has  *)
(* received, and an exchange ends, with an answer or with a timeout.       *)
RegistrationFairness ==
  /\ \A a \in Agents : WF_registrationVars(AgentStep(a))
  /\ WF_registrationVars(\E m \in posts : HandlePost(m) \/ RegistrationAnswered(m))

FairRegistration == RegistrationSpec /\ RegistrationFairness

----------------------------------------------------------------------------
(* Once the only registration an agent has under way was handled, the      *)
(* manager knows exactly its services at its address, and the address,     *)
(* whatever failed, was repeated or arrived late before.                   *)
SettledIsSynced ==
  \A a \in settled : /\ {d.service : d \in ServicesOf(address[a])} = svc[a]
                     /\ [id |-> a, endpoint |-> address[a]] \in protocols

(* retries_set happened to be true at the start, so the timer is never set; *)
(* or the last attempt threw.                                               *)
Stuck(a) == (retries_set[a] = "yes" /\ timer[a] = "none") \/ a \in unsent

(* While the alarm of an agent is raised it is trying to register, or will *)
(* when its timer fires: the alarm cannot be forgotten, however failures,  *)
(* retries, changes and restarts interleave (set_register_retries()).      *)
(* Left out are the agents the code does forget.                           *)
AlarmIsFollowedUp ==
  \A a \in Agents : alarm[a] = "on" /\ ~Stuck(a) =>
    \/ timer[a] \in {"armed", "fired"}
    \/ due[a] > 0
    \/ \E m \in posts : m.agent = a /\ m.waits = "yes"

(* An agent that could not register does so in the end, or is forgotten.   *)
AlarmEnds == \A a \in Agents : alarm[a] = "on" ~> alarm[a] = "off" \/ Stuck(a)

(* Manager and agent agree once nothing is under way, and a registration   *)
(* that failed will be tried again.                                        *)
RegistrationHolds == SettledIsSynced /\ AlarmIsFollowedUp
=============================================================================
