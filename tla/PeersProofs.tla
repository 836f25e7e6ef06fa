---------------------------- MODULE PeersProofs -----------------------------
(***************************************************************************)
(* What an agent sends to its two peers in the north: to the Context       *)
(* Broker, and, to register itself, to the IoT Agent Manager.              *)
(***************************************************************************)
EXTENDS ContextBroker, AgentRegistration, TLAPS

-----------------------------------------------------------------------------
(***************************************************************************)
(* For any number of sends and Context Brokers: the trust token stays      *)
(* between agent and identity manager, a 401 is retried once, and a caller *)
(* is told once or an alarm is raised.                                     *)
(***************************************************************************)

Busy == {"sent", "answered"}

(* Whenever a request can be built, the trust token has been replaced. *)
Replaced == \A s \in Sends :
  TrustUrl = "set" /\ pc[s] \in {"request"} \cup Busy => token[s] # "trust"

(* The counter of tries counts the requests, and who is under way has not  *)
(* been told; whoever starts a second attempt was refused the first.       *)
Counted == \A s \in Sends :
  /\ pc[s] = "idle" => tries[s] = 0
  /\ pc[s] \in {"idle", "renew", "request"} => Len(requests[s]) = tries[s]
  /\ pc[s] \in Busy => Len(requests[s]) = tries[s] + 1
  /\ pc[s] # "done" => told[s] = <<>>
  /\ pc[s] \in {"renew", "request"} /\ tries[s] = 1 => answer[s].code = "unauthorized"

BrokerInv == TypeOK /\ Replaced /\ TrustPrivate /\ Counted

LEMMA InitBrokerInv == Init => BrokerInv
<1>. SUFFICES ASSUME Init PROVE BrokerInv
  OBVIOUS
<1>1. TypeOK
  BY SendsAssumption
     DEF Init, TypeOK, NoAnswer, Answer, Token, Code, Response, Error
<1>2. Replaced /\ TrustPrivate /\ Counted
  BY DEF Init, Replaced, TrustPrivate, Counted, Busy
<1>. QED BY <1>1, <1>2 DEF BrokerInv

(* A step that sends no request leaves the requests of the past alone. *)
LEMMA NoRequestPrivate == ASSUME TrustPrivate, UNCHANGED requests PROVE TrustPrivate'
  BY DEF TrustPrivate

LEMMA InformKeeps ==
  ASSUME TypeOK, NEW s \in Sends, NEW m \in Code \cup {"error", "empty"}, Inform(s, m)
  PROVE  /\ told' \in [Sends -> Seq(Code \cup {"error", "empty"})]
         /\ \A x \in Sends \ {s} : told'[x] = told[x]
<1>. DEFINE M == Code \cup {"error", "empty"}
<1>1. told \in [Sends -> Seq(M)] /\ m \in M
  BY DEF TypeOK
<1>. HIDE DEF M
<1>2. Append(told[s], m) \in Seq(M)
  BY <1>1
<1>3. told' = [told EXCEPT ![s] = Append(told[s], m)]
  BY DEF Inform
<1>4. told' \in [Sends -> Seq(M)] /\ \A x \in Sends \ {s} : told'[x] = told[x]
  BY <1>1, <1>2, <1>3
<1>. QED BY <1>4 DEF M

LEMMA NextBrokerInv == BrokerInv /\ [Next]_vars => BrokerInv'
<1>. SUFFICES ASSUME BrokerInv, [Next]_vars PROVE BrokerInv'
  OBVIOUS
<1>. USE SendsAssumption DEF BrokerInv, Busy
<1>1. ASSUME NEW s \in Sends, Begin(s) PROVE BrokerInv'
  <2>1. TypeOK'
    BY <1>1 DEF Begin, Attempt, TypeOK
  <2>2. Replaced' /\ Counted'
    BY <1>1 DEF Begin, Attempt, TypeOK, Replaced, Counted
  <2>3. TrustPrivate'
    BY <1>1, NoRequestPrivate DEF Begin
  <2>. QED BY <2>1, <2>2, <2>3
<1>2. ASSUME NEW s \in Sends, GetToken(s) PROVE BrokerInv'
  <2>1. PICK t \in {"access", "none"} : token' = [token EXCEPT ![s] = t]
    BY <1>2 DEF GetToken
  <2>2. token'[s] # "trust" /\ \A x \in Sends \ {s} : token'[x] = token[x]
    BY <2>1 DEF TypeOK
  <2>3. TypeOK'
    BY <1>2, <2>1 DEF GetToken, TypeOK, Token
  <2>4. Replaced'
    BY <1>2, <2>2 DEF GetToken, Replaced, TypeOK
  <2>5. Counted'
    BY <1>2 DEF GetToken, Counted, TypeOK
  <2>6. TrustPrivate'
    BY <1>2, NoRequestPrivate DEF GetToken
  <2>. QED BY <2>3, <2>4, <2>5, <2>6
<1>3. ASSUME NEW s \in Sends, SendRequest(s) PROVE BrokerInv'
  <2>1. /\ requests[s] \in Seq(Token) /\ token[s] \in Token /\ pc[s] = "request"
        /\ requests'[s] = Append(requests[s], token[s])
        /\ \A x \in Sends \ {s} : requests'[x] = requests[x]
        /\ token' = token
    BY <1>3 DEF SendRequest, TypeOK
  <2>2. /\ Len(requests'[s]) = Len(requests[s]) + 1
        /\ \A i \in 1..Len(requests'[s]) :
              requests'[s][i] = IF i = Len(requests[s]) + 1 THEN token[s] ELSE requests[s][i]
    BY <2>1
  <2>3. TypeOK'
    BY <1>3, <2>1 DEF SendRequest, TypeOK
  <2>4. Replaced'
    BY <1>3 DEF SendRequest, Replaced, TypeOK
  <2>5. Counted'
    BY <1>3, <2>1, <2>2 DEF SendRequest, Counted, TypeOK
  <2>6. TrustPrivate'
    <3>. SUFFICES ASSUME TrustUrl = "set", NEW x \in Sends, NEW i \in 1..Len(requests'[x])
                  PROVE  requests'[x][i] # "trust"
      BY DEF TrustPrivate
    <3>1. CASE x # s
      BY <2>1, <3>1 DEF TrustPrivate
    <3>2. CASE x = s
      <4>1. token[s] # "trust"
        BY <2>1 DEF Replaced
      <4>2. CASE i = Len(requests[s]) + 1
        BY <2>2, <3>2, <4>1, <4>2
      <4>3. CASE i # Len(requests[s]) + 1
        <5>1. i \in 1..Len(requests[s])
          BY <2>1, <2>2, <3>2, <4>3
        <5>. QED BY <2>2, <3>2, <4>3, <5>1 DEF TrustPrivate
      <4>. QED BY <4>2, <4>3
    <3>. QED BY <3>1, <3>2
  <2>. QED BY <2>3, <2>4, <2>5, <2>6
<1>4. ASSUME NEW s \in Sends, Unresolved(s) PROVE BrokerInv'
  <2>1. told' \in [Sends -> Seq(Code \cup {"error", "empty"})]
        /\ \A x \in Sends \ {s} : told'[x] = told[x]
    BY <1>4, InformKeeps DEF Unresolved, TypeOK
  <2>2. TypeOK'
    BY <1>4, <2>1 DEF Unresolved, Raise, TypeOK
  <2>3. Replaced'
    BY <1>4 DEF Unresolved, Replaced, TypeOK
  <2>4. Counted'
    BY <1>4, <2>1 DEF Unresolved, Counted, TypeOK
  <2>5. TrustPrivate'
    BY <1>4, NoRequestPrivate DEF Unresolved
  <2>. QED BY <2>2, <2>3, <2>4, <2>5
<1>5. ASSUME NEW s \in Sends, NEW o \in Outcome, NEW c \in Code, Concludes(s, o, c)
      PROVE  BrokerInv'
  <2>1. [resp |-> o.resp, ec |-> o.ec, code |-> c] \in Answer
    BY DEF Outcome, Answer
  <2>2. TypeOK'
    BY <1>5, <2>1 DEF Concludes, TypeOK
  <2>3. Replaced'
    BY <1>5 DEF Concludes, Replaced, TypeOK
  <2>4. Counted'
    BY <1>5 DEF Concludes, Counted, TypeOK
  <2>5. TrustPrivate'
    BY <1>5, NoRequestPrivate DEF Concludes
  <2>. QED BY <2>2, <2>3, <2>4, <2>5
<1>6. ASSUME NEW s \in Sends, pc[s] = "answered", tries[s] < 1, Retry(s),
             answer[s].code = "unauthorized", alarms' \subseteq Urls,
             UNCHANGED <<told, token, asked, requests, answer>>
      PROVE  BrokerInv'
  <2>1. tries[s] = 0
    BY <1>6 DEF TypeOK
  <2>2. TypeOK'
    BY <1>6 DEF Retry, Attempt, TypeOK
  <2>3. Replaced'
    BY <1>6 DEF Retry, Attempt, Replaced, TypeOK
  <2>4. Counted'
    <3>1. /\ pc'[s] \in {"renew", "request"} /\ tries'[s] = 1
          /\ \A x \in Sends \ {s} : pc'[x] = pc[x] /\ tries'[x] = tries[x]
      BY <1>6 DEF Retry, Attempt, TypeOK
    <3>2. Len(requests[s]) = tries[s] + 1
      BY <1>6 DEF Counted
    <3>3. Len(requests[s]) = 1
      BY <2>1, <3>2
    <3>4. told[s] = <<>>
      BY <1>6 DEF Counted
    <3>. SUFFICES ASSUME NEW x \in Sends
                  PROVE  /\ pc'[x] = "idle" => tries'[x] = 0
                         /\ pc'[x] \in {"idle", "renew", "request"} => Len(requests'[x]) = tries'[x]
                         /\ pc'[x] \in Busy => Len(requests'[x]) = tries'[x] + 1
                         /\ pc'[x] # "done" => told'[x] = <<>>
                         /\ pc'[x] \in {"renew", "request"} /\ tries'[x] = 1
                              => answer'[x].code = "unauthorized"
      BY DEF Counted
    <3>5. CASE x = s
      BY <1>6, <3>1, <3>3, <3>4, <3>5
    <3>6. CASE x # s
      BY <1>6, <3>1, <3>6 DEF Counted
    <3>. QED BY <3>5, <3>6
  <2>5. TrustPrivate'
    BY <1>6, NoRequestPrivate
  <2>. QED BY <2>2, <2>3, <2>4, <2>5
<1>7. ASSUME NEW s \in Sends, pc[s] = "answered", pc' = [pc EXCEPT ![s] = "done"],
             UNCHANGED told \/ \E m \in Code \cup {"error", "empty"} : Inform(s, m),
             alarms' \subseteq Urls,
             UNCHANGED <<tries, token, asked, requests, answer>>
      PROVE  BrokerInv'
  <2>1. told' \in [Sends -> Seq(Code \cup {"error", "empty"})]
        /\ \A x \in Sends \ {s} : told'[x] = told[x]
    BY <1>7, InformKeeps DEF TypeOK
  <2>2. TypeOK'
    BY <1>7, <2>1 DEF TypeOK
  <2>3. Replaced'
    BY <1>7 DEF Replaced, TypeOK
  <2>4. Counted'
    BY <1>7, <2>1 DEF Counted, TypeOK
  <2>5. TrustPrivate'
    BY <1>7, NoRequestPrivate
  <2>. QED BY <2>2, <2>3, <2>4, <2>5
<1>8. ASSUME NEW s \in Sends, ReceiveEvent(s) PROVE BrokerInv'
  <2>1. answer[s].code \in Code /\ pc[s] = "answered"
    BY <1>8 DEF ReceiveEvent, TypeOK, Answer
  <2>2. alarms' \subseteq Urls
    BY <1>8 DEF ReceiveEvent, Raise, End, TypeOK
  <2>. QED BY <1>6, <1>7, <1>8, <2>1, <2>2 DEF ReceiveEvent
<1>9. ASSUME NEW s \in Sends, ProcessResponse(s) PROVE BrokerInv'
  <2>1. answer[s].code \in Code /\ pc[s] = "answered"
    BY <1>9 DEF ProcessResponse, TypeOK, Answer
  <2>2. alarms' \subseteq Urls
    BY <1>9 DEF ProcessResponse, Raise, End, TypeOK
  <2>. QED BY <1>6, <1>7, <1>9, <2>1, <2>2 DEF ProcessResponse
<1>10. CASE UNCHANGED vars
  BY <1>10 DEF vars, TypeOK, Replaced, TrustPrivate, Counted
<1>. QED
  BY <1>1, <1>2, <1>3, <1>4, <1>5, <1>8, <1>9, <1>10 DEF Next

LEMMA BrokerInvariant == Spec => []BrokerInv
  BY InitBrokerInv, NextBrokerInv, PTL DEF Spec

(* The trust token never reaches a Context Broker: every attempt replaces  *)
(* it before create_request(), and a retry starts from what replaced it.   *)
THEOREM TrustStaysPrivate == Spec => []TrustPrivate
  BY BrokerInvariant, PTL DEF BrokerInv

(* One retry, in answer to a 401, before the caller hears of anything.     *)
THEOREM RetriedOnce == Spec => RetryDiscipline
<1>. DEFINE Step == \A s \in Sends :
       requests'[s] # requests[s] =>
         \/ requests[s] = <<>>
         \/ Len(requests[s]) = 1 /\ answer[s].code = "unauthorized" /\ told[s] = <<>>
<1>1. BrokerInv /\ [Next]_vars => [Step]_vars
  <2>. SUFFICES ASSUME BrokerInv, Next, NEW x \in Sends, requests'[x] # requests[x]
                PROVE  \/ requests[x] = <<>>
                       \/ Len(requests[x]) = 1 /\ answer[x].code = "unauthorized" /\ told[x] = <<>>
    OBVIOUS
  <2>1. PICK s \in Sends : SendRequest(s)
    BY DEF Next, Begin, GetToken, Unresolved, Concludes, ReceiveEvent, ProcessResponse
  <2>2. x = s /\ pc[x] = "request"
    BY <2>1 DEF SendRequest, BrokerInv, TypeOK
  <2>3. tries[x] \in 0..1 /\ Len(requests[x]) = tries[x] /\ told[x] = <<>> /\ requests[x] \in Seq(Token)
    BY <2>2 DEF BrokerInv, TypeOK, Counted
  <2>4. CASE tries[x] = 1
    BY <2>2, <2>3, <2>4 DEF BrokerInv, Counted
  <2>5. CASE tries[x] = 0
    BY <2>3, <2>5
  <2>. QED BY <2>3, <2>4, <2>5
<1>. QED BY <1>1, BrokerInvariant, PTL DEF Spec, RetryDiscipline

(* What Inform() does to the messages of its send. *)
LEMMA InformTells ==
  ASSUME TypeOK, NEW s \in Sends, NEW m \in Code \cup {"error", "empty"}, Inform(s, m)
  PROVE  told'[s] # <<>>
<1>. DEFINE M == Code \cup {"error", "empty"}
<1>1. told[s] \in Seq(M) /\ m \in M /\ told'[s] = Append(told[s], m)
  BY DEF TypeOK, Inform
<1>. HIDE DEF M
<1>2. Len(told'[s]) = Len(told[s]) + 1 /\ Len(told[s]) \in Nat
  BY <1>1
<1>. QED BY <1>2

(* The caller of a send is told once and last, or an alarm tells why not:  *)
(* the catch blocks raise one, and so does the 502 of a proxy.             *)
THEOREM ToldOrAlarmed == Spec => CallerTold
<1>. DEFINE Step == \A s \in Sends :
       /\ told'[s] # told[s] => told[s] = <<>> /\ pc'[s] = "done"
       /\ pc'[s] = "done" /\ pc[s] # "done" => told'[s] # <<>> \/ Url[s] \in alarms'
       /\ pc[s] = "done" => pc'[s] = "done"
<1>1. BrokerInv /\ [Next]_vars => [Step]_vars
  <2>. DEFINE Ok(x) ==
         /\ told'[x] # told[x] => told[x] = <<>> /\ pc'[x] = "done"
         /\ pc'[x] = "done" /\ pc[x] # "done" => told'[x] # <<>> \/ Url[x] \in alarms'
         /\ pc[x] = "done" => pc'[x] = "done"
  <2>. SUFFICES ASSUME BrokerInv, Next, NEW x \in Sends PROVE Ok(x)
    OBVIOUS
  <2>. USE DEF BrokerInv
  <2>0. pc[x] # "done" => told[x] = <<>>
    BY DEF Counted
  <2>2. ASSUME NEW s \in Sends, Begin(s) \/ GetToken(s) \/ SendRequest(s) PROVE Ok(x)
    BY <2>2, SendsAssumption DEF Begin, GetToken, SendRequest, Attempt, TypeOK
  <2>3. ASSUME NEW s \in Sends, Unresolved(s) PROVE Ok(x)
    <3>1. CASE x # s
      BY <2>3, <3>1, InformKeeps DEF Unresolved, TypeOK
    <3>2. CASE x = s
      <4>1. pc[x] # "done" /\ pc'[x] = "done" /\ Url[x] \in alarms'
        BY <2>3, <3>2 DEF Unresolved, Raise, TypeOK
      <4>. QED BY <2>0, <4>1
    <3>. QED BY <3>1, <3>2
  <2>4. ASSUME NEW s \in Sends, NEW o \in Outcome, NEW c \in Code, Concludes(s, o, c)
        PROVE  Ok(x)
    BY <2>4 DEF Concludes, TypeOK
  <2>5. ASSUME NEW s \in Sends, pc[s] = "answered", Retry(s), UNCHANGED told
        PROVE  Ok(x)
    BY <2>5 DEF Retry, Attempt, TypeOK
  <2>6. ASSUME NEW s \in Sends, pc[s] = "answered", pc' = [pc EXCEPT ![s] = "done"],
               \/ UNCHANGED told /\ Raise(s)
               \/ \E m \in Code \cup {"error", "empty"} : Inform(s, m)
        PROVE  Ok(x)
    <3>1. CASE x # s
      BY <2>6, <3>1, InformKeeps DEF TypeOK
    <3>2. CASE x = s
      <4>1. pc[x] # "done" /\ pc'[x] = "done"
        BY <2>6, <3>2 DEF TypeOK
      <4>2. told'[x] # <<>> \/ Url[x] \in alarms'
        BY <2>6, <3>2, InformTells DEF Raise
      <4>. QED BY <2>0, <4>1, <4>2
    <3>. QED BY <3>1, <3>2
  <2>7. ASSUME NEW s \in Sends, ReceiveEvent(s) PROVE Ok(x)
    <3>1. answer[s].code \in Code
      BY DEF TypeOK, Answer
    <3>. QED BY <2>5, <2>6, <2>7, <3>1 DEF ReceiveEvent
  <2>8. ASSUME NEW s \in Sends, ProcessResponse(s) PROVE Ok(x)
    <3>1. answer[s].code \in Code
      BY DEF TypeOK, Answer
    <3>. QED BY <2>5, <2>6, <2>8, <3>1 DEF ProcessResponse
  <2>. QED BY <2>2, <2>3, <2>4, <2>7, <2>8 DEF Next
<1>. QED BY <1>1, BrokerInvariant, PTL DEF Spec, CallerTold
-----------------------------------------------------------------------------
(***************************************************************************)
(* Manager and agents agree, and an alarm is followed up, for any agents,  *)
(* addresses and services and any number of changes, restarts, failures    *)
(* and registrations under way.                                            *)
(*                                                                         *)
(* A registration that met no other of its agent is followed through the   *)
(* manager: what it has read and written so far is what the manager has of *)
(* its address (AloneInv), because an address belongs to one agent and     *)
(* nobody else works on it.  Once it is over, nothing of its agent is      *)
(* under way in the manager that could undo it (SettledInv).               *)
(***************************************************************************)

Places == {"net", "byendpoint", "add", "fill", "sync", "clean", "end"}
YesNo == {"yes", "no"}

Registrations ==
  [agent: Agents, n: 0..MaxPosts - 1, endpoint: Endpoints, services: SUBSET Services,
   at: Places, old: SUBSET [service: Services, endpoint: Endpoints],
   waits: YesNo, alone: YesNo]

RegistrationType ==
  /\ DOMAIN address = Agents /\ \A a \in Agents : address[a] \in Addresses[a]
  /\ svc \in [Agents -> SUBSET Services]
  /\ due \in [Agents -> Nat]
  /\ posts \subseteq Registrations
  /\ \A m \in posts : /\ m.endpoint \in Addresses[m.agent]
                      /\ \A d \in m.old : d.endpoint = m.endpoint
  /\ protocols \subseteq [id: Agents, endpoint: Endpoints]
  /\ mgmt \subseteq [service: Services, endpoint: Endpoints]
  /\ retries_set \in [Agents -> YesNo]
  /\ timer \in [Agents -> {"none", "armed", "fired", "off"}]
  /\ alarm \in [Agents -> {"on", "off"}]
  /\ settled \subseteq Agents

(* What the manager has of an agent at an address. *)
IsKnown(a, e) == [id |-> a, endpoint |-> e] \in protocols

(* How far a registration has come, if nothing else works on its address. *)
Followed(m) ==
  /\ m.at \in {"fill", "sync", "clean"} => IsKnown(m.agent, m.endpoint)
  /\ m.at = "sync" => ServicesOf(m.endpoint) = m.old
  /\ m.at = "clean" => ServicesOf(m.endpoint) = m.old \cup Posted(m)

AloneInv ==
  \A m \in posts : m.alone = "yes" /\ m.at # "end" =>
    /\ \A o \in posts : o.agent = m.agent /\ o # m => o.at = "end"
    /\ Followed(m)

Synced(a) ==
  /\ {d.service : d \in ServicesOf(address[a])} = svc[a]
  /\ IsKnown(a, address[a])

SettledInv ==
  \A a \in settled : /\ \A m \in posts : m.agent = a => m.at = "end"
                     /\ Synced(a)

(* The timer that is off is not thought to be set. *)
FollowInv ==
  /\ \A a \in Agents : retries_set[a] = "yes" => timer[a] # "off"
  /\ AlarmIsFollowedUp

RegistrationInv == RegistrationType /\ AloneInv /\ SettledInv /\ FollowInv

-----------------------------------------------------------------------------
(* The same registration, further on. *)
Continues(m, n) ==
  /\ n \in Registrations
  /\ n.agent = m.agent /\ n.endpoint = m.endpoint /\ n.services = m.services
  /\ n.alone = m.alone /\ (m.at = "end" => n.at = "end")
  /\ n.old = m.old \/ \A d \in n.old : d.endpoint = n.endpoint

LEMMA MovesOn ==
  ASSUME NEW m \in Registrations, NEW at \in Places, m.at # "end"
  PROVE  /\ Continues(m, [m EXCEPT !.at = at])
         /\ [m EXCEPT !.at = at].at = at
         /\ [m EXCEPT !.at = at].old = m.old
         /\ [m EXCEPT !.at = at].waits = m.waits
  BY DEF Continues, Registrations, Places

LEMMA WaitsNot ==
  ASSUME NEW m \in Registrations
  PROVE  /\ Continues(m, [m EXCEPT !.waits = "no"])
         /\ [m EXCEPT !.waits = "no"].at = m.at
         /\ [m EXCEPT !.waits = "no"].old = m.old
  BY DEF Continues, Registrations, YesNo

LEMMA ServicesRead ==
  ASSUME NEW m \in Registrations, m.at = "fill",
         NEW old \in SUBSET [service: Services, endpoint: Endpoints],
         \A d \in old : d.endpoint = m.endpoint
  PROVE  /\ Continues(m, [m EXCEPT !.at = "sync", !.old = old])
         /\ [m EXCEPT !.at = "sync", !.old = old].at = "sync"
         /\ [m EXCEPT !.at = "sync", !.old = old].old = old
         /\ [m EXCEPT !.at = "sync", !.old = old].waits = m.waits
  BY DEF Continues, Registrations, Places

(* An address belongs to one agent. *)
LEMMA OneOwner ==
  ASSUME NEW a \in Agents, NEW b \in Agents, NEW e \in Addresses[a], e \in Addresses[b]
  PROVE  a = b
  BY RegistrationAssumption

(* What one agent's registrations do to the tables leaves the others' part *)
(* as it is.                                                               *)
TablesOfOthers(a) ==
  /\ \A b \in Agents \ {a} : \A e \in Addresses[b] : IsKnown(b, e) => IsKnown(b, e)'
  /\ \A b \in Agents \ {a} : \A e \in Addresses[b] : ServicesOf(e)' = ServicesOf(e)

(* A registration under way goes on, and the manager's tables with it.     *)
LEMMA ManagerKeeps ==
  ASSUME RegistrationType, AloneInv, SettledInv,
         NEW m \in posts, m.at # "end", NEW n, Continues(m, n), posts' = With(m, n),
         UNCHANGED <<address, svc>>, TablesOfOthers(m.agent),
         m.alone = "yes" /\ n.at # "end" => Followed(n)',
         \/ settled' = settled
         \/ settled' = settled \cup {m.agent} /\ m.alone = "yes" /\ n.at = "end" /\ Synced(m.agent)'
  PROVE  AloneInv' /\ SettledInv'
<1>. DEFINE a == m.agent
<1>1. /\ m \in Registrations /\ a \in Agents /\ n.agent = a /\ n.alone = m.alone
      /\ posts' \subseteq (posts \ {m}) \cup {n} /\ a \notin settled
      /\ \A o \in posts : o.endpoint \in Addresses[o.agent] /\ o.agent \in Agents
  BY DEF RegistrationType, Registrations, Continues, With, SettledInv
<1>2. ASSUME NEW o \in posts \ {m}, o.agent # a
      PROVE  Followed(o) => Followed(o)'
  BY <1>1, <1>2 DEF Followed, TablesOfOthers, Posted
<1>3. AloneInv'
  <2>. SUFFICES ASSUME NEW o \in posts', o.alone = "yes", o.at # "end"
                PROVE  /\ \A u \in posts' : u.agent = o.agent /\ u # o => u.at = "end"
                       /\ Followed(o)'
    BY DEF AloneInv
  <2>1. CASE o = n
    BY <1>1, <2>1 DEF AloneInv
  <2>2. CASE o \in posts \ {m} /\ o.agent # a
    BY <1>1, <1>2, <2>2 DEF AloneInv
  <2>3. CASE o \in posts \ {m} /\ o.agent = a
    BY <1>1, <2>3 DEF AloneInv
  <2>. QED BY <1>1, <2>1, <2>2, <2>3
<1>4. ASSUME NEW b \in settled PROVE Synced(b)' /\ \A o \in posts' : o.agent = b => o.at = "end"
  <2>1. b \in Agents /\ b # a /\ address[b] \in Addresses[b] /\ Synced(b)
    BY <1>1 DEF RegistrationType, SettledInv
  <2>2. Synced(b)'
    BY <2>1 DEF Synced, TablesOfOthers
  <2>. QED BY <1>1, <2>1, <2>2 DEF SettledInv
<1>5. CASE settled' = settled
  BY <1>3, <1>4, <1>5 DEF SettledInv
<1>6. CASE settled' = settled \cup {a} /\ m.alone = "yes" /\ n.at = "end" /\ Synced(a)'
  <2>1. \A o \in posts' : o.agent = a => o.at = "end"
    BY <1>1, <1>6 DEF AloneInv
  <2>. QED BY <1>3, <1>4, <1>6, <2>1 DEF SettledInv
<1>. QED BY <1>5, <1>6

(* Who waits for a registration goes on waiting. *)
LEMMA ManagerTypes ==
  ASSUME RegistrationType, NEW m \in posts, NEW n, Continues(m, n), n.waits = m.waits,
         posts' = With(m, n), UNCHANGED <<address, svc, due, retries_set, timer, alarm, unsent>>,
         protocols' \subseteq [id: Agents, endpoint: Endpoints],
         mgmt' \subseteq [service: Services, endpoint: Endpoints],
         settled' \subseteq settled \cup {m.agent}
  PROVE  RegistrationType' /\ (FollowInv => FollowInv')
<1>1. RegistrationType'
  BY DEF RegistrationType, Continues, With, Registrations
<1>2. ASSUME NEW a \in Agents, NEW o \in posts, o.agent = a, o.waits = "yes"
      PROVE  \E u \in posts' : u.agent = a /\ u.waits = "yes"
  BY <1>2 DEF With, Continues
<1>. QED BY <1>1, <1>2 DEF FollowInv, AlarmIsFollowedUp, Stuck

-----------------------------------------------------------------------------
(* The steps of the manager. *)

(* What all of them leave alone. *)
AgentsRest == UNCHANGED <<address, svc, due, retries_set, timer, alarm, unsent>>

LEMMA HandledKeeps ==
  ASSUME RegistrationInv, NEW m \in posts, m.at # "end",
         NEW n, Continues(m, n), n.waits = m.waits, posts' = With(m, n), AgentsRest,
         protocols' \subseteq [id: Agents, endpoint: Endpoints],
         mgmt' \subseteq [service: Services, endpoint: Endpoints],
         TablesOfOthers(m.agent),
         m.alone = "yes" /\ n.at # "end" => Followed(n)',
         \/ settled' = settled
         \/ settled' = settled \cup {m.agent} /\ m.alone = "yes" /\ n.at = "end" /\ Synced(m.agent)'
  PROVE  RegistrationInv'
<1>1. RegistrationType /\ AloneInv /\ SettledInv /\ FollowInv
  BY DEF RegistrationInv
<1>2. RegistrationType' /\ FollowInv'
  BY <1>1, ManagerTypes DEF AgentsRest
<1>3. AloneInv' /\ SettledInv'
  BY <1>1, ManagerKeeps DEF AgentsRest
<1>. QED BY <1>2, <1>3 DEF RegistrationInv

(* Of a registration that is being handled. *)
LEMMA Handled ==
  ASSUME RegistrationType, NEW m \in posts
  PROVE  /\ m \in Registrations /\ m.endpoint \in Addresses[m.agent] /\ m.agent \in Agents
         /\ m.endpoint \in Endpoints /\ m.services \subseteq Services
         /\ protocols \subseteq [id: Agents, endpoint: Endpoints]
         /\ mgmt \subseteq [service: Services, endpoint: Endpoints]
         /\ \A d \in m.old : d.endpoint = m.endpoint
  BY DEF RegistrationType, Registrations, Endpoints

LEMMA UpdateByIdKeeps ==
  ASSUME RegistrationInv, NEW m \in posts, UpdateById(m)
  PROVE  RegistrationInv'
<1>1. RegistrationType /\ m.at = "net" /\ AgentsRest /\ mgmt' = mgmt /\ settled' = settled
  BY DEF RegistrationInv, UpdateById, ManagerStep, agents, retry, history, AgentsRest
<1>2. CASE posts' = With(m, [m EXCEPT !.at = "byendpoint"]) /\ protocols' = protocols
  <2>. DEFINE n == [m EXCEPT !.at = "byendpoint"]
  <2>1. Continues(m, n) /\ n.at = "byendpoint" /\ n.waits = m.waits /\ posts' = With(m, n)
    BY <1>1, <1>2, Handled, MovesOn DEF Places
  <2>2. TablesOfOthers(m.agent)
    BY <1>1, <1>2 DEF TablesOfOthers, IsKnown, ServicesOf
  <2>. HIDE DEF n
  <2>3. Followed(n)'
    BY <2>1 DEF Followed
  <2>. QED BY <1>1, <1>2, <2>1, <2>2, <2>3, Handled, HandledKeeps
<1>3. ASSUME NEW p \in protocols, p.id = m.agent,
             posts' = With(m, [m EXCEPT !.at = "fill"]),
             protocols' = (protocols \ {p}) \cup {[p EXCEPT !.endpoint = m.endpoint]}
      PROVE  RegistrationInv'
  <2>. DEFINE n == [m EXCEPT !.at = "fill"]
  <2>1. Continues(m, n) /\ n.at = "fill" /\ n.waits = m.waits /\ posts' = With(m, n)
    BY <1>1, <1>3, Handled, MovesOn DEF Places
  <2>. HIDE DEF n
  <2>2. [p EXCEPT !.endpoint = m.endpoint] = [id |-> m.agent, endpoint |-> m.endpoint]
    BY <1>1, <1>3, Handled
  <2>3. TablesOfOthers(m.agent)
    BY <1>1, <1>3, <2>2 DEF TablesOfOthers, IsKnown, ServicesOf
  <2>4. Followed(n)'
    BY <1>3, <2>1, <2>2 DEF Followed, IsKnown, Continues
  <2>5. protocols' \subseteq [id: Agents, endpoint: Endpoints]
    BY <1>1, <1>3, <2>2, Handled
  <2>. QED BY <1>1, <2>1, <2>3, <2>4, <2>5, Handled, HandledKeeps
<1>. QED BY <1>2, <1>3 DEF UpdateById

LEMMA UpdateByEndpointKeeps ==
  ASSUME RegistrationInv, NEW m \in posts, UpdateByEndpoint(m)
  PROVE  RegistrationInv'
<1>1. RegistrationType /\ m.at = "byendpoint" /\ AgentsRest /\ mgmt' = mgmt /\ settled' = settled
  BY DEF RegistrationInv, UpdateByEndpoint, ManagerStep, agents, retry, history, AgentsRest
<1>2. CASE posts' = With(m, [m EXCEPT !.at = "add"]) /\ protocols' = protocols
  <2>. DEFINE n == [m EXCEPT !.at = "add"]
  <2>1. Continues(m, n) /\ n.at = "add" /\ n.waits = m.waits /\ posts' = With(m, n)
    BY <1>1, <1>2, Handled, MovesOn DEF Places
  <2>2. TablesOfOthers(m.agent)
    BY <1>1, <1>2 DEF TablesOfOthers, IsKnown, ServicesOf
  <2>. HIDE DEF n
  <2>3. Followed(n)'
    BY <2>1 DEF Followed
  <2>. QED BY <1>1, <1>2, <2>1, <2>2, <2>3, Handled, HandledKeeps
<1>3. ASSUME NEW p \in protocols, p.endpoint = m.endpoint,
             posts' = With(m, [m EXCEPT !.at = "fill"]),
             protocols' = (protocols \ {p}) \cup {[p EXCEPT !.id = m.agent]}
      PROVE  RegistrationInv'
  <2>. DEFINE n == [m EXCEPT !.at = "fill"]
  <2>1. Continues(m, n) /\ n.at = "fill" /\ n.waits = m.waits /\ posts' = With(m, n)
    BY <1>1, <1>3, Handled, MovesOn DEF Places
  <2>. HIDE DEF n
  <2>2. [p EXCEPT !.id = m.agent] = [id |-> m.agent, endpoint |-> m.endpoint]
    BY <1>1, <1>3, Handled
  <2>3. TablesOfOthers(m.agent)
    <3>1. \A b \in Agents \ {m.agent} : \A e \in Addresses[b] : e # m.endpoint
      BY <1>1, Handled, OneOwner
    <3>. QED BY <1>1, <1>3, <2>2, <3>1 DEF TablesOfOthers, IsKnown, ServicesOf
  <2>4. Followed(n)'
    BY <1>3, <2>1, <2>2 DEF Followed, IsKnown, Continues
  <2>5. protocols' \subseteq [id: Agents, endpoint: Endpoints]
    BY <1>1, <1>3, <2>2, Handled
  <2>. QED BY <1>1, <2>1, <2>3, <2>4, <2>5, Handled, HandledKeeps
<1>. QED BY <1>2, <1>3 DEF UpdateByEndpoint

LEMMA AddEndpointKeeps ==
  ASSUME RegistrationInv, NEW m \in posts, AddEndpoint(m)
  PROVE  RegistrationInv'
<1>1. /\ RegistrationType /\ m.at = "add" /\ AgentsRest /\ mgmt' = mgmt /\ settled' = settled
      /\ posts' = With(m, [m EXCEPT !.at = "fill"])
      /\ protocols' = protocols \cup {[id |-> m.agent, endpoint |-> m.endpoint]}
  BY DEF RegistrationInv, AddEndpoint, ManagerStep, agents, retry, history, AgentsRest
<1>. DEFINE n == [m EXCEPT !.at = "fill"]
<1>2. Continues(m, n) /\ n.at = "fill" /\ n.waits = m.waits /\ posts' = With(m, n)
  BY <1>1, Handled, MovesOn DEF Places
<1>. HIDE DEF n
<1>3. TablesOfOthers(m.agent)
  BY <1>1 DEF TablesOfOthers, IsKnown, ServicesOf
<1>4. Followed(n)'
  BY <1>1, <1>2 DEF Followed, IsKnown, Continues
<1>5. protocols' \subseteq [id: Agents, endpoint: Endpoints]
  BY <1>1, Handled
<1>. QED BY <1>1, <1>2, <1>3, <1>4, <1>5, Handled, HandledKeeps

LEMMA FillServicesKeeps ==
  ASSUME RegistrationInv, NEW m \in posts, FillServices(m)
  PROVE  RegistrationInv'
<1>1. /\ RegistrationType /\ AloneInv /\ m.at = "fill" /\ AgentsRest
      /\ UNCHANGED <<protocols, mgmt, settled>>
      /\ posts' = With(m, [m EXCEPT !.at = "sync", !.old = ServicesOf(m.endpoint)])
  BY DEF RegistrationInv, FillServices, ManagerStep, agents, retry, tables, history, AgentsRest
<1>2. PICK old, n : old = ServicesOf(m.endpoint) /\ n = [m EXCEPT !.at = "sync", !.old = old]
  OBVIOUS
<1>3. Continues(m, n) /\ n.at = "sync" /\ n.old = old /\ n.waits = m.waits
  <2>1. old \in SUBSET [service: Services, endpoint: Endpoints] /\ \A d \in old : d.endpoint = m.endpoint
    BY <1>1, <1>2, Handled DEF ServicesOf
  <2>. QED BY <1>1, <1>2, <2>1, Handled, ServicesRead
<1>4. posts' = With(m, n)
  BY <1>1, <1>2
<1>5. TablesOfOthers(m.agent)
  BY <1>1 DEF TablesOfOthers, IsKnown, ServicesOf
<1>6. m.alone = "yes" => Followed(n)'
  <2>1. m.alone = "yes" => IsKnown(m.agent, m.endpoint)
    BY <1>1 DEF AloneInv, Followed
  <2>2. ServicesOf(m.endpoint)' = old
    BY <1>1, <1>2 DEF ServicesOf
  <2>. QED BY <1>1, <1>3, <2>1, <2>2 DEF Followed, IsKnown, Continues
<1>. QED BY <1>1, <1>3, <1>4, <1>5, <1>6, Handled, HandledKeeps

(* A registration posts services of its own address. *)
LEMMA PostedOwn ==
  ASSUME RegistrationType, NEW m \in posts
  PROVE  /\ Posted(m) \subseteq [service: Services, endpoint: Endpoints]
         /\ \A d \in Posted(m) : d.endpoint = m.endpoint
         /\ {d.service : d \in Posted(m)} = m.services
         /\ \A b \in Agents \ {m.agent} : \A e \in Addresses[b] : e # m.endpoint
<1>1. \A b \in Agents \ {m.agent} : \A e \in Addresses[b] : e # m.endpoint
  BY Handled, OneOwner
<1>2. \A d \in Posted(m) : \E s \in m.services : d = [service |-> s, endpoint |-> m.endpoint]
  BY DEF Posted
<1>3. \A s \in m.services : [service |-> s, endpoint |-> m.endpoint] \in Posted(m)
  BY DEF Posted
<1>4. {d.service : d \in Posted(m)} = m.services
  <2>1. \A s \in m.services : \E d \in Posted(m) : s = d.service
    BY <1>3
  <2>. QED BY <1>2, <2>1
<1>. QED BY <1>1, <1>2, <1>4, Handled

LEMMA UpsertServicesKeeps ==
  ASSUME RegistrationInv, NEW m \in posts, UpsertServices(m)
  PROVE  RegistrationInv'
<1>. DEFINE n == [m EXCEPT !.at = "clean"]
<1>1. /\ RegistrationType /\ AloneInv /\ m.at = "sync" /\ AgentsRest
      /\ UNCHANGED <<protocols, settled>> /\ posts' = With(m, n)
      /\ mgmt' = mgmt \cup Posted(m)
  BY DEF RegistrationInv, UpsertServices, ManagerStep, agents, retry, history, AgentsRest
<1>2. Continues(m, n) /\ n.at = "clean" /\ n.old = m.old /\ n.waits = m.waits
  BY <1>1, Handled, MovesOn DEF Places
<1>. HIDE DEF n
<1>3. TablesOfOthers(m.agent)
  BY <1>1, PostedOwn DEF TablesOfOthers, IsKnown, ServicesOf
<1>4. m.alone = "yes" => Followed(n)'
  <2>1. ServicesOf(m.endpoint)' = ServicesOf(m.endpoint) \cup Posted(m)
    BY <1>1, PostedOwn DEF ServicesOf
  <2>2. n.endpoint = m.endpoint /\ Posted(n) = Posted(m)
    BY <1>2 DEF Continues, Posted
  <2>3. m.alone = "yes" => ServicesOf(m.endpoint) = m.old /\ IsKnown(m.agent, m.endpoint)
    BY <1>1 DEF AloneInv, Followed
  <2>. QED BY <1>1, <1>2, <2>1, <2>2, <2>3 DEF Followed, IsKnown, Continues
<1>5. mgmt' \subseteq [service: Services, endpoint: Endpoints]
  BY <1>1, Handled, PostedOwn
<1>. QED BY <1>1, <1>2, <1>3, <1>4, <1>5, Handled, HandledKeeps

LEMMA RemoveOldServicesKeeps ==
  ASSUME RegistrationInv, NEW m \in posts, RemoveOldServices(m)
  PROVE  RegistrationInv'
<1>. DEFINE n == [m EXCEPT !.at = "end"]
<1>1. /\ RegistrationType /\ AloneInv /\ m.at = "clean" /\ AgentsRest
      /\ protocols' = protocols /\ posts' = With(m, n)
      /\ mgmt' = mgmt \ (m.old \ Posted(m))
      /\ settled' = IF Settles(m) THEN settled \cup {m.agent} ELSE settled
  BY DEF RegistrationInv, RemoveOldServices, ManagerStep, agents, retry, AgentsRest
<1>2. Continues(m, n) /\ n.at = "end" /\ n.waits = m.waits
  BY <1>1, Handled, MovesOn DEF Places
<1>. HIDE DEF n
<1>3. TablesOfOthers(m.agent)
  <2>1. \A d \in m.old \ Posted(m) : d.endpoint = m.endpoint
    BY <1>1, Handled
  <2>. QED BY <1>1, <2>1, PostedOwn DEF TablesOfOthers, IsKnown, ServicesOf
<1>4. Settles(m) => m.alone = "yes" /\ Synced(m.agent)'
  <2>. SUFFICES ASSUME Settles(m) PROVE m.alone = "yes" /\ Synced(m.agent)'
    OBVIOUS
  <2>1. /\ m.alone = "yes" /\ m.services = svc[m.agent] /\ m.endpoint = address[m.agent]
        /\ UNCHANGED <<svc, address>> /\ m.at # "end"
    BY <1>1 DEF Settles, AgentsRest
  <2>2. ServicesOf(m.endpoint) = m.old \cup Posted(m) /\ IsKnown(m.agent, m.endpoint)
    BY <1>1, <2>1 DEF AloneInv, Followed
  <2>3. ServicesOf(m.endpoint)' = Posted(m)
    BY <1>1, <2>2 DEF ServicesOf
  <2>. QED BY <1>1, <2>1, <2>2, <2>3, PostedOwn DEF Synced, IsKnown
<1>. QED BY <1>1, <1>2, <1>3, <1>4, Handled, HandledKeeps

LEMMA PostProtocolFailsKeeps ==
  ASSUME RegistrationInv, NEW m \in posts, PostProtocolFails(m)
  PROVE  RegistrationInv'
<1>. DEFINE n == [m EXCEPT !.at = "end"]
<1>1. /\ RegistrationType /\ m.at # "end" /\ AgentsRest
      /\ UNCHANGED <<protocols, mgmt, settled>> /\ posts' = With(m, n)
  BY DEF RegistrationInv, PostProtocolFails, agents, retry, tables, history, AgentsRest
<1>2. Continues(m, n) /\ n.at = "end" /\ n.waits = m.waits
  BY <1>1, Handled, MovesOn DEF Places
<1>. HIDE DEF n
<1>3. TablesOfOthers(m.agent)
  BY <1>1 DEF TablesOfOthers, IsKnown, ServicesOf
<1>. QED BY <1>1, <1>2, <1>3, Handled, HandledKeeps

-----------------------------------------------------------------------------
(* The steps of agents. *)

(* What the manager has to do with a registration. *)
Alike(m, n) ==
  /\ n.agent = m.agent /\ n.endpoint = m.endpoint /\ n.services = m.services
  /\ n.at = m.at /\ n.old = m.old /\ n.alone = m.alone

(* Nothing happens in the manager. *)
LEMMA AgentKeeps ==
  ASSUME AloneInv, SettledInv, UNCHANGED <<protocols, mgmt>>,
         NEW f, \A m \in posts : Alike(m, f[m]), posts' \subseteq {f[m] : m \in posts},
         settled' \subseteq settled,
         \A a \in settled' : address'[a] = address[a] /\ svc'[a] = svc[a]
  PROVE  AloneInv' /\ SettledInv'
<1>1. AloneInv'
  <2>. SUFFICES ASSUME NEW n \in posts', n.alone = "yes", n.at # "end"
                PROVE  /\ \A u \in posts' : u.agent = n.agent /\ u # n => u.at = "end"
                       /\ Followed(n)'
    BY DEF AloneInv
  <2>1. PICK m \in posts : n = f[m]
    OBVIOUS
  <2>2. /\ Alike(m, n) /\ Followed(m)
        /\ \A o \in posts : o.agent = m.agent /\ o # m => o.at = "end"
    BY <2>1 DEF AloneInv, Alike
  <2>3. Followed(n)'
    BY <2>2 DEF Alike, Followed, IsKnown, ServicesOf, Posted
  <2>4. ASSUME NEW u \in posts', u.agent = n.agent, u # n PROVE u.at = "end"
    <3>1. PICK o \in posts : u = f[o]
      OBVIOUS
    <3>2. o # m /\ Alike(o, u)
      BY <2>1, <2>4, <3>1
    <3>. QED BY <2>2, <2>4, <3>2 DEF Alike
  <2>. QED BY <2>3, <2>4
<1>2. \A a \in settled : \A n \in posts' : n.agent = a => n.at = "end"
  BY DEF SettledInv, Alike
<1>3. \A a \in settled' : Synced(a) /\ address'[a] = address[a] /\ svc'[a] = svc[a]
  BY DEF SettledInv
<1>4. \A a \in settled' : Synced(a)'
  BY <1>3 DEF Synced, IsKnown, ServicesOf
<1>. QED BY <1>1, <1>2, <1>4 DEF SettledInv

(* The registrations stay as they are, or are fewer. *)
LEMMA FewerKeeps ==
  ASSUME AloneInv, SettledInv, UNCHANGED <<protocols, mgmt>>, posts' \subseteq posts,
         settled' \subseteq settled,
         \A a \in settled' : address'[a] = address[a] /\ svc'[a] = svc[a]
  PROVE  AloneInv' /\ SettledInv'
<1>1. PICK f : f = [m \in posts |-> m]
  OBVIOUS
<1>2. \A m \in posts : f[m] = m
  BY <1>1
<1>3. \A m \in posts : Alike(m, f[m])
  BY <1>2 DEF Alike
<1>. QED BY <1>2, <1>3, AgentKeeps

LEMMA ServiceChangedKeeps ==
  ASSUME RegistrationInv, NEW a \in Agents, NEW new \in SUBSET Services, ServiceChanged(a, new)
  PROVE  RegistrationInv'
<1>1. /\ RegistrationType /\ AloneInv /\ SettledInv /\ FollowInv
      /\ svc' = [svc EXCEPT ![a] = new] /\ due' = [due EXCEPT ![a] = @ + 1]
      /\ settled' = settled \ {a}
      /\ UNCHANGED <<address, posts, retries_set, timer, alarm, protocols, mgmt, unsent>>
  BY DEF RegistrationInv, ServiceChanged, retry, tables
<1>2. RegistrationType'
  BY <1>1 DEF RegistrationType
<1>3. AloneInv' /\ SettledInv'
  <2>1. \A b \in settled' : address'[b] = address[b] /\ svc'[b] = svc[b]
    BY <1>1 DEF RegistrationType
  <2>. QED BY <1>1, <2>1, FewerKeeps
<1>4. FollowInv'
  BY <1>1 DEF RegistrationType, FollowInv, AlarmIsFollowedUp, Stuck
<1>. QED BY <1>2, <1>3, <1>4 DEF RegistrationInv

LEMMA RegisterThrowsKeeps ==
  ASSUME RegistrationInv, NEW a \in Agents, RegisterThrows(a)
  PROVE  RegistrationInv'
<1>1. /\ RegistrationType /\ AloneInv /\ SettledInv /\ FollowInv
      /\ due[a] > 0 /\ due' = [due EXCEPT ![a] = @ - 1]
      /\ settled' = settled \ {a} /\ unsent' = unsent \cup {a}
      /\ UNCHANGED <<address, svc, posts, retries_set, timer, alarm, protocols, mgmt>>
  BY DEF RegistrationInv, RegisterThrows, retry, tables
<1>2. RegistrationType'
  BY <1>1 DEF RegistrationType
<1>3. AloneInv' /\ SettledInv'
  BY <1>1, FewerKeeps
<1>4. FollowInv'
  BY <1>1 DEF RegistrationType, FollowInv, AlarmIsFollowedUp, Stuck
<1>. QED BY <1>2, <1>3, <1>4 DEF RegistrationInv

LEMMA TimerFiresKeeps ==
  ASSUME RegistrationInv, NEW a \in Agents, TimerFires(a)
  PROVE  RegistrationInv'
<1>1. /\ RegistrationType /\ AloneInv /\ SettledInv /\ FollowInv
      /\ timer[a] = "armed" /\ timer' = [timer EXCEPT ![a] = "fired"]
      /\ UNCHANGED <<address, svc, due, posts, retries_set, alarm, protocols, mgmt, settled, unsent>>
  BY DEF RegistrationInv, TimerFires, agents, tables, history
<1>2. RegistrationType'
  BY <1>1 DEF RegistrationType
<1>3. AloneInv' /\ SettledInv'
  BY <1>1, FewerKeeps
<1>4. FollowInv'
  BY <1>1 DEF RegistrationType, FollowInv, AlarmIsFollowedUp, Stuck
<1>. QED BY <1>2, <1>3, <1>4 DEF RegistrationInv

LEMMA TimeoutRegisterKeeps ==
  ASSUME RegistrationInv, NEW a \in Agents, TimeoutRegister(a)
  PROVE  RegistrationInv'
<1>1. /\ RegistrationType /\ AloneInv /\ SettledInv /\ FollowInv
      /\ timer[a] = "fired" /\ timer' = [timer EXCEPT ![a] = "off"]
      /\ retries_set' = [retries_set EXCEPT ![a] = "no"] /\ due' = [due EXCEPT ![a] = @ + 1]
      /\ UNCHANGED <<address, svc, posts, alarm, protocols, mgmt, settled, unsent>>
  BY DEF RegistrationInv, TimeoutRegister, tables, history
<1>2. RegistrationType'
  BY <1>1 DEF RegistrationType, YesNo
<1>3. AloneInv' /\ SettledInv'
  BY <1>1, FewerKeeps
<1>4. FollowInv'
  BY <1>1 DEF RegistrationType, FollowInv, AlarmIsFollowedUp, Stuck
<1>. QED BY <1>2, <1>3, <1>4 DEF RegistrationInv

LEMMA RegistrationAnsweredKeeps ==
  ASSUME RegistrationInv, NEW m \in posts, RegistrationAnswered(m)
  PROVE  RegistrationInv'
<1>1. /\ RegistrationType /\ AloneInv /\ SettledInv /\ FollowInv
      /\ posts' = posts \ {m} /\ alarm' = [alarm EXCEPT ![m.agent] = "off"]
      /\ UNCHANGED <<address, svc, due, retries_set, timer, protocols, mgmt, settled, unsent>>
  BY DEF RegistrationInv, RegistrationAnswered, agents, tables, history
<1>2. RegistrationType'
  BY <1>1 DEF RegistrationType
<1>3. AloneInv' /\ SettledInv'
  BY <1>1, FewerKeeps
<1>4. FollowInv'
  BY <1>1 DEF RegistrationType, FollowInv, AlarmIsFollowedUp, Stuck
<1>. QED BY <1>2, <1>3, <1>4 DEF RegistrationInv

(* A failure is followed by a retry, unless the timer is thought to be set *)
(* and is not.                                                             *)
LEMMA RegistrationFailsKeeps ==
  ASSUME RegistrationInv, NEW m \in posts, RegistrationFails(m)
  PROVE  RegistrationInv'
<1>1. /\ RegistrationType /\ AloneInv /\ SettledInv /\ FollowInv
      /\ SetRegisterRetries(m.agent) /\ alarm' = [alarm EXCEPT ![m.agent] = "on"]
      /\ UNCHANGED <<address, svc, due, protocols, mgmt, settled, unsent>>
  BY DEF RegistrationInv, RegistrationFails, agents, tables, history
<1>. DEFINE n == [m EXCEPT !.waits = "no"]
<1>2. /\ m \in Registrations /\ m.agent \in Agents /\ posts' \subseteq (posts \ {m}) \cup {n}
      /\ \A o \in posts \ {m} : o \in posts'
  BY <1>1, Handled DEF RegistrationFails, With
<1>3. /\ n \in Registrations /\ n.agent = m.agent /\ n.endpoint = m.endpoint
      /\ n.at = m.at /\ n.alone = m.alone /\ n.old = m.old /\ n.services = m.services
  BY <1>2, WaitsNot DEF Continues
<1>. HIDE DEF n
<1>4. /\ retries_set' \in [Agents -> YesNo] /\ timer' \in [Agents -> {"none", "armed", "fired", "off"}]
      /\ \A b \in Agents \ {m.agent} : retries_set'[b] = retries_set[b] /\ timer'[b] = timer[b]
      /\ retries_set'[m.agent] = "yes" /\ timer'[m.agent] # "off"
  BY <1>1, <1>2 DEF SetRegisterRetries, RegistrationType, YesNo, FollowInv
<1>5. RegistrationType'
  <2>1. /\ posts' \subseteq Registrations
        /\ \A o \in posts' : /\ o.endpoint \in Addresses[o.agent]
                             /\ \A d \in o.old : d.endpoint = o.endpoint
    BY <1>1, <1>2, <1>3 DEF RegistrationType
  <2>2. alarm' \in [Agents -> {"on", "off"}]
    BY <1>1 DEF RegistrationType
  <2>. QED BY <1>1, <1>4, <2>1, <2>2 DEF RegistrationType
<1>6. AloneInv' /\ SettledInv'
  <2>1. PICK f : f = [o \in posts |-> IF o = m THEN n ELSE o]
    OBVIOUS
  <2>2. f[m] = n /\ \A o \in posts \ {m} : f[o] = o
    BY <2>1
  <2>3. \A o \in posts : Alike(o, f[o])
    BY <1>3, <2>2 DEF Alike
  <2>4. posts' \subseteq {f[o] : o \in posts}
    BY <1>2, <2>2
  <2>. QED BY <1>1, <2>3, <2>4, AgentKeeps
<1>7. FollowInv'
  <2>1. ASSUME NEW b \in Agents, alarm'[b] = "on", ~Stuck(b)'
        PROVE  \/ timer'[b] \in {"armed", "fired"} \/ due'[b] > 0
               \/ \E o \in posts' : o.agent = b /\ o.waits = "yes"
    <3>1. CASE b = m.agent
      BY <1>4, <2>1, <3>1 DEF Stuck
    <3>2. CASE b # m.agent
      <4>1. alarm[b] = "on" /\ ~Stuck(b)
        BY <1>1, <1>4, <2>1, <3>2 DEF RegistrationType, Stuck
      <4>. QED BY <1>1, <1>2, <1>4, <3>2, <4>1 DEF FollowInv, AlarmIsFollowedUp
    <3>. QED BY <3>1, <3>2
  <2>. QED BY <1>1, <1>4, <2>1 DEF FollowInv, AlarmIsFollowedUp
<1>. QED BY <1>5, <1>6, <1>7 DEF RegistrationInv

LEMMA RestartKeeps ==
  ASSUME RegistrationInv, NEW a \in Agents, NEW e \in Addresses[a], Restart(a, e)
  PROVE  RegistrationInv'
<1>. DEFINE Left(m) == IF m.agent = a THEN [m EXCEPT !.waits = "no"] ELSE m
<1>1. /\ RegistrationType /\ AloneInv /\ SettledInv /\ FollowInv
      /\ address' = [address EXCEPT ![a] = e] /\ due' = [due EXCEPT ![a] = 1]
      /\ posts' \subseteq {Left(m) : m \in posts}
      /\ \A m \in posts : m.agent # a => m \in posts'
      /\ settled' = settled \ {a} /\ alarm' = [alarm EXCEPT ![a] = "off"]
      /\ timer' = [timer EXCEPT ![a] = "none"]
      /\ UNCHANGED <<svc, protocols, mgmt>> /\ unsent' = unsent \ {a}
  BY DEF RegistrationInv, Restart, tables
<1>2. \E r \in YesNo : retries_set' = [retries_set EXCEPT ![a] = r]
  BY DEF Restart, YesNo
<1>3. \A m \in posts : Left(m) \in Registrations /\ Alike(m, Left(m))
  <2>. SUFFICES ASSUME NEW m \in posts PROVE Left(m) \in Registrations /\ Alike(m, Left(m))
    OBVIOUS
  <2>1. m \in Registrations
    BY <1>1, Handled
  <2>2. CASE m.agent = a
    <3>1. PICK n : n = [m EXCEPT !.waits = "no"]
      OBVIOUS
    <3>2. Continues(m, n) /\ n.at = m.at /\ n.old = m.old
      BY <2>1, <3>1, WaitsNot
    <3>3. Alike(m, n) /\ n \in Registrations
      BY <3>2 DEF Continues, Alike
    <3>. QED BY <2>2, <3>1, <3>3
  <2>3. CASE m.agent # a
    BY <2>1, <2>3 DEF Alike
  <2>. QED BY <2>2, <2>3
<1>. HIDE DEF Left
<1>4. RegistrationType'
  <2>1. /\ posts' \subseteq Registrations
        /\ \A o \in posts' : /\ o.endpoint \in Addresses[o.agent]
                             /\ \A d \in o.old : d.endpoint = o.endpoint
    BY <1>1, <1>3 DEF RegistrationType, Alike
  <2>2. DOMAIN address' = Agents /\ \A b \in Agents : address'[b] \in Addresses[b]
    BY <1>1 DEF RegistrationType
  <2>3. /\ due' \in [Agents -> Nat] /\ alarm' \in [Agents -> {"on", "off"}]
        /\ timer' \in [Agents -> {"none", "armed", "fired", "off"}]
        /\ retries_set' \in [Agents -> YesNo]
    BY <1>1, <1>2 DEF RegistrationType
  <2>. QED BY <1>1, <2>1, <2>2, <2>3 DEF RegistrationType
<1>5. AloneInv' /\ SettledInv'
  <2>1. PICK f : f = [m \in posts |-> Left(m)]
    OBVIOUS
  <2>2. \A m \in posts : f[m] = Left(m)
    BY <2>1
  <2>3. \A m \in posts : Alike(m, f[m])
    BY <1>3, <2>2
  <2>4. posts' \subseteq {f[m] : m \in posts}
    BY <1>1, <2>2
  <2>5. \A b \in settled' : address'[b] = address[b] /\ svc'[b] = svc[b]
    BY <1>1 DEF RegistrationType
  <2>. QED BY <1>1, <2>3, <2>4, <2>5, AgentKeeps
<1>6. FollowInv'
  <2>1. \A b \in Agents : retries_set'[b] = "yes" => timer'[b] # "off"
    BY <1>1, <1>2 DEF RegistrationType, FollowInv
  <2>2. ASSUME NEW b \in Agents, alarm'[b] = "on", ~Stuck(b)'
        PROVE  \/ timer'[b] \in {"armed", "fired"} \/ due'[b] > 0
               \/ \E o \in posts' : o.agent = b /\ o.waits = "yes"
    <3>1. b # a /\ alarm[b] = "on" /\ ~Stuck(b) /\ timer'[b] = timer[b] /\ due'[b] = due[b]
      BY <1>1, <1>2, <2>2 DEF RegistrationType, Stuck
    <3>. QED BY <1>1, <3>1 DEF FollowInv, AlarmIsFollowedUp
  <2>. QED BY <2>1, <2>2 DEF FollowInv, AlarmIsFollowedUp
<1>. QED BY <1>4, <1>5, <1>6 DEF RegistrationInv

(* register_iota_manager() begins a registration; those of the agent that  *)
(* are under way have met another.                                         *)
LEMMA RegisterIotaManagerKeeps ==
  ASSUME RegistrationInv, NEW a \in Agents, RegisterIotaManager(a)
  PROVE  RegistrationInv'
<1>. DEFINE Meet(m) == [m EXCEPT !.alone = "no"]
<1>1. PICK others, k, new :
        /\ others = {m \in posts : m.agent = a /\ m.at # "end"}
        /\ k = Free(a)
        /\ new = [agent |-> a, n |-> k, endpoint |-> address[a],
                  services |-> svc[a], at |-> "net", old |-> {}, waits |-> "yes",
                  alone |-> IF others = {} THEN "yes" ELSE "no"]
  OBVIOUS
<1>2. /\ RegistrationType /\ AloneInv /\ SettledInv /\ FollowInv
      /\ due[a] > 0 /\ due' = [due EXCEPT ![a] = @ - 1]
      /\ posts' = (posts \ others) \cup {Meet(m) : m \in others} \cup {new}
      /\ settled' = settled \ {a} /\ unsent' = unsent \ {a}
      /\ UNCHANGED <<address, svc, retries_set, timer, alarm, protocols, mgmt>>
  BY <1>1 DEF RegistrationInv, RegisterIotaManager, retry, tables
<1>3. k \in 0..MaxPosts - 1
  BY <1>1 DEF RegisterIotaManager, Free
<1>4. /\ new \in Registrations /\ new.agent = a /\ new.at = "net" /\ new.waits = "yes"
      /\ new.endpoint = address[a] /\ new.old = {}
      /\ new.alone = "yes" => others = {}
  <2>1. svc[a] \in SUBSET Services /\ address[a] \in Endpoints
    BY <1>2 DEF RegistrationType, Endpoints
  <2>. QED BY <1>1, <1>3, <2>1 DEF Registrations, Places, YesNo
<1>5. \A m \in posts : /\ Meet(m) \in Registrations /\ Meet(m).agent = m.agent
                       /\ Meet(m).endpoint = m.endpoint /\ Meet(m).old = m.old
                       /\ Meet(m).waits = m.waits /\ Meet(m).alone = "no"
  <2>1. \A m \in Registrations :
          /\ Meet(m) \in Registrations /\ Meet(m).agent = m.agent
          /\ Meet(m).endpoint = m.endpoint /\ Meet(m).old = m.old
          /\ Meet(m).waits = m.waits /\ Meet(m).alone = "no"
    BY DEF Registrations, YesNo
  <2>. QED BY <1>2, <2>1 DEF RegistrationType
<1>. HIDE DEF Meet
<1>6. RegistrationType'
  <2>1. /\ posts' \subseteq Registrations
        /\ \A o \in posts' : /\ o.endpoint \in Addresses[o.agent]
                             /\ \A d \in o.old : d.endpoint = o.endpoint
    <3>1. \A o \in posts' : \/ o \in posts \/ o = new
                            \/ \E m \in posts : o = Meet(m)
      BY <1>1, <1>2
    <3>2. \A m \in posts : /\ m \in Registrations /\ m.endpoint \in Addresses[m.agent]
                           /\ \A d \in m.old : d.endpoint = m.endpoint
      BY <1>2 DEF RegistrationType
    <3>3. new.endpoint \in Addresses[new.agent] /\ new.old = {}
      BY <1>2, <1>4 DEF RegistrationType
    <3>. QED BY <1>4, <1>5, <3>1, <3>2, <3>3
  <2>2. due' \in [Agents -> Nat]
    BY <1>2 DEF RegistrationType
  <2>. QED BY <1>2, <2>1, <2>2 DEF RegistrationType
<1>7. AloneInv'
  <2>. SUFFICES ASSUME NEW n \in posts', n.alone = "yes", n.at # "end"
                PROVE  /\ \A u \in posts' : u.agent = n.agent /\ u # n => u.at = "end"
                       /\ Followed(n)'
    BY DEF AloneInv
  <2>1. CASE n = new
    <3>1. \A u \in posts' : u.agent = a /\ u # n => u.at = "end"
      BY <1>1, <1>2, <1>4, <2>1
    <3>2. Followed(n)'
      BY <1>4, <2>1 DEF Followed
    <3>. QED BY <1>4, <2>1, <3>1, <3>2
  <2>2. CASE n \in posts \ others
    <3>1. n.agent # a /\ Followed(n) /\ \A u \in posts : u.agent = n.agent /\ u # n => u.at = "end"
      BY <1>1, <1>2, <2>2 DEF AloneInv
    <3>2. Followed(n)'
      BY <1>2, <3>1 DEF Followed, IsKnown, ServicesOf, Posted
    <3>. QED BY <1>1, <1>2, <1>4, <1>5, <3>1, <3>2
  <2>3. CASE n \in {Meet(m) : m \in others}
    BY <1>1, <1>5, <2>3
  <2>. QED BY <1>2, <2>1, <2>2, <2>3
<1>8. SettledInv'
  <2>. SUFFICES ASSUME NEW b \in settled'
                PROVE  (\A o \in posts' : o.agent = b => o.at = "end") /\ Synced(b)'
    BY DEF SettledInv
  <2>1. b # a /\ b \in settled /\ Synced(b) /\ \A o \in posts : o.agent = b => o.at = "end"
    BY <1>2 DEF SettledInv
  <2>2. Synced(b)'
    BY <1>2, <2>1 DEF Synced, IsKnown, ServicesOf
  <2>. QED BY <1>1, <1>2, <1>4, <1>5, <2>1, <2>2
<1>9. FollowInv'
  <2>1. ASSUME NEW b \in Agents, alarm'[b] = "on", ~Stuck(b)'
        PROVE  \/ timer'[b] \in {"armed", "fired"} \/ due'[b] > 0
               \/ \E o \in posts' : o.agent = b /\ o.waits = "yes"
    <3>1. CASE b = a
      BY <1>2, <1>4, <3>1
    <3>2. CASE b # a
      <4>1. alarm[b] = "on" /\ ~Stuck(b) /\ due'[b] = due[b] /\ timer'[b] = timer[b]
        BY <1>2, <2>1, <3>2 DEF RegistrationType, Stuck
      <4>2. \A o \in posts : o.agent = b => o \in posts'
        BY <1>1, <1>2, <3>2
      <4>. QED BY <1>2, <4>1, <4>2 DEF FollowInv, AlarmIsFollowedUp
    <3>. QED BY <3>1, <3>2
  <2>. QED BY <1>2, <2>1 DEF FollowInv, AlarmIsFollowedUp
<1>. QED BY <1>6, <1>7, <1>8, <1>9 DEF RegistrationInv

-----------------------------------------------------------------------------
LEMMA RegistrationStart == RegistrationInit => RegistrationInv
<1>. SUFFICES ASSUME RegistrationInit PROVE RegistrationInv
  OBVIOUS
<1>1. /\ address = FirstAddress /\ svc = [a \in Agents |-> FirstServices]
      /\ due = [a \in Agents |-> IF a \in Known THEN 0 ELSE 1] /\ posts = {}
      /\ retries_set \in [Agents -> {"yes", "no"}]
      /\ timer = [a \in Agents |-> "none"] /\ alarm = [a \in Agents |-> "off"]
      /\ protocols = {[id |-> a, endpoint |-> FirstAddress[a]] : a \in Known}
      /\ mgmt = [service: FirstServices, endpoint: {FirstAddress[a] : a \in Known}]
      /\ settled = Known
  BY DEF RegistrationInit
<1>2. RegistrationType
  <2>1. \A a \in Agents : FirstAddress[a] \in Addresses[a] /\ FirstAddress[a] \in Endpoints
    BY RegistrationAssumption
  <2>2. /\ protocols \subseteq [id: Agents, endpoint: Endpoints]
        /\ mgmt \subseteq [service: Services, endpoint: Endpoints]
    BY <1>1, <2>1, RegistrationAssumption
  <2>3. DOMAIN address = Agents /\ \A a \in Agents : address[a] \in Addresses[a]
    BY <1>1, <2>1, RegistrationAssumption
  <2>. QED BY <1>1, <2>2, <2>3, RegistrationAssumption DEF RegistrationType, YesNo
<1>3. AloneInv
  BY <1>1 DEF AloneInv
<1>4. ASSUME NEW a \in Known PROVE Synced(a)
  <2>1. a \in Agents /\ address[a] = FirstAddress[a] /\ svc[a] = FirstServices
    BY <1>1, RegistrationAssumption
  <2>2. ServicesOf(address[a]) = {[service |-> s, endpoint |-> address[a]] : s \in FirstServices}
    BY <1>1, <2>1 DEF ServicesOf
  <2>3. {d.service : d \in ServicesOf(address[a])} = svc[a]
    <3>1. \A d \in ServicesOf(address[a]) : d.service \in FirstServices
      BY <2>2
    <3>2. \A s \in FirstServices : \E d \in ServicesOf(address[a]) : s = d.service
      <4>. SUFFICES ASSUME NEW s \in FirstServices
                    PROVE  \E d \in ServicesOf(address[a]) : s = d.service
        OBVIOUS
      <4>1. [service |-> s, endpoint |-> address[a]] \in ServicesOf(address[a])
        BY <2>2
      <4>. QED BY <4>1
    <3>. QED BY <2>1, <3>1, <3>2
  <2>4. IsKnown(a, address[a])
    BY <1>1, <2>1 DEF IsKnown
  <2>. QED BY <2>3, <2>4 DEF Synced
<1>5. SettledInv
  BY <1>1, <1>4 DEF SettledInv
<1>6. FollowInv
  BY <1>1 DEF FollowInv, AlarmIsFollowedUp
<1>. QED BY <1>2, <1>3, <1>5, <1>6 DEF RegistrationInv

LEMMA RegistrationStep == RegistrationInv /\ [RegistrationNext]_registrationVars => RegistrationInv'
<1>. SUFFICES ASSUME RegistrationInv, [RegistrationNext]_registrationVars PROVE RegistrationInv'
  OBVIOUS
<1>1. CASE UNCHANGED registrationVars
  <2>. USE <1>1 DEF registrationVars
  <2>1. RegistrationType'
    BY DEF RegistrationInv, RegistrationType
  <2>2. AloneInv'
    BY DEF RegistrationInv, AloneInv, Followed, IsKnown, ServicesOf, Posted
  <2>3. SettledInv'
    BY DEF RegistrationInv, SettledInv, Synced, IsKnown, ServicesOf
  <2>4. FollowInv'
    BY DEF RegistrationInv, FollowInv, AlarmIsFollowedUp, Stuck
  <2>. QED BY <2>1, <2>2, <2>3, <2>4 DEF RegistrationInv
<1>2. ASSUME NEW a \in Agents, AgentStep(a) PROVE RegistrationInv'
  BY <1>2, RegisterIotaManagerKeeps, TimerFiresKeeps, TimeoutRegisterKeeps DEF AgentStep
<1>3. ASSUME NEW a \in Agents, RegisterThrows(a) PROVE RegistrationInv'
  BY <1>3, RegisterThrowsKeeps
<1>4. ASSUME NEW a \in Agents, NEW new \in SUBSET Services, ServiceChanged(a, new)
      PROVE  RegistrationInv'
  BY <1>4, ServiceChangedKeeps
<1>5. ASSUME NEW a \in Agents, NEW e \in Addresses[a], Restart(a, e) PROVE RegistrationInv'
  BY <1>5, RestartKeeps
<1>6. ASSUME NEW m \in posts, HandlePost(m) PROVE RegistrationInv'
  BY <1>6, UpdateByIdKeeps, UpdateByEndpointKeeps, AddEndpointKeeps, FillServicesKeeps,
     UpsertServicesKeeps, RemoveOldServicesKeeps DEF HandlePost
<1>7. ASSUME NEW m \in posts, RegistrationAnswered(m) PROVE RegistrationInv'
  BY <1>7, RegistrationAnsweredKeeps
<1>8. ASSUME NEW m \in posts, RegistrationFails(m) PROVE RegistrationInv'
  BY <1>8, RegistrationFailsKeeps
<1>9. ASSUME NEW m \in posts, PostProtocolFails(m) PROVE RegistrationInv'
  BY <1>9, PostProtocolFailsKeeps
<1>. QED BY <1>1, <1>2, <1>3, <1>4, <1>5, <1>6, <1>7, <1>8, <1>9 DEF RegistrationNext

(* Once the only registration of an agent was handled, the manager has its *)
(* services and its address; and a raised alarm is followed up             *)
(* (register_iota_manager(), post_protocol_json(), set_register_retries()).*)
THEOREM ManagerAgrees == RegistrationSpec => []RegistrationHolds
<1>1. RegistrationInv => RegistrationHolds
  <2>. SUFFICES ASSUME RegistrationInv PROVE SettledIsSynced /\ AlarmIsFollowedUp
    BY DEF RegistrationHolds
  <2>1. SettledIsSynced
    BY DEF RegistrationInv, SettledInv, Synced, IsKnown, SettledIsSynced
  <2>. QED BY <2>1 DEF RegistrationInv, FollowInv
<1>. QED BY <1>1, RegistrationStart, RegistrationStep, PTL DEF RegistrationSpec
=============================================================================
