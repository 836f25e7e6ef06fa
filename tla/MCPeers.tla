------------------------------ MODULE MCPeers -------------------------------
(* What an agent sends to its two peers in the north, on small instances:  *)
(* either two sends to a Context Broker, one of each kind, or an agent     *)
(* that registers in the IoT Agent Manager and may change its address.     *)
EXTENDS ContextBroker, AgentRegistration

VARIABLE peer   \* whom the agent speaks to

CONSTANTS a1, e1, f1, e2

MCUrl == [s \in Sends |-> CHOOSE u \in Urls : TRUE]
MixedKinds == [s \in Sends |-> IF s = CHOOSE x \in Sends : TRUE THEN "sync" ELSE "async"]
TrustTokens == [s \in Sends |-> "trust"]

MCAddresses == [a \in Agents |-> IF a = a1 THEN {e1, f1} ELSE {e2}]
MCFirst == [a \in Agents |-> IF a = a1 THEN e1 ELSE e2]

(* Nothing is registered and nothing is to be. *)
RegistrationOff ==
  /\ address = FirstAddress /\ svc = [a \in Agents |-> {}] /\ due = [a \in Agents |-> 0]
  /\ posts = {} /\ retries_set = [a \in Agents |-> "no"] /\ timer = [a \in Agents |-> "none"]
  /\ alarm = [a \in Agents |-> "off"] /\ protocols = {} /\ mgmt = {}
  /\ settled = {} /\ unsent = {} /\ events = 0

PeersInit ==
  \/ peer = "broker" /\ Init /\ RegistrationOff
  \/ peer = "manager" /\ RegistrationInit /\ Init

PeersNext ==
  /\ \/ peer = "broker" /\ Next /\ UNCHANGED registrationVars
     \/ peer = "manager" /\ RegistrationNext /\ UNCHANGED vars
  /\ UNCHANGED peer

(* The one that is not at work has nothing to do. *)
PeersSpec ==
  /\ PeersInit /\ [][PeersNext]_<<peer, vars, registrationVars>>
  /\ Fairness /\ RegistrationFairness
=============================================================================
