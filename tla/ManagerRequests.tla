--------------------------- MODULE ManagerRequests ---------------------------
(***************************************************************************)
(* Requests for services and devices to the IoT Agent Manager              *)
(* (services/admin_mgmt_service.cc).  The manager holds neither: it sends  *)
(* every item of the request to every agent it knows for the item's        *)
(* protocol, one after the other and each with a timeout, and makes one    *)
(* answer of theirs.  GET devices is the DevicePages this module extends.  *)
(*                                                                         *)
(* An item is a service or a device with its protocol.  The two maps       *)
(* response_from_iotagent and response_from_iotagent_nok are the sets of   *)
(* their keys, which are endpoints.                                        *)
(***************************************************************************)
EXTENDS DevicePages, FiniteSets

CONSTANTS
  Endpoints,     \* agents
  Items,         \* what a request may be about
  Protocols,
  ProtocolOf     \* ProtocolOf[i]: the protocol item i names

ASSUME RequestsAssumption == ProtocolOf \in [Items -> Protocols]

VARIABLES
  table,   \* table[p]: endpoints of p in PROTOCOL or SERVICE_MGMT, {} if unknown
  req,     \* the request
  done     \* items the agents have taken over, <<item, endpoint>>

reqVars == <<table, req, done>>

OfServices == {"PostService", "PutService", "DeleteService"}

NoRequest == [kind |-> "none", todo |-> {}, all |-> {}, ok |-> {}, nok |-> {},
              thrown |-> {}, code |-> 0]

NoPage ==
  /\ limit = 0 /\ offset = 0 /\ asked = NumAgents /\ limitI = 0 /\ offsetI = 0
  /\ total = 0 /\ page = {} /\ sent = 0 /\ skipped = "no"

RequestInit ==
  /\ table \in [Protocols -> SUBSET Endpoints]
  /\ req = NoRequest
  /\ done = {}

Send(kind, items) ==
  LET all == {x \in items \X Endpoints : x[2] \in table[ProtocolOf[x[1]]]}
  IN  req' = [NoRequest EXCEPT !.kind = kind, !.todo = all, !.all = all]

Refuse(kind, code) == req' = [NoRequest EXCEPT !.kind = kind, !.code = code]

Unknown(items) == \E i \in items : table[ProtocolOf[i]] = {}

(* getElementsFromBSON() refuses an unknown protocol, whatever the other   *)
(* items are.                                                              *)
PostService(items) ==
  /\ req.kind = "none"
  /\ IF Unknown(items) THEN Refuse("PostService", 400) ELSE Send("PostService", items)
  /\ UNCHANGED <<table, done>>

PutService(items) ==
  /\ req.kind = "none"
  /\ IF Unknown(items) THEN Refuse("PutService", 400) ELSE Send("PutService", items)
  /\ UNCHANGED <<table, done>>

DeleteService(i) ==
  /\ req.kind = "none"
  /\ IF Unknown({i}) THEN Refuse("DeleteService", 404) ELSE Send("DeleteService", {i})
  /\ UNCHANGED <<table, done>>

(* post_device_json() and resolve_endpoints(). *)
PostDevice(items) ==
  /\ req.kind = "none"
  /\ IF Unknown(items) THEN Refuse("PostDevice", 400) ELSE Send("PostDevice", items)
  /\ UNCHANGED <<table, done>>

(* get_iotagents_by_service() throws when there is no agent. *)
PutDevice(i) ==
  /\ req.kind = "none"
  /\ IF Unknown({i}) THEN Refuse("PutDevice", 404) ELSE Send("PutDevice", {i})
  /\ UNCHANGED <<table, done>>

DeleteDevice(i) ==
  /\ req.kind = "none"
  /\ IF Unknown({i}) THEN Refuse("DeleteDevice", 404) ELSE Send("DeleteDevice", {i})
  /\ UNCHANGED <<table, done>>

(* get_a_device_json(): without agents the answer is an empty list. *)
GetDevice(i) ==
  /\ req.kind = "none"
  /\ Send("GetDevice", {i})
  /\ UNCHANGED <<table, done>>

----------------------------------------------------------------------------
Ok(x) == req' = [req EXCEPT !.todo = @ \ {x}, !.ok = @ \cup {x[2]}]

Nok(x) == req' = [req EXCEPT !.todo = @ \ {x}, !.nok = @ \cup {x[2]}]

(* check_alarm(): the agent has done it and the answer has come in time.   *)
Confirmed(x) == done' = done \cup {x} /\ Ok(x)

(* It has answered with another status, does not answer, or has done it    *)
(* and the answer comes too late.                                          *)
Failed(x) == (done' = done \/ done' = done \cup {x}) /\ Nok(x)

OperationDeviceSilent(x) ==
  /\ req.kind \notin OfServices /\ x \in req.todo
  /\ \/ Confirmed(x) \/ Failed(x)
     \/ req' = [req EXCEPT !.todo = @ \ {x}] /\ UNCHANGED done
  /\ UNCHANGED table

(* operation_device_iotagent(): the exception of an address that cannot be *)
(* resolved is an error like the others.                                   *)
OperationDevice(x) ==
  /\ req.kind \notin OfServices /\ x \in req.todo
  /\ Confirmed(x) \/ Failed(x)
  /\ UNCHANGED table

OperationServiceCounted(x) ==
  /\ req.kind \in OfServices /\ x \in req.todo
  /\ \/ Confirmed(x)
     \/ Failed(x)
     \/ Ok(x) /\ UNCHANGED done
  /\ UNCHANGED table

(* The body of the loops of post_service_json(), put_service_json() and    *)
(* delete_service_json(): there the exception only raises an alarm.        *)
OperationService(x) ==
  /\ req.kind \in OfServices /\ x \in req.todo
  /\ \/ Confirmed(x)
     \/ Failed(x)
     \/ /\ req' = [req EXCEPT !.todo = @ \ {x}, !.thrown = @ \cup {x}]
        /\ UNCHANGED done
  /\ UNCHANGED table

(* The loops of the handlers: who is asked next is the order of the tables. *)
DeployServices(x) == req.kind = "PostService" /\ OperationService(x)
UpdateServices(x) == req.kind = "PutService" /\ OperationService(x)
UndeployServices(x) == req.kind = "DeleteService" /\ OperationService(x)
PostMultipleDevices(x) == req.kind = "PostDevice" /\ OperationDevice(x)
PutMultipleDevices(x) == req.kind = "PutDevice" /\ OperationDevice(x)
DeleteMultipleDevices(x) == req.kind = "DeleteDevice" /\ OperationDevice(x)
ReceiveGetDevices(x) == req.kind = "GetDevice" /\ OperationDevice(x)

(* The status of the answer; errors are in it (add_errors_to_response())   *)
(* when nok is not empty.                                                  *)
Code(r) ==
  LET created == r.kind \in {"PostService", "PostDevice"}
  IN  CASE r.kind = "GetDevice" -> 200
        [] r.kind # "GetDevice" /\ r.ok = {} -> IF created THEN 500 ELSE 404
        [] r.kind # "GetDevice" /\ r.ok # {} /\ r.nok # {} -> 200
        [] OTHER -> IF created THEN 201 ELSE 204

Answer ==
  /\ req.kind # "none" /\ req.todo = {} /\ req.code = 0
  /\ req' = [req EXCEPT !.code = Code(req)]
  /\ UNCHANGED <<table, done>>

RequestNext ==
  \/ \E items \in SUBSET Items \ {{}} :
       PostService(items) \/ PutService(items) \/ PostDevice(items)
  \/ \E i \in Items :
       DeleteService(i) \/ PutDevice(i) \/ DeleteDevice(i) \/ GetDevice(i)
  \/ \E x \in req.todo :
       \/ DeployServices(x) \/ UpdateServices(x) \/ UndeployServices(x)
       \/ PostMultipleDevices(x) \/ PutMultipleDevices(x) \/ DeleteMultipleDevices(x)
       \/ ReceiveGetDevices(x)
  \/ Answer

(* A request is one for a page of devices, or one of the others. *)
ManagerInit ==
  \/ PageInit /\ table = [p \in Protocols |-> {}] /\ done = {}
     /\ req = [NoRequest EXCEPT !.kind = "GetDevices"]
  \/ RequestInit /\ NoPage

ManagerNext ==
  \/ req.kind = "GetDevices" /\ PageNext /\ UNCHANGED reqVars
  \/ req.kind # "GetDevices" /\ RequestNext /\ UNCHANGED pageVars

ManagerSpec == ManagerInit /\ [][ManagerNext]_<<pageVars, reqVars>>

----------------------------------------------------------------------------
Undone == req.all \ done

(* What an answer says of the agents is true: 201 and 204 that every agent *)
(* has taken over every item, apart from agents whose address could not be *)
(* resolved for a service; 200 for a change that some agent has and that   *)
(* the errors name every agent with an item missing, apart from the same;  *)
(* 400 that nothing was done (the loops of admin_mgmt_service.cc).         *)
AnswerIsTruthful ==
  /\ req.code \in {201, 204} => Undone = req.thrown
  /\ req.code = 200 /\ req.kind # "GetDevice" =>
       done # {} /\ req.nok # {} /\ \A x \in Undone \ req.thrown : x[2] \in req.nok
  /\ req.code = 400 => done = {}

(* An error status is not the whole truth: an agent may have done it and   *)
(* answered too late.  It does say that no agent has confirmed anything,   *)
(* and every agent that was reached is named in the errors (the same       *)
(* loops).                                                                 *)
ErrorsAreComplete ==
  req.code \in {404, 500} =>
    req.ok = {} /\ req.nok = {x[2] : x \in req.all \ req.thrown}

(* What the manager answers is what happened at the agents, be it good     *)
(* or bad.                                                                 *)
AnswersAreTrue == AnswerIsTruthful /\ ErrorsAreComplete
=============================================================================
