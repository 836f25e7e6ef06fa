---------------------------- MODULE NgsiRequests -----------------------------
(***************************************************************************)
(* The requests of the Context Broker: updateContext with commands and     *)
(* queryContext for them (rest/command_handle.cc, the classes of ngsi/),   *)
(* what the two plugins make of a command (transform_command and           *)
(* execute_command of ultra_light/ul20_service.cc and mqtt/MqttService.cc) *)
(* and the search for the device of an entity (rest/rest_handle.cc).       *)
(*                                                                         *)
(* The life of a command after it is saved is in CommandHandle: here one   *)
(* request is followed from its arrival to its answer.  Names and values   *)
(* are texts (UlText); a value of a command may also be a JSON object.     *)
(***************************************************************************)
EXTENDS UlText, FiniteSets, Arranged

CONSTANTS
  NgsiDevices,   \* sets of devices: what is provisioned in the service
  NgsiInputs     \* requests: see ReceiveUpdateContext and ReceiveQueryContext

(* Templates and values are texts, of words and separators.  A value of an *)
(* attribute may be absent.                                                *)
Symbols == {"|", "="} \cup STRING

NgsiDevicesAssumption ==
  \A found \in NgsiDevices : \A d \in found :
    \A n \in DOMAIN d.commands : d.commands[n] \in Seq(Symbols)
ASSUME NgsiDevicesAssumption

ValueOK(v) ==
  /\ v.kind = "text" => v.text \in Seq(Symbols)
  /\ v.kind = "object" =>
       /\ IsList(v.members)
       /\ \A i \in DOMAIN v.members :
            v.members[i].name \in Symbols /\ v.members[i].text \in Seq(Symbols)

NgsiInputsAssumption ==
  \A r \in NgsiInputs :
    /\ {"op", "elements"} \subseteq DOMAIN r
    /\ r.op \in {"update", "query"} /\ IsList(r.elements)
    /\ \A k \in DOMAIN r.elements :
         LET attributes == r.elements[k].attributes
         IN  /\ "attributes" \in DOMAIN r.elements[k]
             /\ IsList(attributes)
             /\ \A j \in DOMAIN attributes :
                  /\ attributes[j].value.kind \in {"text", "object", "absent"}
                  /\ ValueOK(attributes[j].value)
ASSUME NgsiInputsAssumption

VARIABLES
  plugin,      \* "ul20" or "mqtt"
  devices,     \* the devices of the service
  ngsi,        \* the request at work
  npc,         \* where the handler stands
  elem,        \* the element of the request at work
  attr,        \* the attribute of it
  item_dev,    \* the device of the element
  line,        \* command_id and body of the command at work
  rescode,     \* the code of the ContextResponse of the element
  answers,   \* the ContextResponses so far
  notified,   \* statuses published in the Context Broker
  stored,      \* commands in the cache, and in the collection if in_db
  pushed       \* commands given to the transport of the plugin

ngsiVars == <<plugin, devices, ngsi, npc, elem, attr, item_dev, line, rescode,
              answers, notified, stored, pushed>>

NoInput == [op |-> "none", service |-> "known", path |-> "/", body |-> "ok",
            elements |-> <<>>]
NoDevice == [name |-> "none"]
NoLine == [id |-> <<>>, body |-> <<>>]

RAW == <<"raw">>

----------------------------------------------------------------------------
(* Attribute(Value): an empty value is replaced by a blank, which the      *)
(* plugins trim; an attribute without a value has none, and                *)
(* ContextElement::add_attribute() leaves it out.                          *)
Parsed(e) ==
  [e EXCEPT !.attributes = AtPlaces(@, {i \in DOMAIN @ : @[i].value.kind # "absent"})]

(* json_value_to_ul(): the members of an object as name=value, between |;  *)
(* all of its values must be strings.                                      *)
UlValue(v) ==
  IF v.kind = "text" THEN v.text
  ELSE Joined([i \in 1..Len(v.members) |->
         (IF i = 1 THEN <<>> ELSE <<"|">>) \o
         <<v.members[i].name, "=">> \o v.members[i].text])

HasUlValue(v) == v.kind = "text" \/ \A i \in 1..Len(v.members) : v.members[i].string

(* The places of %s in a template; a place is the number-th of them. *)
MarksIn(template) ==
  {i \in 1..(Len(template) - 1) : template[i] = "%" /\ template[i + 1] = "s"}
NumberOf(template, place) == Cardinality({m \in MarksIn(template) : m <= place})

Good(id, body) == [why |-> "ok", id |-> id, body |-> body]
Refused(code) == [why |-> code, id |-> <<>>, body |-> <<>>]

(* CommandHandle::transform_command() with a template, from a place on:    *)
(* what is before the next %s, and the parameter whose turn it is.         *)
MarksFrom(template, place) == {m \in MarksIn(template) : m >= place}
FirstOf(marks) == CHOOSE m \in marks : \A k \in marks : m <= k

Replaced(template, params) ==
  LET piece(i) ==
        IF MarksFrom(template, i) = {} THEN SubSeq(template, i, Len(template))
        ELSE LET m == FirstOf(MarksFrom(template, i))
             IN  SubSeq(template, i, m - 1) \o params[NumberOf(template, m)]
      after(i) == IF MarksFrom(template, i) = {} THEN Len(template) + 1
                  ELSE FirstOf(MarksFrom(template, i)) + 2
  IN  Walk([i \in 1..Len(template) |-> piece(i)], [i \in 1..Len(template) |-> after(i)])[1]

(* "beyond" is a read after the last parameter. *)
FillWithoutTest(template, value) ==
  LET params == riot_tokenizer(value, "|")
  IN IF Cardinality(MarksIn(template)) > Len(params) THEN Refused("beyond")
     ELSE Good(<<>>, Replaced(template, params))

(* What is counted first is the % signs. *)
Fill(template, value) ==
  LET signs == {i \in 1..Len(template) : template[i] = "%"}
  IN IF Cardinality(signs) > Len(riot_tokenizer(value, "|")) /\ signs # {}
     THEN Refused("400")
     ELSE FillWithoutTest(template, value)

(* The body of a command without template: device@command|value.           *)
(* boost::starts_with has its arguments swapped: a separator is added      *)
(* unless the value is one (or, with MQTT, is empty).                      *)
DefaultBody(dev, name, value) ==
  <<dev.name, "@", name>> \o
  (IF value \in {<<>>, <<"|">>} THEN <<>> ELSE <<"|">>) \o value

(* UL20Service::transform_command(): the id is read from the body. *)
UL20Command(dev, name, value) ==
  LET template == dev.commands[name]
      made == IF template = RAW THEN Good(<<>>, value)
              ELSE IF template # <<>> THEN Fill(template, value)
              ELSE Good(<<>>, DefaultBody(dev, name, value))
  IN IF made.why # "ok" THEN made
     ELSE IF ~isCommandResp(made.body) THEN Refused("400")
     ELSE Good(Before(made.body, "|"), made.body)

(* MqttService::transform_command(): the id is the sequence default_op_ngsi *)
(* has made for the request.                                               *)
MqttCommand(dev, name, value) ==
  Good(<<"sequence">>,
       IF dev.commands[name] = RAW THEN value ELSE DefaultBody(dev, name, value))

(* getCommandLine(). *)
GetCommandLine(dev, a) ==
  IF a.name = "" THEN Refused("400")
  ELSE IF a.name \notin DOMAIN dev.commands THEN Refused("404")
  ELSE IF ~HasUlValue(a.value) THEN Refused("400")
  ELSE IF plugin = "ul20" THEN UL20Command(dev, a.name, UlValue(a.value))
  ELSE MqttCommand(dev, a.name, UlValue(a.value))

----------------------------------------------------------------------------
(* RestHandle::get_device_by_entity(): by the name of the entity, its type *)
(* when there is one, path and protocol; then, for a name with a colon, by *)
(* the device id after it, in any path and of any protocol; for another    *)
(* one, without the type.  Errors of the database count as nothing found.  *)
ByEntity(id, type, path) ==
  {d \in devices : /\ d.entity_name = id
                   /\ type \in {"", d.entity_type}
                   /\ d.path = path
                   /\ d.protocol = plugin}

Again(e, path) ==
  IF Contains(e.id, ":") THEN {d \in devices : <<d.name>> = After(e.id, ":")}
  ELSE ByEntity(e.id, "", path)

(* What the search for the device of an element may give: one of those     *)
(* that match, or, if a read of the database fails, nothing.               *)
Outcomes(e, path) ==
  {[code |-> IF d.active THEN 200 ELSE 409, dev |-> IF d.active THEN d ELSE NoDevice] :
     d \in ByEntity(e.id, e.type, path) \cup Again(e, path)}
  \cup {[code |-> 404, dev |-> NoDevice]}

----------------------------------------------------------------------------
NgsiInit(pc) ==
  /\ plugin \in {"ul20", "mqtt"}
  /\ devices \in NgsiDevices
  /\ ngsi = NoInput
  /\ npc = pc
  /\ elem = 1 /\ attr = 1
  /\ item_dev = NoDevice
  /\ line = NoLine
  /\ rescode = 200
  /\ answers = <<>>
  /\ notified = <<>> /\ stored = <<>> /\ pushed = <<>>

(* What both handlers do first: the header, the service, and the body,     *)
(* which is parsed as a whole before anything is done.  The HTTP status is *)
(* 200 in any case: the code of the document is what counts.               *)
Received(r) ==
  IF r.service = "absent" THEN "answered 400"
  ELSE IF r.service = "unknown" THEN "answered 404"
  ELSE IF r.body = "bad" THEN "answered 500"
  ELSE "element"

(* A query needs the path of its service, too. *)
ReceivedQuery(r) ==
  IF Received(r) = "element" /\ r.path = "" THEN "answered 400" ELSE Received(r)

(* default_op_ngsi() and UpdateContext(). *)
ReceiveUpdateContext ==
  /\ npc = "idle"
  /\ \E r \in NgsiInputs :
       /\ r.op = "update"
       /\ ngsi' = [r EXCEPT !.elements =
                     [k \in 1..Len(@) |-> Parsed(@[k])]]
       /\ npc' = Received(r)
  /\ UNCHANGED <<plugin, devices, elem, attr, item_dev, line, rescode, answers,
                 notified, stored, pushed>>

(* default_queryContext_ngsi() and QueryContext(). *)
ReceiveQueryContext ==
  /\ npc = "idle"
  /\ \E r \in NgsiInputs :
       /\ r.op = "query"
       /\ ngsi' = r
       /\ npc' = ReceivedQuery(r)
  /\ UNCHANGED <<plugin, devices, elem, attr, item_dev, line, rescode, answers,
                 notified, stored, pushed>>

(* The path of the service found, which may be empty in a configuration    *)
(* file; get_device_by_entity() takes the default for an empty one.        *)
Path == IF ngsi.path = "" THEN "/" ELSE ngsi.path

(* updateContext(): the next element, or the answer. *)
UpdateElement ==
  /\ npc = "element" /\ ngsi.op = "update" /\ elem <= Len(ngsi.elements)
  /\ \E o \in Outcomes(ngsi.elements[elem], Path) :
       /\ item_dev' = o.dev
       /\ rescode' = o.code
       /\ attr' = 1
       /\ npc' = IF o.code = 200 THEN "attribute" ELSE "respond"
  /\ UNCHANGED <<plugin, devices, ngsi, elem, line, answers, notified, stored,
                 pushed>>

CurrentAttr == ngsi.elements[elem].attributes[attr]
MoreAttributes == attr <= Len(ngsi.elements[elem].attributes)

Code(why) == IF why = "404" THEN 404 ELSE 400

(* An attribute that is no command, or that cannot be made into one: its   *)
(* error is the code of the element, which nothing resets.                 *)
RefuseAttribute ==
  /\ npc = "attribute" /\ MoreAttributes
  /\ LET made == GetCommandLine(item_dev, CurrentAttr)
     IN /\ rescode' = IF CurrentAttr.type # "command" THEN 400 ELSE Code(made.why)
        /\ \/ CurrentAttr.type # "command"
           \/ made.why \notin {"ok", "beyond"}
        /\ attr' = attr + 1
  /\ UNCHANGED <<plugin, devices, ngsi, npc, elem, item_dev, line, answers,
                 notified, stored, pushed>>

(* MqttService has only push commands; UL20 pushes to an endpoint. *)
is_push_type_of_command == plugin = "mqtt" \/ item_dev.endpoint # ""

(* updateCommand(): the status is sent first. *)
PublishStatus ==
  /\ npc = "attribute" /\ MoreAttributes /\ CurrentAttr.type = "command"
  /\ LET made == GetCommandLine(item_dev, CurrentAttr)
     IN /\ made.why \in {"ok", "beyond"}
        /\ line' = [id |-> made.id, body |-> made.body]
        /\ npc' = IF made.why = "ok" THEN "save" ELSE "undefined"
        /\ notified' =
             Append(notified, [elem |-> elem, attr |-> attr, device |-> item_dev,
                                status |-> IF is_push_type_of_command
                                           THEN "pending" ELSE "ready for read"])
  /\ UNCHANGED <<plugin, devices, ngsi, elem, attr, item_dev, rescode, answers,
                 stored, pushed>>

(* getLastError() of the collection throws, and the element is told so. *)
DatabaseErrorIgnored == 200
DatabaseError == 500

(* save_command(): in the cache, then in the collection, which may fail. *)
SaveCommand ==
  /\ npc = "save"
  /\ \E in_db \in BOOLEAN :
       /\ stored' = Append(stored, [elem |-> elem, attr |-> attr, device |-> item_dev,
                                    id |-> line.id, body |-> line.body, in_db |-> in_db])
       /\ IF in_db
          THEN /\ npc' = IF is_push_type_of_command THEN "execute" ELSE "next"
               /\ UNCHANGED rescode
          ELSE rescode' = DatabaseError /\ npc' = "next"
  /\ UNCHANGED <<plugin, devices, ngsi, elem, attr, item_dev, line, answers,
                 notified, pushed>>

(* What may have been sent: an HTTP POST to the endpoint, which catches    *)
(* all errors, or a message under the topic of the device, if there is a   *)
(* writer.                                                                 *)
SendHTTP(dev, l) == {<<>>, <<[device |-> dev, text |-> l.body]>>}
ExecuteMqttCommand(dev, l) ==
  {<<>>, <<[device |-> dev, text |-> <<"cmdid", "|">> \o l.id \o <<"#">> \o l.body]>>}

(* execute_command(): what it returns, or an exception, is not told to the *)
(* Context Broker.                                                         *)
ExecuteCommand ==
  /\ npc = "execute"
  /\ \E sending \in IF plugin = "ul20" THEN SendHTTP(item_dev, line)
                     ELSE ExecuteMqttCommand(item_dev, line) :
       pushed' = pushed \o sending
  /\ npc' = "next"
  /\ UNCHANGED <<plugin, devices, ngsi, elem, attr, item_dev, line, rescode, answers,
                 notified, stored>>

NextAttribute ==
  /\ npc = "next"
  /\ attr' = attr + 1
  /\ npc' = "attribute"
  /\ UNCHANGED <<plugin, devices, ngsi, elem, item_dev, line, rescode, answers,
                 notified, stored, pushed>>

(* populate_command_attributes(): all commands of the device, whatever     *)
(* attributes were asked for; a blank for an empty value, as               *)
(* add_attribute() leaves out an empty one.                                *)
CommandAttributes(dev) == DOMAIN dev.commands

(* One context response for each element; of an update with the code of    *)
(* the last error in it.                                                   *)
Respond ==
  /\ \/ npc = "respond"
     \/ npc = "attribute" /\ ~MoreAttributes
  /\ answers' = Append(answers, [code |-> rescode, commands |-> {}])
  /\ elem' = elem + 1
  /\ npc' = "element"
  /\ UNCHANGED <<plugin, devices, ngsi, attr, item_dev, line, rescode, notified,
                 stored, pushed>>

(* queryContext(): the next entity. *)
QueryEntity ==
  /\ npc = "element" /\ ngsi.op = "query" /\ elem <= Len(ngsi.elements)
  /\ \E o \in Outcomes(ngsi.elements[elem], Path) :
       /\ item_dev' = o.dev
       /\ answers' =
            Append(answers, [code |-> o.code,
                               commands |-> IF o.code = 200
                                            THEN CommandAttributes(o.dev) ELSE {}])
  /\ elem' = elem + 1
  /\ UNCHANGED <<plugin, devices, ngsi, npc, attr, line, rescode, notified, stored,
                 pushed>>

AnswerBroker ==
  /\ npc = "element" /\ elem > Len(ngsi.elements)
  /\ npc' = "answered 200"
  /\ UNCHANGED <<plugin, devices, ngsi, elem, attr, item_dev, line, rescode, answers,
                 notified, stored, pushed>>

NgsiNext ==
  \/ ReceiveUpdateContext
  \/ ReceiveQueryContext
  \/ UpdateElement
  \/ RefuseAttribute
  \/ PublishStatus
  \/ SaveCommand
  \/ ExecuteCommand
  \/ NextAttribute
  \/ Respond
  \/ QueryEntity
  \/ AnswerBroker

NgsiSpec == NgsiInit("idle") /\ [][NgsiNext]_ngsiVars

----------------------------------------------------------------------------
AttributesOf(k) == 1..Len(ngsi.elements[k].attributes)
InCollection(k, j) ==
  \E i \in 1..Len(stored) : stored[i].elem = k /\ stored[i].attr = j /\ stored[i].in_db

(* The answer of updateContext has one response for each element, in their *)
(* order.  An element is answered with 200 exactly when all attributes of  *)
(* it that were parsed are commands now stored in the collection: an error *)
(* of one of them is kept although others succeed after it, and a device   *)
(* that is not reached is no error.  A status was notified for every      *)
(* stored command; one that is published without a stored command belongs  *)
(* to an element answered with an error.  When the document as a whole is  *)
(* answered with an error nothing of it was done.                          *)
CommandsAnswered ==
  /\ npc \in {"answered 400", "answered 404", "answered 500"} =>
       notified = <<>> /\ stored = <<>>
  /\ (npc = "answered 200" /\ ngsi.op = "update") =>
       /\ Len(answers) = Len(ngsi.elements)
       /\ \A k \in 1..Len(answers) :
            answers[k].code = 200 =>
              \A j \in AttributesOf(k) : InCollection(k, j)
       /\ \A k \in 1..Len(answers) :
            (answers[k].code # 200 /\ AttributesOf(k) # {}) =>
              \E j \in AttributesOf(k) : ~InCollection(k, j)
       /\ \A i \in 1..Len(stored) :
            \E p \in 1..Len(notified) : /\ notified[p].elem = stored[i].elem
                                         /\ notified[p].attr = stored[i].attr
                                         /\ notified[p].device = stored[i].device
       /\ \A p \in 1..Len(notified) :
            \/ InCollection(notified[p].elem, notified[p].attr)
            \/ answers[notified[p].elem].code # 200

(* The text a template means, symbol by symbol: the n-th %s stands for the *)
(* n-th parameter of the request.                                          *)
Meaning(template, params) ==
  LET meant(i) == IF i \in MarksIn(template) THEN params[NumberOf(template, i)]
                  ELSE <<template[i]>>
      after(i) == IF i \in MarksIn(template) THEN i + 2 ELSE i + 1
  IN  Walk([i \in 1..Len(template) |-> meant(i)], [i \in 1..Len(template) |-> after(i)])[1]

(* The body of a stored command is what the provisioned template means     *)
(* with the values of the request, no parameter is read that the request   *)
(* does not have, and the id an Ultralight command is stored under is the  *)
(* one the device sends back with its result, which begins with the same   *)
(* device@command.  A query lists all commands of the device, also those   *)
(* without a template.                                                     *)
CommandAsProvisioned ==
  /\ npc # "undefined"
  /\ \A i \in 1..Len(stored) :
       LET s == stored[i]
           a == ngsi.elements[s.elem].attributes[s.attr]
           template == s.device.commands[a.name]
           params == riot_tokenizer(UlValue(a.value), "|")
       IN plugin = "ul20" =>
            /\ s.id = Before(s.body, "|") /\ Contains(s.id, "@")
            /\ template \notin {<<>>, RAW} => s.body = Meaning(template, params)
  /\ ngsi.op = "query" =>
       \A k \in 1..Len(answers) :
         answers[k].code = 200 =>
           \E d \in devices : d.active /\ answers[k].commands = DOMAIN d.commands

(* A command is answered for, and leaves as it was provisioned.            *)
CommandsAsAsked == CommandsAnswered /\ CommandAsProvisioned
=============================================================================
