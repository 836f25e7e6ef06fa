--------------------------- MODULE ThinkingThings ---------------------------
(***************************************************************************)
(* The Thinking Things plugin (thinkingthings/, esp/plugins/               *)
(* postprocessor_tt/, util/TTCBPublisher.cc).  A device sends the state of *)
(* its modules; service() turns them into attributes, asks the Context     *)
(* Broker what the applications want of the device, answers with that and  *)
(* publishes what the device has sent.                                     *)
(*                                                                         *)
(* A configuration module (GC) has two attributes: the one with its name   *)
(* belongs to the applications, the device's value goes under the prefix   *)
(* _TTcurrent_.  The name itself is published only while the broker knows  *)
(* no such entity.                                                         *)
(*                                                                         *)
(* Requests run in the threads of the server and share one postprocessor   *)
(* without a lock: a request executes it and takes its result in two       *)
(* steps.  The message is taken as the parser leaves it: the request's     *)
(* own result without a module, then one result per module.                *)
(***************************************************************************)
EXTENDS Naturals, Sequences, SequencesExt, FiniteSets, TLC

CONSTANTS
  TTThreads,      \* threads of the server, one request each
  TTMessages,     \* [device, parts]: what a device may send
  TTDevices,      \* the devices that are provisioned
  TTNames,        \* names of configuration modules
  TTDesired,      \* values an application may set
  MaxDesired      \* bound: writes of the applications

VARIABLES
  library,    \* idSensor > 0: the ESP library has read its configuration
  post,       \* tt_post_ptr_: its result, and (history) whose it is
  tt,         \* the request of each thread
  entities,   \* external: the attributes the Context Broker has
  writes      \* writes of the applications so far

ttVars == <<library, post, tt, entities, writes>>

(* The modules a device may send. *)
Modules == UNION {{msg.parts[i] : i \in DOMAIN msg.parts} : msg \in TTMessages}

(* A part has its kind, its texts are strings; the name of a configuration *)
(* module is one of TTNames, or is missing.                                *)
TTMessagesAssumption ==
  \A msg \in TTMessages :
    /\ msg.parts \in Seq({msg.parts[i] : i \in DOMAIN msg.parts})
    /\ \A i \in DOMAIN msg.parts :
         /\ msg.parts[i].params \in Seq(STRING)
         /\ msg.parts[i].kind = "GC" =>
              msg.parts[i].params = <<>> \/ msg.parts[i].params[1] \in TTNames \cup {""}
ASSUME TTMessagesAssumption

(* An attribute that is set has a name. *)
TTNamesAssumption == "" \notin TTNames /\ TTDesired \subseteq STRING
ASSUME TTNamesAssumption

(* A part without a module, a request that has not asked. *)
NotThere == "none"

NoAttributes == [n \in {} |-> n]

----------------------------------------------------------------------------
(* Modules: transform() of the classes of TTModules.cpp.  A module has its *)
(* kind, its bus, its parameters ("" when empty) and its sleep condition   *)
(* and time, which go along as metadatas.  A module that is not valid has  *)
(* no result.                                                              *)

Param(m, i) == IF i \in DOMAIN m.params THEN m.params[i] ELSE ""
HasParam(m, i) == Param(m, i) # ""
Invalid == <<>>

Attribute(name, value, m) == [name |-> name, value |-> value, sleep |-> m.sleep]

(* Both JSON texts are the same but for configuration modules. *)
Both(a) == <<[processed |-> a, plain |-> a]>>

TransformGPS(m) ==
  IF HasParam(m, 1) /\ HasParam(m, 2)
  THEN Both(Attribute(<<"position">>, <<m.params[1], m.params[2]>>, m))
  ELSE Invalid

(* populate_default_internals(): the parameters of P1 and B; only the      *)
(* fifth of P1 is optional.                                                *)
Mappings(kind) == CASE kind = "P1" -> 1..5 [] kind = "B" -> 1..6
Mandatory(kind) == CASE kind = "P1" -> 1..4 [] kind = "B" -> 1..6

TransformClose(m) ==
  IF \A i \in Mandatory(m.kind) : HasParam(m, i)
  THEN Both(Attribute(<<m.kind>>,
                      [i \in {j \in Mappings(m.kind) : HasParam(m, j)} |-> m.params[i]], m))
  ELSE Invalid

TransformGM(m) ==
  IF HasParam(m, 1) /\ HasParam(m, 2)
  THEN Both(Attribute(<<m.params[1]>>, <<m.params[2]>>, m))
  ELSE Invalid

(* A mutation: the device's value goes under the plain name. *)
TransformGCWithoutPrefix(m) ==
  IF HasParam(m, 1) /\ HasParam(m, 2)
  THEN Both(Attribute(<<m.params[1]>>, <<m.params[2]>>, m))
  ELSE Invalid

TransformGC(m) ==
  IF HasParam(m, 1) /\ HasParam(m, 2)
  THEN <<[processed |-> Attribute(<<"_TTcurrent_", m.params[1]>>, <<m.params[2]>>, m),
          plain |-> Attribute(<<m.params[1]>>, <<m.params[2]>>, m)]>>
  ELSE Invalid

(* load_default_TTModules(): K1 and unknown modules have no entry. *)
Transform(m) ==
  CASE m.kind = "GC" -> TransformGC(m)
    [] m.kind = "GM" -> TransformGM(m)
    [] m.kind = "GPS" -> TransformGPS(m)
    [] m.kind \in {"P1", "B"} -> TransformClose(m)
    [] OTHER -> Invalid

----------------------------------------------------------------------------
(* The answer to the device: SearchResponse.cpp.  The entity is a function *)
(* from names to attributes.                                               *)

Answer(m, fields, sleep) ==
  [bus |-> m.bus, kind |-> m.kind, fields |-> fields, sleep |-> sleep]

(* What a battery is told: its own charge activation, mode and time.       *)
BatteryFields(m) == <<Param(m, 2), Param(m, 5), Param(m, 6)>>

(* parseDefault() of each kind. *)
ParseDefault(m) ==
  Answer(m, CASE m.kind = "GC" -> <<Param(m, 1), Param(m, 2)>>
              [] m.kind = "GM" -> <<Param(m, 1)>>
              [] m.kind = "B" -> BatteryFields(m)
              [] OTHER -> <<>>, m.sleep)

(* parseResponse(): GC answers the value of the broker, GM the name, GPS   *)
(* nothing; the sleep condition is the one of the broker's metadatas.      *)
ParseResponse(m, a) ==
  Answer(m, CASE m.kind = "GC" -> <<Param(m, 1)>> \o a.value
              [] m.kind = "GM" -> <<Param(m, 1)>>
              [] m.kind = "GPS" -> <<>>, a.sleep)

(* nameTTAttribute: what processContextElement() looks for.  The closed    *)
(* modules never look.                                                     *)
Sought(m) ==
  CASE m.kind \in {"GC", "GM"} -> <<Param(m, 1)>>
    [] m.kind = "GPS" -> <<"position">>
    [] OTHER -> <<>>

(* A mutation: every module answers what the device has sent. *)
ProcessContextElementByDefault(entity, m) == ParseDefault(m)

ProcessContextElement(entity, m) ==
  IF Sought(m) \in DOMAIN entity
  THEN ParseResponse(m, entity[Sought(m)])
  ELSE ParseDefault(m)

(* doSearchTTResponse(), once the broker has answered 200. *)
Answers200(entity, kept) ==
  [i \in DOMAIN kept |-> ProcessContextElement(entity, kept[i])]

----------------------------------------------------------------------------
(* History of a request: "met" has the positions of the parts at which     *)
(* another thread used the postprocessor between execute() and             *)
(* getResultData(), "seen" the values of the configuration at the broker.  *)
NoRequestTT ==
  [pc |-> "idle", device |-> "", parts |-> <<>>, at |-> 0, kept |-> <<>>,
   processed |-> <<>>, plain |-> <<>>, answers |-> <<>>, status |-> 0,
   told |-> NotThere, asked |-> NoAttributes, met |-> {}, seen |-> {}]

TTInit(pc) ==
  /\ library \in BOOLEAN
  /\ post = [result |-> Invalid, of |-> NotThere]
  /\ tt = [t \in TTThreads |-> [NoRequestTT EXCEPT !.pc = pc]]
  /\ entities = [d \in TTDevices |-> [there |-> FALSE, attributes |-> NoAttributes]]
  /\ writes = 0

Ends(t, status) == tt' = [tt EXCEPT ![t].pc = "done", ![t].status = status]

(* The configuration attributes of a device at the broker. *)
Configured(all, d) ==
  LET e == all[d].attributes IN
  {<<n, e[<<n>>].value>> : n \in {x \in TTNames : <<x>> \in DOMAIN e}}

Refusal(msg) == CASE ~library -> 500 [] msg.device = "" -> 400 [] OTHER -> 404

(* The parts of the message are looked at one by one. *)
Starts(t, msg) ==
  tt' = [tt EXCEPT ![t].pc = "modules", ![t].device = msg.device,
                   ![t].parts = msg.parts, ![t].at = 1,
                   ![t].seen = Configured(entities, msg.device)]

(* service(), up to the modules: 500 without the library, 400 without a    *)
(* device, 404 for an unknown one; an unknown service is answered with the *)
(* text of the error and the status 200 that was set before.               *)
TTRequest(t) ==
  /\ tt[t].pc = "idle"
  /\ \E msg \in TTMessages :
       \/ /\ ~library \/ msg.device \notin TTDevices
          /\ Ends(t, Refusal(msg))
       \/ /\ library /\ msg.device \in TTDevices
          /\ Ends(t, 200) \/ Starts(t, msg)
  /\ UNCHANGED <<library, post, entities, writes>>

(* DecodeTTJSON: the two texts of a valid result. *)
Decoded(result) == result[1]

Part(t) == tt[t].parts[tt[t].at]

(* A mutation: the result of the last module stays valid. *)
ExecuteKeepsResult(t) ==
  /\ tt[t].pc = "modules" /\ tt[t].at <= Len(tt[t].parts)
  /\ IF Part(t).kind = NotThere
     THEN /\ tt' = [tt EXCEPT ![t].at = @ + 1]
          /\ UNCHANGED post
     ELSE /\ tt' = [tt EXCEPT ![t].pc = "take"]
          /\ post' = [result |-> IF Transform(Part(t)) = Invalid THEN post.result
                                 ELSE Transform(Part(t)), of |-> t]
  /\ UNCHANGED <<library, entities, writes>>

(* The loop: a part without a module is skipped; else initialize() and     *)
(* execute().                                                              *)
Execute(t) ==
  /\ tt[t].pc = "modules" /\ tt[t].at <= Len(tt[t].parts)
  /\ IF Part(t).kind = NotThere
     THEN /\ tt' = [tt EXCEPT ![t].at = @ + 1]
          /\ UNCHANGED post
     ELSE /\ tt' = [tt EXCEPT ![t].pc = "take"]
          /\ post' = [result |-> Transform(Part(t)), of |-> t]
  /\ UNCHANGED <<library, entities, writes>>

(* The results of all who are at the postprocessor. *)
AtPost ==
  ({post.result} \cup {Transform(Part(u)) : u \in {x \in TTThreads : tt[x].pc = "take"}})
    \ {Invalid}

(* A module that is kept, with its two texts. *)
WithTexts(r, m, processed, plain) ==
  [r EXCEPT !.kept = Append(@, m), !.processed = Append(@, processed),
            !.plain = Append(@, plain)]

(* The rest of the body: K1 is kept for the answer only, a module whose    *)
(* result is not valid is left out.  When another thread has used the      *)
(* postprocessor since execute(), anything can be there: no valid result   *)
(* after its initialize(); nothing at all when that came after             *)
(* isResultValid(), which the decoder throws at; or the texts of others,   *)
(* which execute() gets from the module one after the other.               *)
Take(t) ==
  /\ tt[t].pc = "take"
  /\ LET m == Part(t)
         r == [tt[t] EXCEPT !.pc = "modules", !.at = @ + 1]
         q == [r EXCEPT !.met = @ \cup {tt[t].at}]
     IN \/ /\ m.kind = "K1"
           /\ tt' = [tt EXCEPT ![t] = [r EXCEPT !.kept = Append(@, m)]]
        \/ /\ m.kind # "K1" /\ post.of = t
           /\ tt' = [tt EXCEPT ![t] =
                IF post.result = Invalid THEN r
                ELSE WithTexts(r, m, Decoded(post.result).processed,
                               Decoded(post.result).plain)]
        \/ /\ m.kind # "K1" /\ post.of # t
           /\ \/ tt' = [tt EXCEPT ![t] = q]
              \/ Ends(t, 500)
              \/ \E x, y \in AtPost :
                   tt' = [tt EXCEPT ![t] =
                            WithTexts(q, m, Decoded(x).processed, Decoded(y).plain)]
  /\ UNCHANGED <<library, post, entities, writes>>

(* No module is left: an empty answer and no request to the broker. *)
ModulesEnd(t) ==
  /\ tt[t].pc = "modules" /\ tt[t].at > Len(tt[t].parts)
  /\ IF tt[t].kept = <<>> THEN Ends(t, 200)
                          ELSE tt' = [tt EXCEPT ![t].pc = "query"]
  /\ UNCHANGED <<library, post, entities, writes>>

(* queryContext: the broker answers with the entity, or with an error, or  *)
(* nothing comes back.  Nothing is no JSON: an exception, and 500.  An     *)
(* error (also of the broker itself) has no contextResponse with 200 and   *)
(* reads as "no such entity".                                              *)
Query(t) ==
  /\ tt[t].pc \in {"query", "again"}
  /\ LET e == entities[tt[t].device] IN
     \/ Ends(t, 500)
     \/ /\ e.there
        /\ tt' = [tt EXCEPT ![t].pc = "publish", ![t].told = "entity",
                            ![t].asked = e.attributes,
                            ![t].answers = Answers200(e.attributes, tt[t].kept)]
     \/ IF tt[t].pc = "query"
        THEN tt' = [tt EXCEPT ![t].pc = "first", ![t].asked = e.attributes,
                              ![t].told = IF e.there THEN "error" ELSE "absent"]
        ELSE Ends(t, 500)
  /\ UNCHANGED <<library, post, entities, writes>>

Named(attributes, name) ==
  attributes[CHOOSE i \in DOMAIN attributes :
               /\ attributes[i].name = name
               /\ \A j \in DOMAIN attributes : attributes[j].name = name => j <= i]

(* APPEND at the broker: what is written replaces what had its names.  The *)
(* TimeInstant that goes along makes the entity exist in any case.         *)
EntityWith(entity, new) ==
  [there |-> TRUE, attributes |->
     [n \in DOMAIN new \cup DOMAIN entity.attributes |->
        IF n \in DOMAIN new THEN new[n] ELSE entity.attributes[n]]]

(* The last attribute of a name counts. *)
Appended(entity, attributes) ==
  EntityWith(entity,
    [n \in {attributes[i].name : i \in DOMAIN attributes} |->
       [value |-> Named(attributes, n).value, sleep |-> Named(attributes, n).sleep,
        by |-> "device"]])

(* Everybody at work has seen the values of the configuration. *)
Seen(requests, all, d) ==
  [t \in TTThreads |->
     IF requests[t].device = d
     THEN [requests[t] EXCEPT !.seen = @ \cup Configured(all, d)]
     ELSE requests[t]]

(* publishContextBroker(): what comes back is only logged, so a publication *)
(* may be lost.                                                            *)
PublishContextBroker(t, attributes) ==
  \/ entities' = [entities EXCEPT ![tt[t].device] = Appended(@, attributes)]
  \/ UNCHANGED entities

(* The first time: the plain attributes, and then the query again. *)
PublishFirst(t) ==
  /\ tt[t].pc = "first"
  /\ PublishContextBroker(t, tt[t].plain)
  /\ tt' = Seen([tt EXCEPT ![t].pc = "again"], entities', tt[t].device)
  /\ UNCHANGED <<library, post, writes>>

PublishProcessed(t) ==
  /\ tt[t].pc = "publish"
  /\ PublishContextBroker(t, tt[t].processed)
  /\ tt' = Seen([tt EXCEPT ![t].pc = "done", ![t].status = 200], entities', tt[t].device)
  /\ UNCHANGED <<library, post, writes>>

(* External: an application sets what it wants of the device, on the       *)
(* entity of the device whether it is there already or not.                *)
ApplicationSets ==
  /\ writes < MaxDesired
  /\ writes' = writes + 1
  /\ \E d \in TTDevices, n \in TTNames, v \in TTDesired :
       /\ entities' = [entities EXCEPT ![d] =
            EntityWith(@, [x \in {<<n>>} |->
                          [value |-> <<v>>, sleep |-> "", by |-> "application"]])]
       /\ tt' = Seen(tt, entities', d)
  /\ UNCHANGED <<library, post>>

TTNext ==
  \/ \E t \in TTThreads :
       TTRequest(t) \/ Execute(t) \/ Take(t) \/ ModulesEnd(t) \/ Query(t)
         \/ PublishFirst(t) \/ PublishProcessed(t)
  \/ ApplicationSets

TTSpec == TTInit("idle") /\ [][TTNext]_ttVars

----------------------------------------------------------------------------
(* The names that configuration modules alone have: a module of another    *)
(* kind is published under its own name whatever an application has set.   *)
ConfigurationNames ==
  {n \in TTNames : \A m \in Modules :
     m.kind = "GC" \/ Transform(m) = Invalid \/ Transform(m)[1].plain.name # <<n>>}

(* What the applications set of a configuration module is neither          *)
(* overwritten by a device nor kept from it.  A publication changes a      *)
(* value of an application only if the broker has reported an error for    *)
(* the query, or if the application wrote after the query (the window      *)
(* between the query of service() and its first publication).              *)
ApplicationsValueStands ==
  [][\A d \in TTDevices, n \in ConfigurationNames :
       (/\ <<n>> \in DOMAIN entities[d].attributes
        /\ entities[d].attributes[<<n>>].by = "application"
        /\ entities'[d].attributes[<<n>>].by = "device")
       => \E t \in TTThreads :
            /\ tt[t].pc = "first" /\ tt[t].device = d
            /\ tt[t].told = "error" \/ <<n>> \notin DOMAIN tt[t].asked]_ttVars

(* A device that is answered 200 is told, for each configuration module it *)
(* has sent, a value the attribute really had at the broker since the      *)
(* request came in, or its own value if the entity had no such attribute   *)
(* when the broker was asked (GCResponse, processContextElement()).        *)
DeviceIsToldDesired ==
  \A t \in TTThreads :
    (tt[t].pc = "done" /\ tt[t].answers # <<>>) =>
      \A i \in DOMAIN tt[t].answers :
        LET a == tt[t].answers[i] IN
        a.kind = "GC" =>
          \/ <<a.fields[1], SubSeq(a.fields, 2, Len(a.fields))>> \in tt[t].seen
          \/ /\ <<a.fields[1]>> \notin DOMAIN tt[t].asked
             /\ a.fields[2] = Param(tt[t].kept[i], 2)

(* The parts of a request that have a result: K1 has none. *)
Valid(r) == {i \in DOMAIN r.parts : r.parts[i].kind # NotThere /\ Transform(r.parts[i]) # Invalid}

(* The attributes of a request are those of its valid modules, one for     *)
(* each and in their order; only at a module where another thread came     *)
(* between may there be any other attribute, or none.                      *)
AttributesAt(r, some, place) ==
  /\ \A i, j \in DOMAIN place : i < j => place[i] < place[j]
  /\ some \ r.met \subseteq {place[i] : i \in DOMAIN place}
  /\ \A i \in DOMAIN place : place[i] \notin r.met =>
       /\ r.processed[i] = Transform(r.parts[place[i]])[1].processed
       /\ r.plain[i] = Transform(r.parts[place[i]])[1].plain

AttributesOfParts(r, some) ==
  /\ Len(r.plain) = Len(r.processed)
  /\ \E place \in [1..Len(r.processed) -> some \cup r.met] : AttributesAt(r, some, place)

(* What a request publishes is what its own device has sent, module by     *)
(* module and in order, except for the very modules at which another       *)
(* thread used the postprocessor between execute() and getResultData()     *)
(* (service() shares it between the threads without a lock): nothing is    *)
(* claimed of what is published for those, and no other module is          *)
(* repeated, lost, moved or changed by the encounter.                      *)
OwnUnlessMet ==
  \A t \in TTThreads :
    tt[t].at > Len(tt[t].parts) => AttributesOfParts(tt[t], Valid(tt[t]))

(* The results of the valid modules all requests have sent. *)
Sent == UNION {{Transform(tt[u].parts[j])[1] : j \in Valid(tt[u])} : u \in TTThreads}

(* Without exception, also where threads have met: each text that is       *)
(* published is the one of a valid module of some request; none is left    *)
(* from an invalid module (initialize() clears the result) or made up.     *)
(* Whose request it was is not claimed.                                    *)
PublishedWasSent ==
  \A t \in TTThreads :
    /\ \A i \in DOMAIN tt[t].processed : \E x \in Sent : x.processed = tt[t].processed[i]
    /\ \A i \in DOMAIN tt[t].plain : \E x \in Sent : x.plain = tt[t].plain[i]

(* A device is told what was wanted of it.  What is published for it is    *)
(* its own except for the modules at which another thread came between in  *)
(* the postprocessor all threads share (TTService.cpp, service()); there   *)
(* it may be a module of another device, but nothing that no device has    *)
(* sent.                                                                   *)
AnswersAreOwn == DeviceIsToldDesired /\ OwnUnlessMet /\ PublishedWasSent
=============================================================================
