----------------------------- MODULE Ultralight -----------------------------
(***************************************************************************)
(* What a request of an Ultralight device becomes: UL20Service::service    *)
(* (ultra_light/ul20_service.cc), the parser of measures                   *)
(* (ultra_light/ULInsertObservation.cc) and the entities they are          *)
(* published as (ngsi/ContextElement.cc).                                  *)
(*                                                                         *)
(* The content is a sequence of symbols: the separators "|", "#" and "@",  *)
(* a date "t", a period "p", and other words.  Commands are polled and     *)
(* their results taken as in CommandHandle: here a request only says that  *)
(* it does so.  A measure with an odd number of fields after the alias     *)
(* makes translate() read past the end of its tokens: the outcome is then  *)
(* any the build can produce.                                              *)
(***************************************************************************)
EXTENDS UlText, FiniteSets

CONSTANTS
  Requests,   \* [content, time, ip, get] of the requests of the device
  Configs     \* the device and its service, as they are provisioned

ULRequestsAssumption == \A r \in Requests : IsList(r.content)
ASSUME ULRequestsAssumption

(* Mappings are finite; a static attribute has a name, a value and a time. *)
StaticsOK(list) ==
  IsList(list) /\ \A i \in DOMAIN list : DOMAIN list[i] = {"name", "value", "time"}

ULConfigsAssumption ==
  \A c \in Configs :
    /\ IsFiniteSet(DOMAIN c.device_map) /\ IsFiniteSet(DOMAIN c.service_map)
    /\ StaticsOK(c.device_static) /\ StaticsOK(c.service_static)
ASSUME ULConfigsAssumption

VARIABLES
  config,     \* the device and its service
  request,    \* the request at work
  ulpc,       \* where service() stands
  eltos,      \* cb_eltos: what translate() has made of the content
  sent,       \* elements given to the Context Broker communicator
  code,       \* the status of the answer
  endpoint    \* the device's endpoint in the cache and in the database

ultralight == <<config, request, ulpc, eltos, sent, code, endpoint>>

NONE == ""
DEFAULT == "default"

----------------------------------------------------------------------------
(* The name of the entity: Device::get_real_name(), for commands. *)
EntityType(c) ==
  IF c.entity_type \notin {NONE, DEFAULT} THEN c.entity_type
  ELSE IF c.service_type # NONE THEN c.service_type ELSE "thing"

get_real_name(c) ==
  IF c.entity_name \notin {NONE, DEFAULT} THEN <<c.entity_name>>
  ELSE <<EntityType(c), c.name>>

(* A name that takes "default" for the name of an entity. *)
formatLiteral(e, c) ==
  LET type == IF c.entity_type # NONE THEN c.entity_type
              ELSE IF e.type # NONE THEN e.type
              ELSE IF c.service_type # NONE THEN c.service_type ELSE "thing"
      id == IF c.entity_name # NONE THEN <<c.entity_name>>
            ELSE IF e.type = NONE THEN <<type, c.name>> ELSE e.id
  IN [e EXCEPT !.id = id, !.type = type]

(* ContextElement::format(): the same for an element made with an id and   *)
(* without type; the type is then set, so that formatting twice changes    *)
(* nothing.                                                                *)
format(e, c) ==
  LET type == IF c.entity_type \notin {NONE, DEFAULT} THEN c.entity_type
              ELSE IF e.type # NONE THEN e.type
              ELSE IF c.service_type # NONE THEN c.service_type ELSE "thing"
      id == IF c.entity_name \notin {NONE, DEFAULT} THEN <<c.entity_name>>
            ELSE IF e.type = NONE THEN <<type, c.name>> ELSE e.id
  IN [e EXCEPT !.id = id, !.type = type]

(* The mapping of an attribute: the device's, or the service's. *)
IsMapped(c, name) == name \in DOMAIN c.device_map \cup DOMAIN c.service_map
Mapping(c, name) == IF name \in DOMAIN c.device_map THEN c.device_map[name]
                    ELSE c.service_map[name]

(* add_attribute() adds the mapped attribute by calling itself: its name   *)
(* is mapped again.  A mapping that leads back to its own name recurses    *)
(* until the stack is exhausted.                                           *)
Renamed(c, name) ==
  LET all == DOMAIN c.device_map \cup DOMAIN c.service_map
      f[n \in 0..Cardinality(all) + 1] ==
        IF n = 0 THEN name
        ELSE LET m == f[n - 1]
             IN IF IsMapped(c, m) THEN Mapping(c, m) ELSE m
  IN f[Cardinality(all) + 1]

Endless(c, name) == IsMapped(c, Renamed(c, name))

add_attribute(e, c, a) ==
  IF a.value = <<>> THEN e
  ELSE [e EXCEPT !.attributes = Append(@, [a EXCEPT !.name = Renamed(c, @)])]

exists(e, name) == \E i \in 1..Len(e.attributes) : e.attributes[i].name = name

(* set_env_info(): the names, and the static attributes of the device and  *)
(* those of the service that are not there yet.                            *)
set_env_info(e, c) ==
  LET own[i \in 0..Len(c.device_static)] ==
        IF i = 0 THEN format(e, c) ELSE add_attribute(own[i - 1], c, c.device_static[i])
      all[i \in 0..Len(c.service_static)] ==
        IF i = 0 THEN own[Len(c.device_static)]
        ELSE IF exists(all[i - 1], c.service_static[i].name) THEN all[i - 1]
        ELSE add_attribute(all[i - 1], c, c.service_static[i])
  IN all[Len(c.service_static)]

----------------------------------------------------------------------------
(* contentForSBCProtocol(): alias|value or date|alias|value, rewritten as  *)
(* concentrator|resource|date|alias||alias|value.                          *)
contentForSBCProtocol(io, time) ==
  LET pipes == {i \in 1..Len(io) : io[i] = "|"}
      data == IF pipes = {} THEN <<>>
              ELSE IF Cardinality(pipes) = 1 THEN io ELSE After(io, "|")
      date == CASE pipes = {} -> <<>>
                [] Cardinality(pipes) = 1 -> time
                [] OTHER -> Before(io, "|")
  IN [date |-> date, alias |-> Before(data, "|"), data |-> data]

(* The time of a measure: its date, the beginning of a period, or now. *)
DateToCB(date) == IF date \in {<<"t">>, <<"p">>} THEN date ELSE <<"now">>

(* The entity of one attribute of a measure. *)
Element(c, name, value, at) ==
  LET new == [id |-> get_real_name(c), type |-> NONE, attributes |-> <<>>]
      measure == [name |-> name, value |-> value, time |-> at]
      instant == [name |-> <<"TimeInstant">>, value |-> at, time |-> <<>>]
  IN add_attribute(add_attribute(set_env_info(new, c), c, measure), c, instant)

(* What becomes of the tokens: an element, or what stops the translation. *)
Made(elto) == [why |-> "ok", elto |-> elto]
Stop(why) == [why |-> why]

(* The tokens are taken as pairs of attribute and value.  An empty name is *)
(* skipped without looking whether there is another token.                 *)
NameAt(tokens, j) == IF tokens[j] = <<>> THEN j + 1 ELSE j

Parameter(tokens, c, at, j) ==
  LET k == NameAt(tokens, j)
  IN IF k >= Len(tokens) THEN Stop("undefined")
     ELSE IF tokens[k + 1] = <<>> THEN Stop("bad")
     ELSE IF Endless(c, tokens[k]) THEN Stop("endless")
     ELSE Made(Element(c, tokens[k], tokens[k + 1], at))

TranslateParameters(tokens, c, at) ==
  LET n == Len(tokens)
      each == [j \in 1..n |-> Parameter(tokens, c, at, j)]
      next == [j \in 1..n |-> IF each[j].why = "ok" THEN NameAt(tokens, j) + 2 ELSE n + 1]
  IN Walk([j \in 1..n |-> <<each[j]>>], next)[1]

(* translate() for one piece between #. *)
TranslateMeasure(io, c, time) ==
  LET m == contentForSBCProtocol(io, time)
  IN IF m.alias = <<>> THEN <<Stop("bad")>>
     ELSE TranslateParameters(riot_tokenizer(m.data, "|"), c, DateToCB(m.date))

AllMade(content, c, time) ==
  LET pieces == riot_tokenizer(content, "#")
  IN Joined([i \in 1..Len(pieces) |-> TranslateMeasure(pieces[i], c, time)])

EltosOf(made) == [i \in 1..Len(made) |-> made[i].elto]

(* A translate() that drops what it cannot read. *)
translateLenient(content, c, time) ==
  LET all == AllMade(content, c, time)
  IN [why |-> "ok", eltos |-> EltosOf(AtPlaces(all, {i \in 1..Len(all) : all[i].why = "ok"}))]

(* translate(): the first that stops it decides; then there must be as     *)
(* many elements as pieces.                                                *)
translate(content, c, time) ==
  LET all == AllMade(content, c, time)
      stops == {i \in 1..Len(all) : all[i].why # "ok"}
  IN IF stops # {} THEN [why |-> all[Min(stops)].why, eltos |-> <<>>]
     ELSE IF Len(all) # Len(riot_tokenizer(content, "#")) THEN [why |-> "bad", eltos |-> <<>>]
     ELSE [why |-> "ok", eltos |-> EltosOf(all)]

----------------------------------------------------------------------------
NoRequest == [content |-> <<>>, time |-> <<>>, ip |-> NONE, get |-> FALSE]

ULInit(pc) ==
  /\ config \in Configs
  /\ request = NoRequest
  /\ ulpc = pc
  /\ eltos = <<>>
  /\ sent = <<>>
  /\ code = 200
  /\ endpoint = [cache |-> config.endpoint, db |-> config.endpoint]

(* A request arrives; a new endpoint of a device that has one is written   *)
(* to the cached device and then to the database, which may fail.          *)
Request ==
  /\ ulpc = "idle"
  /\ \E r \in Requests :
       LET refused == r.ip = "invalid" /\ config.registered
           moves == /\ config.registered /\ r.ip \notin {NONE, endpoint.cache}
                    /\ endpoint.cache # NONE
       IN /\ request' = r
          /\ \/ /\ refused
                /\ code' = 400 /\ ulpc' = "commands"
                /\ UNCHANGED endpoint
             \/ /\ ~refused
                /\ endpoint' = IF moves THEN [cache |-> r.ip, db |-> r.ip] ELSE endpoint
                /\ ulpc' = "content" /\ UNCHANGED code
             \/ /\ ~refused /\ moves
                /\ endpoint' = [endpoint EXCEPT !.cache = r.ip]
                /\ code' = 400 /\ ulpc' = "commands"
  /\ UNCHANGED <<config, eltos, sent>>

(* The content: nothing, the result of a command, or measures. *)
Content ==
  /\ ulpc = "content"
  /\ LET c == request.content
     IN \/ /\ c = <<>> \/ isCommandResp(c)
           /\ ulpc' = "commands"
           /\ UNCHANGED <<eltos, code>>
        \/ /\ c # <<>> /\ ~isCommandResp(c)
           /\ \E t \in {translate(c, config, request.time)} :
                /\ eltos' = t.eltos
                /\ \/ t.why = "ok" /\ ulpc' = "send" /\ UNCHANGED code
                   \/ t.why \in {"bad", "undefined"} /\ code' = 400 /\ ulpc' = "commands"
                   \/ t.why \in {"undefined", "endless"} /\ ulpc' = "crashed" /\ UNCHANGED code
  /\ UNCHANGED <<config, request, sent, endpoint>>

(* send(): one updateContext for each element, without waiting for it. *)
SendElement ==
  /\ ulpc = "send"
  /\ IF eltos = <<>> THEN ulpc' = "commands" /\ UNCHANGED <<eltos, sent>>
     ELSE /\ sent' = Append(sent, Head(eltos))
          /\ eltos' = Tail(eltos)
          /\ UNCHANGED ulpc
  /\ UNCHANGED <<config, request, code, endpoint>>

(* The pending commands are fetched, on an error too, and the request is   *)
(* answered.                                                               *)
AnswerDevice ==
  /\ ulpc = "commands"
  /\ ulpc' = IF request.get THEN "answered with commands" ELSE "answered"
  /\ UNCHANGED <<config, request, eltos, sent, code, endpoint>>

ULNext ==
  \/ Request
  \/ Content
  \/ SendElement
  \/ AnswerDevice

ULSpec == ULInit("idle") /\ [][ULNext]_ultralight

----------------------------------------------------------------------------
(* The protocol as its documentation has it: pieces between #, each of     *)
(* them alias|value, with a date before them if the device wants.          *)
Fields(content, i) == riot_tokenizer(riot_tokenizer(content, "#")[i], "|")
Pieces(content) == 1..Len(riot_tokenizer(content, "#"))
WellFormed(content) ==
  \A i \in Pieces(content) :
    LET f == Fields(content, i)
    IN Len(f) \in {2, 3} /\ f[Len(f)] # <<>> /\ f[Len(f) - 1] # <<>>

(* No name that a mapping gives is the subject of another mapping. *)
Unchained(c) ==
  \A n \in DOMAIN c.device_map \cup DOMAIN c.service_map : ~IsMapped(c, Mapping(c, n))

Expected(c, r, i) ==
  LET f == Fields(r.content, i)
      name == f[Len(f) - 1]
      date == IF Len(f) = 3 THEN f[1] ELSE r.time
  IN [name |-> IF IsMapped(c, name) THEN Mapping(c, name) ELSE name,
      value |-> f[Len(f)],
      time |-> DateToCB(date)]

IsMeasure == request.content # <<>> /\ ~isCommandResp(request.content)
Done == ulpc \in {"answered", "answered with commands"}

(* A device is told 200 only when every measure of its message was given   *)
(* to the Context Broker communicator, once, in the order of the message,  *)
(* under the name it is mapped to and with its own date; and a message it  *)
(* is told 400 for has published nothing of itself: the batch is           *)
(* translated before the first send of it.                                 *)
WholeMessageOrNothing ==
  /\ (sent # <<>> /\ Unchained(config)) =>
       /\ WellFormed(request.content)
       /\ \A i \in 1..Len(sent) :
            Contains(sent[i].attributes, Expected(config, request, i))
  /\ (Done /\ IsMeasure /\ code = 200) =>
       Len(sent) = Cardinality(Pieces(request.content))
  /\ Done /\ code = 400 => sent = <<>>

(* Measures (ContextElement::format) and commands (Device::get_real_name)  *)
(* of a device are published to one entity, whatever is set and whatever   *)
(* is left to a default; an attribute of the entity is given only once,    *)
(* unless a measure is named like a static attribute or like the time that *)
(* is added to each measure.                                               *)
OneEntity ==
  \A i \in 1..Len(sent) :
    /\ sent[i].id = get_real_name(config)
    /\ sent[i].type = EntityType(config)
    /\ format(sent[i], config) = sent[i]
    /\ LET s == Range(config.device_static) \cup Range(config.service_static)
           a == sent[i].attributes
       IN Unchained(config) =>
            \A j, k \in 1..Len(a) :
              (j < k /\ a[j].name = a[k].name) =>
                \/ \E x \in s : Renamed(config, x.name) = a[j].name
                \/ /\ a[j].name = Expected(config, request, i).name
                   /\ a[k].name = Renamed(config, <<"TimeInstant">>)

(* A message becomes one update of one entity, with all it says, or none.  *)
MessageBecomesUpdate == WholeMessageOrNothing /\ OneEntity
=============================================================================
