-------------------------- MODULE ServiceRequests ---------------------------
(***************************************************************************)
(* The requests about services at an agent: from the headers, which the    *)
(* media filter checks (rest/media_filter.cc, util/FuncUtil.cc), over the  *)
(* search for the handler (rest/rest_handle.cc, rest/rest_functions.cc) to *)
(* services() and service() (services/admin_service.cc) and what they do   *)
(* to the collections SERVICE and DEVICE.                                  *)
(*                                                                         *)
(* Requests run in the threads of the server.  A request may do several    *)
(* operations on the database, each of which is one step: POST inserts one *)
(* service after the other, DELETE counts the services of the place,       *)
(* removes those that match and then the devices of the place if the two   *)
(* numbers are equal.  No unique index exists (module Provisioning), so a  *)
(* document may be inserted twice.                                         *)
(*                                                                         *)
(* Names are sequences of characters.  A document has a number of its own. *)
(***************************************************************************)
EXTENDS Integers, Sequences, FiniteSets

CONSTANTS
  SThreads,               \* threads of the server, one request each
  SRequests,              \* requests that come in
  SResources,             \* resources for which a plugin is loaded
  FIWARE_SERVICE_LENGTH,  \* util/FuncUtil.h
  SDefault, SMax,         \* LIMIT_DEFAULT and LIMIT_MAX
  FirstServices,          \* documents at the start
  FirstDevices,           \* devices at the start: their places
  MaxDocs                 \* bound: documents

VARIABLES
  sreq,      \* the request of each thread
  svcs,      \* the collection SERVICE
  devs,      \* the collection DEVICE: service, path
  changes,   \* history: what each thread has changed
  raced,     \* history: places that got a service since a thread counted
  orphaned   \* history: places whose devices went while a service stayed

sreqVars == <<sreq, svcs, devs, changes, raced, orphaned>>

Lower == {"a", "b", "1"}
Upper == {"A"}
Forbidden == {"<", ">", "=", ";", "(", ")"}
Wildcards == {<<"/", "*">>, <<"/", "#">>}

(* Paths and bodies are lists, and the documents at the start were stored  *)
(* by an agent.                                                            *)
ASSUME ServicesAssumption ==
  /\ \A r \in SRequests :
       /\ r.path \in Seq({r.path[i] : i \in DOMAIN r.path})
       /\ r.elements \in Seq({r.elements[i] : i \in DOMAIN r.elements})
  /\ IsFiniteSet(FirstServices)
  /\ \A d \in FirstServices :
       /\ DOMAIN d = {"id", "service", "path", "apikey", "resource"}
       /\ (\E i \in DOMAIN d.path : d.path[i] \in {"*", "#"} \cup Forbidden) => d.path \in Wildcards

----------------------------------------------------------------------------
(* The media filter. *)

(* check_fiware_service_name(): lower case letters, digits and '_'. *)
ServiceName(s) ==
  /\ Len(s) \in 1..FIWARE_SERVICE_LENGTH
  /\ \A i \in DOMAIN s : s[i] \in Lower \cup {"_"}

(* A mutation: wildcards may be the start of a path. *)
PathNameAnyWildcard(p) ==
  p = <<>> \/ /\ p[1] = "/"
              /\ Len(p) <= FIWARE_SERVICE_LENGTH + 1
              /\ \A i \in 2..Len(p) : p[i] \in Lower \cup Upper \cup {"_", "*", "#"}

(* check_fiware_service_path_name(): none at all, a wildcard alone, or '/' *)
(* with letters, digits and '_'.                                           *)
PathName(p) ==
  p = <<>> \/ p \in Wildcards
  \/ /\ p[1] = "/"
     /\ Len(p) <= FIWARE_SERVICE_LENGTH + 1
     /\ \A i \in 2..Len(p) : p[i] \in Lower \cup Upper \cup {"_"}

HasForbidden(s) == \E i \in DOMAIN s : s[i] \in Forbidden

(* MediaFilter::handle_request(): about is asked without headers.  The     *)
(* codes of malformed headers and of forbidden characters are answered as  *)
(* 400.  The Content-Type is looked at only with a body.                   *)
Verdict(r) ==
  IF r.url # <<"about">> /\ ~(ServiceName(r.service) /\ PathName(r.path)) THEN 400
  ELSE IF HasForbidden(r.service) \/ HasForbidden(r.path) THEN 400
  ELSE IF r.accept = "other" THEN 406
  ELSE IF r.body # "none" /\ r.type = "other" THEN 415
  ELSE 200

----------------------------------------------------------------------------
(* The search for the handler.  add_common_urls() has added these; the map *)
(* is searched in the order of the URLs.                                   *)
Handlers == << <<"about">>, <<"devices">>, <<"devices", "<device>">>,
               <<"services">>, <<"services", "<service>">> >>

Placeholders == {"<device>", "<service>"}

(* format_pattern(), restResourceParse(): a placeholder is ([^/]+), the    *)
(* rest must be equal, and the whole URL must match.                       *)
RestResourceParse(pattern, url) ==
  /\ Len(pattern) = Len(url)
  /\ \A i \in DOMAIN pattern : pattern[i] = url[i] \/ pattern[i] \in Placeholders

Found(url) == {h \in DOMAIN Handlers : RestResourceParse(Handlers[h], url)}

(* handle_request(): the first that matches, or 404. *)
Route(url) ==
  IF Found(url) = {} THEN <<>>
  ELSE Handlers[CHOOSE h \in Found(url) : \A g \in Found(url) : h <= g]

----------------------------------------------------------------------------
Place(r) == [service |-> r.service, path |-> IF r.path = <<>> THEN <<"/">> ELSE r.path]

(* addServicePath(), and the queries of delete_service_json(): a wildcard  *)
(* is no condition.                                                        *)
At(place, d) ==
  d.service = place.service /\ (place.path \in Wildcards \/ d.path = place.path)

(* lexical_cast of limit and offset: "x" is no number. *)
BadNumber(r) == "x" \in {r.limit, r.offset}
ReadLimitS(l) ==
  CASE l = "none" -> SDefault [] l = "-2" -> SDefault [] l = "-1" -> -1
    [] l = "0" -> 0 [] l = "1" -> 1 [] l = "9" -> SMax
ReadOffsetS(o) == IF o = "1" THEN 1 ELSE 0

Entered(r, h) ==
  [pc |-> "handler", r |-> r, single |-> h = <<"services", "<service>">>,
   at |-> 1, count |-> 0, list |-> {}, status |-> 0]

SInit(pc) ==
  /\ sreq = [t \in SThreads |-> [pc |-> pc]]
  /\ svcs = FirstServices /\ devs = FirstDevices
  /\ changes = [t \in SThreads |-> {}]
  /\ raced = [t \in SThreads |-> {}]
  /\ orphaned = {}

NoChange == UNCHANGED <<svcs, devs, changes, raced, orphaned>>

SAnswer(t, status) == sreq' = [sreq EXCEPT ![t].pc = "answered", ![t].status = status]

(* operator(), the filter and handle_request().  devices(), device() and   *)
(* about() are not looked into here.                                       *)
SReceive(t) ==
  /\ sreq[t].pc = "idle"
  /\ \E r \in SRequests :
       LET h == Route(r.url) IN
       sreq' = [sreq EXCEPT ![t] =
         IF Verdict(r) # 200
         THEN [Entered(r, h) EXCEPT !.pc = "answered", !.status = Verdict(r)]
         ELSE IF h = <<>> THEN [Entered(r, h) EXCEPT !.pc = "answered", !.status = 404]
         ELSE IF h[1] # "services" THEN [Entered(r, h) EXCEPT !.pc = "answered", !.status = 200]
         ELSE Entered(r, h)]
  /\ NoChange

(* What services() and service() refuse before any operation: a service in *)
(* the URL that is not the one of the header, limit and offset that are no *)
(* numbers, PUT of a wildcard (service() lets it pass), a missing resource *)
(* for PUT and DELETE, DELETE of a wildcard with its devices, another      *)
(* method.                                                                 *)
Refuses(q) ==
  LET r == q.r IN
  \/ q.single /\ r.url[2] # r.name
  \/ r.method = "GET" /\ ~q.single /\ BadNumber(r)
  \/ r.method = "PUT" /\ ~q.single /\ r.path \in Wildcards
  \/ r.method \in {"PUT", "DELETE"} /\ r.resource = ""
  \/ r.method = "DELETE" /\ r.path \in Wildcards /\ r.devices

Unknown404(q) ==
  ~(q.r.method \in {"GET", "PUT", "DELETE"} \/ (q.r.method = "POST" /\ ~q.single))

SHandle(t) ==
  /\ sreq[t].pc = "handler"
  /\ LET q == sreq[t] IN
     CASE Refuses(q) -> SAnswer(t, 400)
       [] ~Refuses(q) /\ Unknown404(q) -> SAnswer(t, 404)
       [] OTHER -> sreq' = [sreq EXCEPT ![t].pc = q.r.method]
  /\ NoChange

(* A document of a POST: check_uri() and check_existing_resource(). *)
GoodElement(e) == e.cbroker # "bad" /\ (e.resource = "" \/ e.resource \in SResources)

Inserted(t, place, e) ==
  \E id \in 1..MaxDocs :
    /\ \A d \in svcs : d.id # id
    /\ \A i \in 1..(id - 1) : \E d \in svcs : d.id = i
    /\ svcs' = svcs \cup {[id |-> id, service |-> place.service, path |-> place.path,
                           apikey |-> e.apikey, resource |-> e.resource]}
    /\ changes' = [changes EXCEPT ![t] = @ \cup {place}]
    /\ raced' = [u \in SThreads |-> raced[u] \cup {place}]

(* validate_json_schema(): the body parses and fits the schema; an empty   *)
(* body is refused before.                                                 *)
Validates(r) == r.body \notin {"none", "bad"}

(* A mutation: the resource is looked at after the insertion. *)
PostServiceJsonChecksLate(t) ==
  LET q == sreq[t] IN
  /\ q.pc = "POST"
  /\ CASE ~Validates(q.r) -> SAnswer(t, 400) /\ NoChange
       [] Validates(q.r) /\ q.at > Len(q.r.elements) -> SAnswer(t, 201) /\ NoChange
       [] OTHER ->
          /\ Inserted(t, Place(q.r), q.r.elements[q.at])
          /\ IF GoodElement(q.r.elements[q.at])
             THEN sreq' = [sreq EXCEPT ![t].at = @ + 1] ELSE SAnswer(t, 400)
          /\ UNCHANGED <<devs, orphaned>>

(* post_service_json(): an empty or malformed body is refused; then one    *)
(* document after the other.  What was inserted before a document that is  *)
(* refused, or that the database does not take, stays.                     *)
PostServiceJson(t) ==
  LET q == sreq[t] IN
  /\ q.pc = "POST"
  /\ CASE ~Validates(q.r) -> SAnswer(t, 400) /\ NoChange
       [] Validates(q.r) /\ q.at > Len(q.r.elements) -> SAnswer(t, 201) /\ NoChange
       [] OTHER ->
          \/ /\ ~GoodElement(q.r.elements[q.at])
             /\ SAnswer(t, 400) /\ NoChange
          \/ /\ GoodElement(q.r.elements[q.at])
             /\ SAnswer(t, 500) /\ NoChange
          \/ /\ GoodElement(q.r.elements[q.at])
             /\ Inserted(t, Place(q.r), q.r.elements[q.at])
             /\ sreq' = [sreq EXCEPT ![t].at = @ + 1]
             /\ UNCHANGED <<devs, orphaned>>

(* put_service_json(): resources, the body, then one document that matches *)
(* the place literally, the key and the resource.                          *)
PutServiceJson(t) ==
  LET q == sreq[t]
      new == q.r.elements[1]
      old == {d \in svcs : /\ d.service = q.r.service /\ d.path = Place(q.r).path
                           /\ d.apikey = q.r.apikey /\ d.resource = q.r.resource} IN
  /\ q.pc = "PUT"
  /\ \/ /\ q.r.resource \notin SResources \/ ~Validates(q.r) \/ ~GoodElement(new)
        /\ SAnswer(t, 400) /\ NoChange
     \/ /\ q.r.resource \in SResources /\ Validates(q.r) /\ GoodElement(new)
        /\ \/ old = {} /\ SAnswer(t, 404) /\ NoChange
           \/ SAnswer(t, 500) /\ NoChange
           \/ \E d \in old :
                /\ svcs' = (svcs \ {d}) \cup
                     {[d EXCEPT !.resource = IF new.resource = "" THEN @ ELSE new.resource]}
                /\ changes' = [changes EXCEPT ![t] = @ \cup {Place(q.r)}]
                /\ SAnswer(t, 204)
                /\ UNCHANGED <<devs, raced, orphaned>>

(* get_all_services_json(): the count, *)
CountServices(t) ==
  LET q == sreq[t] IN
  /\ q.pc = "GET"
  /\ \/ SAnswer(t, 500)
     \/ sreq' = [sreq EXCEPT ![t].pc = "find",
                   ![t].count = Cardinality({d \in svcs :
                      At(Place(q.r), d) /\ (q.r.resource = "" \/ d.resource = q.r.resource)})]
  /\ NoChange

(* and the page: service() asks without limit and offset. *)
FindServices(t) ==
  LET q == sreq[t]
      all == {d \in svcs :
                At(Place(q.r), d) /\ (q.r.resource = "" \/ d.resource = q.r.resource)}
      limitS == IF q.single THEN 0 ELSE ReadLimitS(q.r.limit)
      offsetS == IF q.single THEN 0 ELSE ReadOffsetS(q.r.offset)
      rest == IF Cardinality(all) > offsetS THEN Cardinality(all) - offsetS ELSE 0
      size == CASE limitS < 0 -> 0 [] limitS = 0 -> rest
                [] OTHER -> IF limitS < rest THEN limitS ELSE rest IN
  /\ q.pc = "find"
  /\ \E l \in {s \in SUBSET all : Cardinality(s) = size} :
       sreq' = [sreq EXCEPT ![t].pc = "answered", ![t].status = 200, ![t].list = l]
  /\ NoChange

(* delete_service_json(): all services of the place are counted, *)
CountForDelete(t) ==
  LET q == sreq[t] IN
  /\ q.pc = "DELETE"
  /\ \/ SAnswer(t, 500) /\ UNCHANGED raced
     \/ /\ sreq' = [sreq EXCEPT ![t].pc = "remove",
                      ![t].count = Cardinality({d \in svcs : At(Place(q.r), d)})]
        /\ raced' = [raced EXCEPT ![t] = {}]
  /\ UNCHANGED <<svcs, devs, changes, orphaned>>

ToRemove(r) ==
  {d \in svcs : /\ At(Place(r), d) /\ d.resource = r.resource
                /\ r.apikey = "" \/ d.apikey = r.apikey}

(* A mutation: the devices go whenever a service goes. *)
RemoveServicesAlways(t) ==
  LET q == sreq[t] IN
  /\ q.pc = "remove"
  /\ svcs' = svcs \ ToRemove(q.r)
  /\ changes' = [changes EXCEPT ![t] = @ \cup {[service |-> d.service, path |-> d.path] : d \in ToRemove(q.r)}]
  /\ IF q.r.devices THEN sreq' = [sreq EXCEPT ![t].pc = "devices"] ELSE SAnswer(t, 204)
  /\ UNCHANGED <<devs, raced, orphaned>>

(* those that match are removed, *)
RemoveServices(t) ==
  LET q == sreq[t] IN
  /\ q.pc = "remove"
  /\ \/ SAnswer(t, 500) /\ UNCHANGED <<svcs, changes>>
     \/ /\ svcs' = svcs \ ToRemove(q.r)
        /\ changes' = [changes EXCEPT ![t] =
             @ \cup {[service |-> d.service, path |-> d.path] : d \in ToRemove(q.r)}]
        /\ IF q.count = Cardinality(ToRemove(q.r)) /\ q.r.devices
           THEN sreq' = [sreq EXCEPT ![t].pc = "devices"]
           ELSE SAnswer(t, 204)
  /\ UNCHANGED <<devs, raced, orphaned>>

(* and the devices if that were all. *)
RemoveDevices(t) ==
  LET q == sreq[t]
      place == Place(q.r) IN
  /\ q.pc = "devices"
  /\ \/ SAnswer(t, 500) /\ UNCHANGED <<devs, changes, orphaned>>
     \/ /\ devs' = devs \ {place}
        /\ changes' = [changes EXCEPT ![t] = @ \cup (devs \cap {place})]
        /\ orphaned' = IF place \in devs /\ (\E d \in svcs : At(place, d)) /\ place \notin raced[t]
                       THEN orphaned \cup {place} ELSE orphaned
        /\ SAnswer(t, 204)
  /\ UNCHANGED <<svcs, raced>>

SNext ==
  \E t \in SThreads :
    \/ SReceive(t) \/ SHandle(t) \/ PostServiceJson(t) \/ PutServiceJson(t)
    \/ CountServices(t) \/ FindServices(t)
    \/ CountForDelete(t) \/ RemoveServices(t) \/ RemoveDevices(t)

----------------------------------------------------------------------------
Answered(t) == sreq[t].pc = "answered"

(* A request changes documents of the Fiware-Service of its header only,   *)
(* and of its path, unless a DELETE without devices names the wildcard;    *)
(* and no document is ever stored under a name with a wildcard or a        *)
(* forbidden character in it, POST with the bare wildcard excepted (which  *)
(* services() refuses for PUT only).                                       *)
WithinItsScope ==
  /\ \A t \in SThreads : \A place \in changes[t] :
       /\ place.service = sreq[t].r.service
       /\ \/ place.path = Place(sreq[t].r).path
          \/ sreq[t].r.method = "DELETE" /\ ~sreq[t].r.devices
             /\ sreq[t].r.path \in Wildcards
  /\ \A d \in svcs :
       (\E i \in DOMAIN d.path : d.path[i] \in {"*", "#"} \cup Forbidden)
         => d.path \in Wildcards

(* A request about services that is refused has changed nothing, whatever  *)
(* step refused it; a POST of several services and a DELETE that fails     *)
(* between its operations excepted.  What a GET lists belongs to the       *)
(* service and path it asks for.                                           *)
RefusedChangesNothing ==
  \A t \in SThreads : Answered(t) =>
    /\ (/\ sreq[t].status \in 400..599
        /\ ~(sreq[t].r.method = "POST" /\ Len(sreq[t].r.elements) > 1)
        /\ ~(sreq[t].r.method = "DELETE" /\ sreq[t].status = 500)) => changes[t] = {}
    /\ \A d \in sreq[t].list : At(Place(sreq[t].r), d)

(* Devices are removed with the services only if no service of their place *)
(* is left, unless another request inserted one there after the services   *)
(* were counted (delete_service_json() counts and removes in two steps).   *)
DevicesFollowServices == orphaned = {}

(* A request changes what it names and no more, nothing when it is         *)
(* refused, and devices only together with their services.                 *)
ChangesAreOwn == WithinItsScope /\ RefusedChangesNothing /\ DevicesFollowServices
=============================================================================
