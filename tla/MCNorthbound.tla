---------------------------- MODULE MCNorthbound ----------------------------
(* Small instances of the parts that answer requests from the north and    *)
(* serve the plugins: the IoT Agent Manager, the configuration of an       *)
(* agent, its services, its access to the database, its counters and its   *)
(* start.  A behaviour is one of one part.                                 *)
EXTENDS ManagerRequests, Configuration, ServiceRequests, Database, Statistics, AgentStart

CONSTANTS i1, p1, p2

VARIABLE part   \* the part at work

(* Manager *)
MCLimits == {-2, -1, 0, 1, 2, 3, 5}
MCOffsets == {-1, 0, 1, 2, 3, 4, 5}
MCProtocolOf == [i \in Items |-> IF i = i1 THEN p1 ELSE p2]

(* Configuration: services with and without a broker, one of them not      *)
(* complete; a resource twice; resources under two names.                  *)
Service(service, path, apikey, cbroker, good) ==
  [service |-> service, path |-> path, apikey |-> apikey, cbroker |-> cbroker, good |-> good]
RText(name, services) == [parses |-> TRUE, object |-> TRUE, name |-> name, services |-> services]
CText(rt, rs) == [parses |-> TRUE, object |-> TRUE, root |-> rt, array |-> TRUE, resources |-> rs]

S11 == Service(1, 1, "k", "b", TRUE)
S12 == Service(1, 2, "l", "", TRUE)
S11b == Service(1, 1, "k", "c", TRUE)
Incomplete == Service(2, 1, "", "", FALSE)

OneResource == CText("A", <<RText(1, <<S11, S12>>)>>)
Another == CText("B", <<RText(1, <<S11b, S11>>), RText(2, <<S12>>)>>)
PartlyBad == CText("C", <<RText(2, <<S11>>), RText(1, <<Incomplete, S12>>)>>)

MCTexts == {OneResource, Another, PartlyBad, NoText,
            [OneResource EXCEPT !.root = "D", !.array = FALSE],
            [OneResource EXCEPT !.object = FALSE]}
MCFirstTexts == {OneResource, Another, PartlyBad, NoText}
MCPutTexts == {RText(0, <<S11b>>), RText(2, <<S12>>), RText(0, <<Incomplete>>),
               [RText(0, <<>>) EXCEPT !.parses = FALSE]}
ByName(service, path) == [by |-> "name", service |-> service, path |-> path]
ByKey(apikey) == [by |-> "apikey", apikey |-> apikey]
TheDevice(name, service, path) ==
  [by |-> "device", name |-> name, service |-> service, path |-> path]
MCAsks == {ByName(1, 0), ByName(1, 2), ByName(2, 1), ByKey("k"), ByKey("l"),
           TheDevice("d", 1, 0), TheDevice("d", 0, 0), TheDevice("e", 0, 1), TheDevice("e", 1, 2)}
MCStored == <<S12, Service(2, 1, "k", "", TRUE), Service(2, 2, "k", "z", TRUE)>>
InFile(name, path, active, good) ==
  [name |-> name, service |-> 1, path |-> path, active |-> active, good |-> good]
MCDeviceFiles ==
  {<<InFile("d", 2, TRUE, TRUE), InFile("d", 0, FALSE, TRUE), InFile("e", 2, TRUE, TRUE)>>,
   <<InFile("d", 1, TRUE, TRUE), InFile("d", 0, FALSE, TRUE), InFile("e", 2, TRUE, FALSE),
     InFile("d", 2, TRUE, TRUE)>>}

(* Services: one request of every kind that is answered differently. *)
Ask(method, url, path, resource) ==
  [method |-> method, url |-> url, name |-> "a", service |-> <<"a">>, path |-> path,
   accept |-> "json", type |-> "json", body |-> "none", elements |-> <<>>, limit |-> "none",
   offset |-> "none", resource |-> resource, apikey |-> "", devices |-> FALSE]
AllServices == <<"services">>
OneService == <<"services", "a">>
Element(apikey, resource, cbroker) ==
  [apikey |-> apikey, resource |-> resource, cbroker |-> cbroker]
Post(path, elements) ==
  [Ask("POST", AllServices, path, "") EXCEPT !.body = "ok", !.elements = elements]
Put(url, path, element) ==
  [Ask("PUT", url, path, "/d") EXCEPT !.body = "ok", !.elements = <<element>>, !.apikey = "k"]
RootPath == <<"/">>
MCSRequests ==
  {Post(<<>>, <<Element("k", "/d", "")>>), Post(<<"/", "*">>, <<Element("l", "", "uri")>>),
   Post(RootPath, <<Element("l", "/e", ""), Element("m", "/x", "")>>),
   Post(RootPath, <<Element("k", "/d", "bad")>>), Post(<<"/", "*", "A">>, <<Element("k", "/d", "")>>),
   [Post(RootPath, <<>>) EXCEPT !.body = "bad"], [Post(RootPath, <<>>) EXCEPT !.type = "other"],
   [Post(RootPath, <<>>) EXCEPT !.url = OneService],
   Put(AllServices, RootPath, Element("k", "/e", "")), Put(OneService, <<>>, Element("k", "/x", "")),
   Put(AllServices, <<"/", "#">>, Element("k", "/e", "")),
   Put(OneService, <<"/", "#">>, Element("k", "/e", "")),
   [Put(OneService, RootPath, Element("k", "/e", "")) EXCEPT !.name = "b", !.service = <<"b">>],
   [Ask("DELETE", AllServices, RootPath, "/d") EXCEPT !.devices = TRUE],
   [Ask("DELETE", OneService, RootPath, "/e") EXCEPT !.devices = TRUE, !.apikey = "k"],
   [Ask("DELETE", AllServices, <<"/", "*">>, "/d") EXCEPT !.devices = TRUE],
   Ask("DELETE", AllServices, <<"/", "#">>, "/d"), Ask("DELETE", OneService, RootPath, ""),
   Ask("GET", AllServices, <<"/", "*">>, ""), Ask("GET", OneService, RootPath, "/d"),
   [Ask("GET", AllServices, <<>>, "") EXCEPT !.limit = "1", !.offset = "1"],
   [Ask("GET", AllServices, <<>>, "") EXCEPT !.limit = "-1"],
   [Ask("GET", AllServices, <<>>, "") EXCEPT !.offset = "x"],
   [Ask("GET", AllServices, <<"a">>, "") EXCEPT !.limit = "9"],
   [Ask("GET", AllServices, <<>>, "") EXCEPT !.service = <<"a", "A">>],
   [Ask("GET", AllServices, <<>>, "") EXCEPT !.accept = "other"],
   [Ask("GET", <<"about">>, <<>>, "") EXCEPT !.service = <<>>],
   Ask("GET", <<"agents">>, RootPath, ""), Ask("HEAD", AllServices, RootPath, "")}
Stored1 == [id |-> 1, service |-> <<"a">>, path |-> RootPath, apikey |-> "k", resource |-> "/d"]
MCFirstServices == {Stored1, [Stored1 EXCEPT !.id = 2, !.resource = "/e"],
                    [Stored1 EXCEPT !.id = 3, !.service = <<"b">>],
                    [Stored1 EXCEPT !.id = 4, !.path = <<"/", "b">>]}
MCFirstDevices == {[service |-> <<"a">>, path |-> RootPath],
                   [service |-> <<"b">>, path |-> RootPath]}

(* The start: resources of all kinds, with all that can be wrong. *)
Res(kind, endpoint, path, complete, library, starts) ==
  [kind |-> kind, endpoint |-> endpoint, path |-> path, complete |-> complete,
   library |-> library, starts |-> starts]
GoodResources ==
  {Res("http", "", "/d", TRUE, TRUE, TRUE), Res("http", "", "/e", TRUE, TRUE, TRUE),
   Res("tcp", "a", "/d", TRUE, TRUE, TRUE), Res("tcp", "b", "/m", TRUE, TRUE, TRUE)}
MCResources ==
  GoodResources
  \cup {Res("http", "", "/d", TRUE, FALSE, TRUE), Res("http", "", "/f", TRUE, TRUE, FALSE),
        Res("http", "", "/f", FALSE, TRUE, TRUE), Res("url", "a", "/g", TRUE, TRUE, TRUE)}
  \cup {Res("tcp", e, "/d", TRUE, l, s) :
          e \in {"a", NoEndpoint}, l \in BOOLEAN, s \in BOOLEAN}
MCSetups == {"ok", "arguments", "directory", "configuration", "schema", "resources"}
MCResourceLists ==
  {<<>>} \cup {<<r>> : r \in MCResources} \cup {<<r, s>> : r \in MCResources, s \in MCResources}
  \cup {<<r, s, g>> : r \in MCResources, s \in MCResources, g \in GoodResources}

(* The parts do not meet, so that they share model values: the connections *)
(* are named as the threads of the configuration are, the threads of the   *)
(* database as those of the services.                                      *)
CSymmetry == Permutations(CThreads) \cup Permutations(SThreads)

(* A part that is not at work. *)
ManagerOff == NoPage /\ req = NoRequest /\ done = {} /\ table = [p \in Protocols |-> {}]
ConfOff == ConfInit("off") /\ cfile = NoText /\ storage = "mongodb"
ServicesOff == SInit("off")
DatabaseOff ==
  /\ dpool = {} /\ dlive = {} /\ dalarm = FALSE /\ ddocs = [k \in Keys |-> 0]
  /\ dreq = [t \in DThreads |-> [Fresh("count", NoConn, NoConn) EXCEPT !.pc = "off"]]
StatOff == StatInit("off")
StartOff == StartInit("off") /\ setup = "ok" /\ entries = <<>>

Init ==
  \/ part = "manager" /\ ManagerInit /\ ConfOff /\ ServicesOff /\ DatabaseOff /\ StatOff /\ StartOff
  \/ part = "configuration" /\ ConfInit("idle") /\ ManagerOff /\ ServicesOff /\ DatabaseOff /\ StatOff /\ StartOff
  \/ part = "services" /\ SInit("idle") /\ ManagerOff /\ ConfOff /\ DatabaseOff /\ StatOff /\ StartOff
  \/ part = "database" /\ DInit("idle") /\ ManagerOff /\ ConfOff /\ ServicesOff /\ StatOff /\ StartOff
  \/ part = "statistics" /\ StatInit("idle") /\ ManagerOff /\ ConfOff /\ ServicesOff /\ DatabaseOff
       /\ StartOff
  \/ part = "start" /\ StartInit("prepare") /\ ManagerOff /\ ConfOff /\ ServicesOff /\ DatabaseOff
       /\ StatOff /\ (setup = "ok" \/ entries = <<>>)

Next ==
  /\ \/ part = "manager" /\ ManagerNext /\ UNCHANGED <<confVars, sreqVars, dbVars, statVars, startVars>>
     \/ part = "configuration" /\ ConfNext /\ UNCHANGED <<pageVars, reqVars, sreqVars, dbVars, statVars, startVars>>
     \/ part = "services" /\ SNext /\ UNCHANGED <<pageVars, reqVars, confVars, dbVars, statVars, startVars>>
     \/ part = "database" /\ DNext /\ UNCHANGED <<pageVars, reqVars, confVars, sreqVars, statVars, startVars>>
     \/ part = "statistics" /\ StatNext /\ UNCHANGED <<pageVars, reqVars, confVars, sreqVars, dbVars, startVars>>
     \/ part = "start" /\ StartNext
        /\ UNCHANGED <<pageVars, reqVars, confVars, sreqVars, dbVars, statVars>>
  /\ UNCHANGED part

Spec == Init /\ [][Next]_<<part, pageVars, reqVars, confVars, sreqVars, dbVars, statVars, startVars>>
=============================================================================
