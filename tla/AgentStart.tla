----------------------------- MODULE AgentStart -----------------------------
(***************************************************************************)
(* How an agent starts and stops: main() (app/main.cc) prepares the        *)
(* process, loads the plugin of every resource of the configuration file   *)
(* one after the other, and starts the servers (rest/process.cc).  Plugins *)
(* of TCP start when they are loaded, those of HTTP when their server      *)
(* starts; a plugin that starts registers itself with AdminService, which  *)
(* keeps the first of a name (register_plugin() of rest/rest_handle.cc).   *)
(*                                                                         *)
(* A resource is a record of what matters of its entry: where it is (a     *)
(* path for HTTP, an endpoint and a path for TCP, or a url of another      *)
(* protocol), whether its library can be loaded and whether its start()    *)
(* ends without exception.  The servers and the loading of libraries are   *)
(* Pion's: a name can be loaded once, and what start() of a plugin or      *)
(* bind() throws leaves start() of the server.                             *)
(***************************************************************************)
EXTENDS Integers, Sequences, FiniteSets

CONSTANTS
  Setups,        \* "ok" or what is wrong before the resources are read
  ResourceLists  \* resources of configuration files

(* A list of resources is an array. *)
ASSUME StartAssumption ==
  \A list \in ResourceLists : list \in Seq({list[i] : i \in DOMAIN list})

NoEndpoint == "none"   \* the host is not an address

VARIABLES
  setup,        \* what the process finds
  entries,      \* the resources of the file
  main,         \* "prepare", "load", "tcp", "http", "running" or "exit"
  entry,        \* the entry that is read next
  tcpServers,   \* _tcp_servers: the endpoints
  listening,    \* endpoints that accept connections
  tcpPlugins,   \* entries in _tcp_plugin_manager
  httpPlugins,  \* entries in the HTTP server
  up,           \* entries whose start() has ended
  known,        \* _service_manager: names and the entries behind them
  exitCode      \* of main(), "no" before

startVars == <<setup, entries, main, entry, tcpServers, listening, tcpPlugins, httpPlugins, up,
               known, exitCode>>

StartInit(pc) ==
  /\ setup \in Setups /\ entries \in ResourceLists
  /\ main = pc /\ entry = 1
  /\ tcpServers = {} /\ listening = {} /\ tcpPlugins = {} /\ httpPlugins = {} /\ up = {}
  /\ known = [n \in {} |-> n] /\ exitCode = "no"

Exit(code) == main' = "exit" /\ exitCode' = code

(* What main() finds wrong itself and returns 1 for: the arguments, the    *)
(* directory of plugins, the configuration or its array of resources.      *)
SetupRefused == setup \notin {"ok", "schema"}

(* The process, AdminService with its schemas, and the array of resources. *)
(* An exception, as that of a schema that is not there, is logged, and     *)
(* main() then ends as if all was well.                                    *)
Prepare ==
  /\ main = "prepare"
  /\ CASE setup = "ok" -> main' = "load" /\ UNCHANGED exitCode
       [] setup = "schema" -> Exit("0")
       [] SetupRefused -> Exit("1")
  /\ UNCHANGED <<setup, entries, entry, tcpServers, listening, tcpPlugins, httpPlugins, up, known>>

(* register_plugin(): add_service() inserts. *)
Registered(i) ==
  LET n == entries[i].path
  IN  [m \in DOMAIN known \cup {n} |-> IF m \in DOMAIN known THEN known[m] ELSE i]

SameName(plugins, i) ==
  \E j \in plugins : <<entries[j].kind, entries[j].endpoint, entries[j].path>>
                   = <<entries[i].kind, entries[i].endpoint, entries[i].path>>

(* A mutation: what goes wrong with one resource ends the loop. *)
LoadedOrOut(i) ==
  IF entries[i].library /\ ~SameName(httpPlugins, i)
  THEN httpPlugins' = httpPlugins \cup {i} /\ entry' = i + 1
  ELSE UNCHANGED httpPlugins /\ entry' = Len(entries) + 1

(* load_service() of the HTTP server; an exception is logged. *)
LoadService(i) ==
  /\ httpPlugins' = IF entries[i].library /\ ~SameName(httpPlugins, i)
                    THEN httpPlugins \cup {i} ELSE httpPlugins
  /\ entry' = i + 1

(* A resource that is not complete, or of another protocol. *)
SkipResource ==
  /\ main = "load" /\ entry <= Len(entries)
  /\ ~entries[entry].complete \/ entries[entry].kind = "url"
  /\ entry' = entry + 1
  /\ UNCHANGED <<setup, entries, main, tcpServers, listening, tcpPlugins, httpPlugins, up, known,
                 exitCode>>

(* A path is no url: its exception leads to the HTTP server. *)
LoadHttp ==
  /\ main = "load" /\ entry <= Len(entries)
  /\ entries[entry].complete /\ entries[entry].kind = "http"
  /\ LoadService(entry)
  /\ UNCHANGED <<setup, entries, main, tcpServers, listening, tcpPlugins, up, known, exitCode>>

(* So does what goes wrong with a TCP service: the address, the library or *)
(* start(); what was made before stays.                                    *)
LoadTcp ==
  LET e == entries[entry]
      address == e.endpoint # NoEndpoint
      loads == address /\ e.library /\ ~SameName(tcpPlugins, entry) IN
  /\ main = "load" /\ entry <= Len(entries)
  /\ e.complete /\ e.kind = "tcp"
  /\ tcpServers' = IF address THEN tcpServers \cup {e.endpoint} ELSE tcpServers
  /\ tcpPlugins' = IF loads THEN tcpPlugins \cup {entry} ELSE tcpPlugins
  /\ IF loads /\ e.starts
     THEN /\ up' = up \cup {entry} /\ known' = Registered(entry)
          /\ entry' = entry + 1
          /\ UNCHANGED httpPlugins
     ELSE LoadService(entry) /\ UNCHANGED <<up, known>>
  /\ UNCHANGED <<setup, entries, main, listening, exitCode>>

AllLoaded ==
  /\ main = "load" /\ entry > Len(entries)
  /\ main' = "tcp"
  /\ UNCHANGED <<setup, entries, entry, tcpServers, listening, tcpPlugins, httpPlugins, up, known,
                 exitCode>>

(* Process::start(): the TCP servers. *)
StartTcp ==
  /\ main = "tcp"
  /\ \/ \E e \in tcpServers \ listening :
          \/ listening' = listening \cup {e} /\ UNCHANGED <<main, exitCode>>
          \/ Exit("0") /\ UNCHANGED listening
     \/ tcpServers = listening /\ main' = "http" /\ UNCHANGED <<listening, exitCode>>
  /\ UNCHANGED <<setup, entries, entry, tcpServers, tcpPlugins, httpPlugins, up, known>>

(* ... and the HTTP server: its plugins, and then bind(). *)
StartHttp ==
  /\ main = "http"
  /\ \/ \E i \in httpPlugins \ up :
          \/ /\ entries[i].starts
             /\ up' = up \cup {i} /\ known' = Registered(i)
             /\ UNCHANGED <<main, exitCode>>
          \/ ~entries[i].starts /\ Exit("0") /\ UNCHANGED <<up, known>>
     \/ /\ httpPlugins \subseteq up
        /\ \/ main' = "running" /\ UNCHANGED exitCode
           \/ Exit("0")
        /\ UNCHANGED <<up, known>>
  /\ UNCHANGED <<setup, entries, entry, tcpServers, listening, tcpPlugins, httpPlugins>>

(* wait_for_shutdown(), shutdown() *)
Shutdown ==
  /\ main = "running"
  /\ listening' = {} /\ tcpServers' = {} /\ httpPlugins' = {}
  /\ Exit("0")
  /\ UNCHANGED <<setup, entries, entry, tcpPlugins, up, known>>

StartNext ==
  \/ Prepare \/ SkipResource \/ LoadHttp \/ LoadTcp \/ AllLoaded
  \/ StartTcp \/ StartHttp \/ Shutdown

----------------------------------------------------------------------------
Good(i) ==
  LET e == entries[i] IN
  /\ e.complete /\ e.library /\ e.starts
  /\ e.kind = "http" \/ (e.kind = "tcp" /\ e.endpoint # NoEndpoint)

(* In an agent that runs, every resource that has nothing wrong and a name *)
(* of its own is served, and AdminService reaches it under that name, no   *)
(* matter what is wrong with the resources around it in the file.          *)
GoodResourcesServe ==
  main = "running" =>
    \A i \in DOMAIN entries :
      /\ Good(i) /\ ~SameName(1..(i - 1), i) =>
           /\ i \in up
           /\ i \in IF entries[i].kind = "http" THEN httpPlugins ELSE tcpPlugins
           /\ entries[i].kind = "tcp" => entries[i].endpoint \in listening
      /\ Good(i) /\ (\A j \in DOMAIN entries \ {i} : entries[j].path # entries[i].path) =>
           entries[i].path \in DOMAIN known /\ known[entries[i].path] = i
=============================================================================
