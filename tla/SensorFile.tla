----------------------------- MODULE SensorFile -----------------------------
(***************************************************************************)
(* The start of the MQTT plugin: its options name a file, which names the  *)
(* file of a sensor; the sensor is made of what that file says             *)
(* (mqtt/MqttService.cc, esp/source/ESPLib.cpp and TDA.cpp).               *)
(*                                                                         *)
(* Nothing of this ever fails aloud.  An option file that cannot be read   *)
(* leaves the service without sensor; an element no plugin of the file     *)
(* knows, or a name nobody has, is passed over.  Only a plugin without a   *)
(* name (strcmp of NULL) and a sensor without the command "main" end the   *)
(* agent.                                                                  *)
(*                                                                         *)
(* An option is what set_option() is called with.  The XML of a file is    *)
(* the sequence of the elements of each section; how it is written is the  *)
(* vendored parser's matter.  The library is built with USE_MQTT, USE_IOT  *)
(* and USE_JSON and without USE_LUA (esp/CMakeLists.txt), so no            *)
(* preprocessor is ever made.  There is one service with this plugin.      *)
(***************************************************************************)
EXTENDS Integers, Sequences, SequencesExt, Arranged

CONSTANT SensorOptions   \* sequences of options

(* The sections of the file of a sensor are lists, and so are the names of *)
(* the postprocessors of an output.                                        *)
FileOK(f) ==
  f.xml = "sensor" =>
    /\ IsList(f.plugins) /\ IsList(f.postprocessors) /\ IsList(f.inputs)
    /\ IsList(f.outputs) /\ IsList(f.commands)
    /\ \A i \in DOMAIN f.outputs : IsList(f.outputs[i].names)
SensorOptionsAssumption ==
  \A options \in SensorOptions :
    IsList(options) /\ \A i \in DOMAIN options : FileOK(options[i].file)
ASSUME SensorOptionsAssumption

VARIABLES
  soptions,    \* the options to come
  sstep,       \* where the start stands
  sfile,       \* doc: the file that is read
  splugins,    \* the plugins of the sensor, <<kind, name>> in the order of the file
  sinputs,     \* inputs
  soutputs,    \* outputs
  sposts,      \* postprocessors
  scommands,   \* commands: the entry of each name
  sensors,     \* ESPLib: ids of the sensors that are there
  idsensor,    \* MqttService: its sensor
  publisher,   \* the sensors that have the publisher in their user data
  srunners     \* the runners of the sensor

sensorVars == <<soptions, sstep, sfile, splugins, sinputs, soutputs, sposts, scommands,
                sensors, idsensor, publisher, srunners>>
parsed == <<splugins, sinputs, soutputs, sposts, scommands>>

NoSensor == -1
NoName == "none"          \* an attribute the element does not have
NoFile == [xml |-> "none"]
Nobody == <<>>

SensorInit(step) ==
  /\ soptions \in SensorOptions
  /\ sstep = step /\ sfile = NoFile
  /\ splugins = Nobody /\ sinputs = Nobody /\ soutputs = Nobody /\ sposts = Nobody
  /\ scommands = [n \in {} |-> 0]
  /\ sensors = {} /\ idsensor = NoSensor /\ publisher = {} /\ srunners = Nobody

(* initESPLib() takes one sensor only. *)
InitESPLib(file) ==
  IF sensors = {} THEN sstep' = "load" /\ sfile' = file ELSE UNCHANGED <<sstep, sfile>>

(* set_option(): whatever is thrown while the configuration is read is     *)
(* caught.  Other options are not about the sensor.                        *)
SetOption ==
  LET o == Head(soptions) IN
  /\ sstep = "options" /\ soptions # <<>>
  /\ soptions' = Tail(soptions)
  /\ IF o.name = "ConfigFile" /\ o.config = "complete" THEN InitESPLib(o.file)
     ELSE UNCHANGED <<sstep, sfile>>
  /\ UNCHANGED <<parsed, sensors, idsensor, publisher, srunners>>

(* loadFromFile(): a file that cannot be parsed, or without an element, is *)
(* no sensor.                                                              *)
LoadFromFile ==
  /\ sstep = "load"
  /\ IF sfile.xml = "sensor" THEN sstep' = "plugins" /\ UNCHANGED idsensor
     ELSE sstep' = "options" /\ idsensor' = NoSensor
  /\ splugins' = Nobody /\ sinputs' = Nobody /\ soutputs' = Nobody /\ sposts' = Nobody
  /\ scommands' = [n \in {} |-> 0]
  /\ UNCHANGED <<soptions, sfile, sensors, publisher, srunners>>

(* The plugins this build has. *)
KnownPlugins ==
  {<<"pluginparser", "binaryparser">>, <<"plugininput", "mqtt">>, <<"plugininput", "buffer">>,
   <<"pluginoutput", "file">>, <<"pluginoutput", "iot">>,
   <<"pluginpostprocessor", "sensorml">>, <<"pluginpostprocessor", "text">>,
   <<"pluginpostprocessor", "ul20">>, <<"pluginpostprocessor", "json">>}

Known(plugins) == {i \in DOMAIN plugins : plugins[i] \in KnownPlugins}

(* The kinds whose names are looked at. *)
NamedKinds == {k[1] : k \in KnownPlugins}

(* parsePlugins(). *)
ParsePlugins ==
  /\ sstep = "plugins"
  /\ IF \E i \in DOMAIN sfile.plugins :
          sfile.plugins[i][1] \in NamedKinds /\ sfile.plugins[i][2] = NoName
     THEN sstep' = "crashed" /\ UNCHANGED splugins
     ELSE /\ splugins' = AtPlaces(sfile.plugins, Known(sfile.plugins))
          /\ sstep' = "postprocessors"
  /\ UNCHANGED <<soptions, sfile, sinputs, soutputs, sposts, scommands, sensors, idsensor,
                 publisher, srunners>>

(* createInputFromPlugins() and its like: a plugin makes the elements of   *)
(* the types it knows.                                                     *)
Types(plugin) == IF plugin[2] = "mqtt" THEN {"mqtt", "mqttbroker"} ELSE {plugin[2]}
CreatedFromPlugins(kind, element) ==
  \E i \in DOMAIN splugins : splugins[i][1] = kind /\ element.type \in Types(splugins[i])
Created(kind, elements) ==
  AtPlaces(elements, {i \in DOMAIN elements : CreatedFromPlugins(kind, elements[i])})

(* parsePreprocessors() makes nothing; parsePostprocessors(). *)
ParsePostprocessors ==
  /\ sstep = "postprocessors" /\ sstep' = "inputs"
  /\ sposts' = Created("pluginpostprocessor", sfile.postprocessors)
  /\ UNCHANGED <<soptions, sfile, splugins, sinputs, soutputs, scommands, sensors, idsensor,
                 publisher, srunners>>

(* ESP_Input_Base::parseElement(): what is not a server is a client. *)
Input(element) ==
  [type |-> element.type, mode |-> IF element.mode = "server" THEN "server" ELSE "client"]

(* parseInputs(). *)
ParseInputs ==
  /\ sstep = "inputs" /\ sstep' = "outputs"
  /\ LET made == Created("plugininput", sfile.inputs)
     IN  sinputs' = [i \in DOMAIN made |-> Input(made[i])]
  /\ UNCHANGED <<soptions, sfile, splugins, soutputs, sposts, scommands, sensors, idsensor,
                 publisher, srunners>>

(* ESP_Output_Base::parseElement(): the postprocessors are names as yet. *)
Output(element) == [type |-> element.type, names |-> element.names, posts |-> <<>>]

(* parseOutputs(). *)
ParseOutputs ==
  /\ sstep = "outputs" /\ sstep' = "commands"
  /\ LET made == Created("pluginoutput", sfile.outputs)
     IN  soutputs' = [i \in DOMAIN made |-> Output(made[i])]
  /\ UNCHANGED <<soptions, sfile, splugins, sinputs, sposts, scommands, sensors, idsensor,
                 publisher, srunners>>

(* parseCommands(): insert() keeps the first of a name. *)
ParseCommands ==
  /\ sstep = "commands" /\ sstep' = "assign"
  /\ scommands' = [n \in ToSet(sfile.commands) |->
                     CHOOSE i \in DOMAIN sfile.commands :
                       /\ sfile.commands[i] = n
                       /\ \A j \in 1..(i - 1) : sfile.commands[j] # n]
  /\ UNCHANGED <<soptions, sfile, splugins, sinputs, soutputs, sposts, sensors, idsensor,
                 publisher, srunners>>

(* A mutation: the postprocessors of an output in the order in which they  *)
(* are in their section.                                                   *)
InSectionOrder(names) == SelectSeq(sposts, LAMBDA p : p.name \in ToSet(names))

(* updateOutputPostprocessors(): for every name of the output all          *)
(* postprocessors that have it.                                            *)
NameByName(pairs) ==
  {p \in pairs \X pairs : p[1][1] < p[2][1] \/ (p[1][1] = p[2][1] /\ p[1][2] < p[2][2])}
PostprocessorsOf(names) ==
  LET pairs == {p \in (DOMAIN names) \X (DOMAIN sposts) : sposts[p[2]].name = names[p[1]]}
      pair == InOrder(pairs, NameByName(pairs))
  IN  [i \in DOMAIN pair |-> sposts[pair[i][2]]]

(* The end of parseRootElement(): the elements are all there. *)
AssignPostprocessors ==
  /\ sstep = "assign" /\ sstep' = "create"
  /\ soutputs' = [i \in DOMAIN soutputs |->
                    [soutputs[i] EXCEPT !.posts = PostprocessorsOf(soutputs[i].names)]]
  /\ UNCHANGED <<soptions, sfile, splugins, sinputs, sposts, scommands, sensors, idsensor,
                 publisher, srunners>>

(* createSensor(): the first sensor of a library has the id 1. *)
CreateSensor ==
  /\ sstep = "create" /\ sstep' = "options"
  /\ idsensor' = 1 /\ sensors' = sensors \cup {1}
  /\ UNCHANGED <<soptions, sfile, parsed, publisher, srunners>>

(* setUserData() and startSensor() do nothing without a sensor. *)
HasSensor == idsensor \in sensors

(* setIotaMqttService(): the publisher of the measures. *)
PublisherSet == IF HasSensor THEN publisher \cup {idsensor} ELSE publisher

(* start(), when the options are read. *)
StartService ==
  /\ sstep = "options" /\ soptions = <<>>
  /\ sstep' = "start"
  /\ publisher' = PublisherSet
  /\ UNCHANGED <<soptions, sfile, parsed, sensors, idsensor, srunners>>

(* run(): a runner for every input. *)
Runner(input) == [input |-> input, command |-> scommands["main"], thread |-> input.mode]
Run ==
  IF sinputs # <<>> /\ "main" \notin DOMAIN scommands
  THEN sstep' = "crashed" /\ UNCHANGED srunners   \* createCommand() gives NULL
  ELSE /\ srunners' = [i \in DOMAIN sinputs |-> Runner(sinputs[i])]
       /\ sstep' = "started"

(* startESP(). *)
StartESP ==
  /\ sstep = "start"
  /\ \/ HasSensor /\ Run
     \/ ~HasSensor /\ sstep' = "started" /\ UNCHANGED srunners
  /\ UNCHANGED <<soptions, sfile, parsed, sensors, idsensor, publisher>>

(* The destructor deletes the publisher first. *)
DeletePublisher ==
  /\ sstep = "started" /\ sstep' = "ending"
  /\ publisher' = {}
  /\ UNCHANGED <<soptions, sfile, parsed, sensors, idsensor, srunners>>

(* A mutation: the sensor is forgotten, but not destroyed. *)
ResetOnly ==
  /\ sstep = "ending" /\ sstep' = "ended"
  /\ idsensor' = IF idsensor > 0 THEN 0 ELSE idsensor
  /\ UNCHANGED <<soptions, sfile, parsed, publisher, sensors, srunners>>

(* ~ESP_Sensor(): its elements go with it. *)
SensorDeleted ==
  splugins' = Nobody /\ sinputs' = Nobody /\ soutputs' = Nobody /\ sposts' = Nobody

(* resetESPSensor() stops the runners and destroys the sensor, and the     *)
(* library goes with it.                                                   *)
ResetESPSensor ==
  /\ sstep = "ending" /\ sstep' = "ended"
  /\ \/ idsensor > 0 /\ idsensor' = 0 /\ srunners' = Nobody /\ SensorDeleted
     \/ idsensor <= 0 /\ UNCHANGED <<idsensor, srunners, splugins, sinputs, soutputs, sposts>>
  /\ sensors' = {}
  /\ UNCHANGED <<soptions, sfile, scommands, publisher>>

SensorNext ==
  \/ SetOption \/ LoadFromFile
  \/ ParsePlugins \/ ParsePostprocessors \/ ParseInputs \/ ParseOutputs \/ ParseCommands
  \/ AssignPostprocessors \/ CreateSensor \/ StartService \/ StartESP
  \/ DeletePublisher \/ ResetESPSensor

----------------------------------------------------------------------------
(* What the file asks for, read from the file alone. *)
Asked(kind, element) ==
  \E i \in DOMAIN sfile.plugins :
    sfile.plugins[i] \in KnownPlugins /\ sfile.plugins[i][1] = kind
    /\ element.type \in Types(sfile.plugins[i])
AskedPosts(name) ==
  {i \in DOMAIN sfile.postprocessors :
     sfile.postprocessors[i].name = name
     /\ Asked("pluginpostprocessor", sfile.postprocessors[i])}

(* Every input of the file that a listed plugin knows has its runner and   *)
(* no other has; every output has, in the order in which it names them,    *)
(* all its postprocessors the file defines.                                *)
RunsAsWritten ==
  sstep = "started" /\ idsensor \in sensors =>
    /\ Len(srunners) =
         Cardinality({i \in DOMAIN sfile.inputs : Asked("plugininput", sfile.inputs[i])})
    /\ \A i \in DOMAIN srunners : sfile.commands[srunners[i].command] = "main"
    /\ \A i \in DOMAIN soutputs :
         LET o == soutputs[i] IN
         /\ \A j \in DOMAIN o.names, k \in DOMAIN sfile.postprocessors :
              k \in AskedPosts(o.names[j]) =>
                \E n \in DOMAIN o.posts : o.posts[n] = sfile.postprocessors[k]
         /\ \A m, n \in DOMAIN o.posts : m < n =>
              \E j, k \in DOMAIN o.names :
                j <= k /\ o.names[j] = o.posts[m].name /\ o.names[k] = o.posts[n].name

(* A service that has started with a good file has its sensor, whatever    *)
(* was wrong with the file before; no runner works without the publisher   *)
(* of the measures (but while the service is destroyed, when the publisher *)
(* goes first), and none outlives it.                                      *)
RunnersServed ==
  /\ srunners # Nobody =>
       /\ idsensor \in sensors /\ sstep \in {"started", "ending"}
       /\ sstep = "started" => idsensor \in publisher
  /\ sstep = "started" /\ sfile.xml = "sensor" => idsensor \in sensors
=============================================================================
