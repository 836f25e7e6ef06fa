---------------------------- MODULE MCProtocols -----------------------------
(* A device that speaks one of the protocols of the plugins: Ultralight    *)
(* over HTTP, messages over MQTT, Modbus over TCP, or the messages of      *)
(* Thinking Things; and the commands that come for it.  The instances are  *)
(* all short contents over the symbols each parser tells apart, with the   *)
(* ways a device and its service can be provisioned.                       *)
EXTENDS Ultralight, EspParser, Modbus, NgsiRequests, ThinkingThings, PluginFiles

VARIABLE protocol   \* what the device speaks

Strings(S, n) == UNION {[1..k -> S] : k \in 0..n}

(* Ultralight: measures, also with a date, and the results of commands. *)
UL(content, time, ip, get) ==
  [content |-> content, time |-> time, ip |-> ip, get |-> get]

MCRequests ==
  {UL(c, <<>>, "", FALSE) : c \in Strings({"v", "t", "|", "#", "@"}, 5)}
  \cup {UL(c, <<"p">>, "e2", TRUE) : c \in Strings({"v", "|", "#"}, 7)}
  \cup {UL(<<"t", "|", "v", "|", "v", "#", "v", "|", "v">>, <<>>, "", TRUE),
        UL(<<"v", "|", "v">>, <<>>, "invalid", FALSE)}

Static(name, value) == [name |-> <<name>>, value |-> <<value>>, time |-> <<>>]

Plain ==
  [name |-> "d", entity_type |-> "", entity_name |-> "default", service_type |-> "",
   device_map |-> Nothing, service_map |-> Nothing, device_static |-> <<>>,
   service_static |-> <<>>, registered |-> TRUE, endpoint |-> "e1"]

(* The last one maps an attribute to its own name. *)
MCConfigs ==
  {Plain,
   [Plain EXCEPT !.entity_type = "T",
                 !.device_map = (<<"v">> :> <<"m">>),
                 !.service_map = (<<"v">> :> <<"n">>) @@ (<<"t">> :> <<"o">>),
                 !.device_static = <<Static("s", "v")>>],
   [Plain EXCEPT !.entity_type = "default", !.entity_name = "E", !.service_type = "S",
                 !.device_map = (<<"v">> :> <<"TimeInstant">>),
                 !.device_static = <<Static("s", "v")>>,
                 !.service_static = <<Static("s", "v"), Static("t", "w")>>,
                 !.registered = FALSE],
   [Plain EXCEPT !.entity_name = "", !.service_type = "S",
                 !.device_map = (<<"v">> :> <<"v">>), !.endpoint = ""]}

(* MQTT: all short topics, and the topics of the protocol with all short   *)
(* payloads.                                                               *)
Messages(topics, payloads) ==
  {[topic |-> t, payload |-> p] : t \in topics, p \in payloads}

Topic(last) == <<"k", "/", "d", "/">> \o last

MCMqttMessages ==
  Messages(Strings({"k", "/", "mul20"}, 7),
           {<<"v", "|", "w">>, <<"v", "|", "w", "#", "w", "|", "v">>})
  \cup Messages({<<"k", "/">> \o Topic(<<"mul20">>), Topic(<<"mul20", "/", "v">>)},
                {<<"v", "|", "w">>})
  \cup Messages({Topic(<<"mul20">>)}, Strings({"v", "|", "#", "/"}, 6))
  \cup Messages({Topic(<<"cmdexe", "/", "n">>)}, Strings({"cmdid", "|", "#", "v"}, 5))
  \cup Messages({Topic(<<"cmd", "/", "n">>), Topic(<<"cmdget">>), Topic(<<"temp">>),
                 <<"k", "/">> \o Topic(<<"cmdexe", "/", "n">>)},
                {<<>>, <<"v", "|", "w">>, <<"cmdid", "|", "x">>,
                 <<"type", "|", "cmdexe", "#", "cmdid", "|", "x">>})

MCApiKeys == {<<"k">>}

(* Modbus: reads of one and two registers, one of them for a command with  *)
(* labels, and the two kinds of writes.                                    *)
MCRegisters == [n \in 0..4 |-> 258 * n + 7]

Operation(fn, number, write, need, labels) ==
  [slave |-> 1, fn |-> fn, address |-> 2, number |-> number, write |-> write,
   need |-> need, labels |-> labels]

MCOperations ==
  {Operation(3, 1, <<>>, "no", <<>>), Operation(3, 2, <<>>, "no", <<2, 3>>),
   Operation(6, 513, <<>>, "no", <<>>),
   Operation(16, 0, <<770>>, "no", <<>>), Operation(16, 0, <<770>>, "yes", <<>>)}

AnOperation == Start(Operation(3, 1, <<>>, "no", <<>>))

(* Requests of the Context Broker: commands of all kinds of templates, for  *)
(* devices that poll, that are pushed to, that are not active and that are *)
(* found by the second search only.                                        *)
Text(t) == [kind |-> "text", text |-> t]
Object(m) == [kind |-> "object", members |-> m]
Member(n, t, s) == [name |-> n, text |-> t, string |-> s]

Templates ==
  [filled |-> <<"d", "@", "c", "|", "%", "s", "|", "%", "s", "!">>,
   raw |-> RAW, empty |-> <<>>,
   odd |-> <<"d", "@", "%", "d", "%", "s">>, fixed |-> <<"d", "@", "c">>]

Dev(name, entity, type, path, prot, active, ep, cmds) ==
  [name |-> name, entity_name |-> entity, entity_type |-> type, path |-> path,
   protocol |-> prot, active |-> active, endpoint |-> ep, commands |-> cmds]

MCNgsiDevices ==
  {{Dev("d", <<"E">>, "T", "/", prot, TRUE, ep, Templates),
    Dev("n", <<>>, "", "/b", prot, active, "", [fixed |-> <<"n", "@", "c">>, raw |-> RAW])} :
     prot \in {"ul20", "mqtt"}, ep \in {"", "e"}, active \in BOOLEAN}

Values ==
  {Text(<<>>), Text(<<"|">>), Text(<<"x">>), Text(<<"x", "|", "y">>),
   Text(<<"x", "|", "|", "z">>), Text(<<"d", "@", "c", "|", "x">>),
   Object(<<>>), Object(<<Member("m", <<"x">>, TRUE), Member("n", <<"y">>, TRUE)>>),
   Object(<<Member("m", <<"x">>, TRUE), Member("n", <<"y">>, FALSE)>>)}

Attr(name, type, value) == [name |-> name, type |-> type, value |-> value]
Commands == {Attr(c, "command", v) : c \in DOMAIN Templates, v \in Values}
Others == {Attr("other", "command", Text(<<"x">>)), Attr("", "command", Text(<<"x">>)),
           Attr("raw", "string", Text(<<"x">>)), Attr("raw", "command", [kind |-> "absent"])}
Elem(id, type, attributes) == [id |-> id, type |-> type, attributes |-> attributes]
NgsiInput(o, body, elements) ==
  [op |-> o, service |-> "known", path |-> "/", body |-> body, elements |-> elements]

TwoCommands == <<Attr("fixed", "command", Text(<<"x">>)), Attr("raw", "command", Text(<<"x">>))>>
SomeElements ==
  {Elem(<<"E">>, "T", TwoCommands), Elem(<<"E">>, "Z", <<TwoCommands[1]>>),
   Elem(<<"T", ":", "n">>, "T", TwoCommands), Elem(<<"X">>, "", TwoCommands),
   Elem(<<"E">>, "T", <<>>)}

MCNgsiInputs ==
  {NgsiInput("update", "ok", <<Elem(<<"E">>, "", a)>>) :
     a \in [1..1 -> Commands \cup Others]
          \cup {<<x, y>> : x \in Commands, y \in Others}
          \cup {<<x, y>> : x \in Others, y \in Commands}
          \cup {<<Attr("fixed", "command", Text(<<>>)), y>> : y \in Commands}}
  \cup {NgsiInput(o, "ok", e) : o \in {"update", "query"}, e \in Strings(SomeElements, 2)}
  \cup {[NgsiInput(o, body, <<Elem(<<"E">>, "T", TwoCommands)>>) EXCEPT
           !.service = service, !.path = path] :
         o \in {"update", "query"}, body \in {"ok", "bad"},
         service \in {"known", "unknown", "absent"}, path \in {"", "/"}}

(* Thinking Things: two devices, modules of all kinds, with all that they   *)
(* must have and without.                                                  *)
TTPart(kind, params) == [kind |-> kind, bus |-> "0", params |-> params, sleep |-> "s"]
TTMessage(device, parts) ==
  [device |-> device, parts |-> <<TTPart(NotThere, <<>>)>> \o parts]

K1 == TTPart("K1", <<>>)
MCTTMessages ==
  {TTMessage(d, <<K1>>) : d \in {"", "t9", "t1"}}
  \cup {TTMessage("t1", p) : p \in
         {<<>>, <<TTPart("GC", <<"conf", "1">>), K1>>, <<TTPart("GC", <<"conf", "">>)>>,
          <<TTPart("GPS", <<"1">>), TTPart("GPS", <<"1", "2">>)>>,
          <<TTPart("P1", <<"1", "2", "3", "4">>), TTPart("P1", <<"1", "2", "3">>)>>,
          <<TTPart("X9", <<"1">>), TTPart("B", <<"1", "2", "3", "4", "5", "6">>)>>}}
  \cup {TTMessage("t2", p) : p \in
         {<<TTPart("GC", <<"conf", "2">>)>>, <<TTPart("GM", <<"temp", "2">>)>>}}

(* Files of operations and commands: all that can be made of these, in     *)
(* whatever order.                                                         *)
OpEntry(name, labels) == [name |-> name, address |-> 7, registers |-> 2, labels |-> labels]
FileParam(name, a, positions, type) ==
  [name |-> name, address |-> a, positions |-> positions, type |-> type]
CmdEntry(name, params) == [name |-> name, params |-> params]
MCOpFiles ==
  [operations : Strings({OpEntry("x", <<>>), OpEntry("y", <<"l", "m">>), OpEntry("", <<>>)}, 2),
   commands : Strings(
     {CmdEntry("x", <<FileParam("b", 3, 1, "numeric"), FileParam("a", 4, 1, "numeric")>>),
      CmdEntry("y", <<FileParam("a", 5, 2, "string"), FileParam("b", 4, 1, "binary"),
                      FileParam("c", 5, 1, "numeric")>>),
      CmdEntry("z", <<FileParam("b", 1, 2, "string"), FileParam("a", 3, 1, "numeric")>>),
      CmdEntry("z", <<FileParam("a", 2, 1, "binary"), FileParam("", 3, 1, "numeric")>>),
      CmdEntry("x", <<>>), CmdEntry("", <<>>)}, 3)]

(* Files of a sensor: with the plugins for what is in them and without,    *)
(* after and before options that say nothing or cannot be read.            *)
Post(type, name) == [type |-> type, name |-> name]
SensorInput(type, mode) == [type |-> type, mode |-> mode]
SensorOutput(type, names) == [type |-> type, names |-> names]
Posts == {Post("json", "p"), Post("json", "q"), Post("ul20", "q"), Post("lua", "p")}
GoodFiles ==
  [xml : {"sensor"},
   plugins : {<<>>, <<<<"plugininput", "mqtt">>, <<"pluginoutput", NoName>>>>,
              <<<<"pluginpreprocessor", NoName>>, <<"plugininput", "mqtt">>,
                <<"pluginoutput", "iot">>, <<"pluginpostprocessor", "json">>,
                <<"plugininput", "lua">>>>,
              <<<<"pluginoutput", "iot">>, <<"pluginpostprocessor", "ul20">>,
                <<"plugininput", "buffer">>, <<"pluginpostprocessor", "json">>,
                <<"plugininput", "mqtt">>>>},
   postprocessors : Strings(Posts, 2),
   inputs : {<<>>, <<SensorInput("mqtt", "server"), SensorInput("mqtt", "server")>>,
             <<SensorInput("file", "server"), SensorInput("buffer", "client"),
               SensorInput("mqttbroker", "server")>>},
   outputs : {<<SensorOutput("iot", <<"q", "p">>)>>,
              <<SensorOutput("sbc", <<"p">>), SensorOutput("iot", <<"p", "q">>)>>},
   commands : {<<"sendcmd">>, <<"sendcmd", "main", "main">>}]
SensorOption(name, c, file) == [name |-> name, config |-> c, file |-> file]
BadOptions ==
  {SensorOption("ProtocolDescription", "complete", NoFile),
   SensorOption("ConfigFile", "incomplete", NoFile),
   SensorOption("ConfigFile", "complete", NoFile)}
OtherFile ==
  [xml |-> "sensor", plugins |-> <<>>, postprocessors |-> <<>>, inputs |-> <<>>,
   outputs |-> <<>>, commands |-> <<>>]
MCSensorOptions ==
  {<<SensorOption("ConfigFile", "complete", f)>> : f \in GoodFiles}
  \cup {<<o, SensorOption("ConfigFile", "complete", f), p>> :
           o \in BadOptions \cup {SensorOption("ConfigFile", "complete", OtherFile)},
           p \in {SensorOption("ConfigFile", "complete", OtherFile)},
           f \in {g \in GoodFiles : g.postprocessors = <<Post("json", "p"), Post("ul20", "q")>>}}
  \cup Strings(BadOptions, 2)

Symmetry == Permutations(TTThreads)

(* A component that is not at work. *)
TTOff == TTInit("off") /\ library
FileOff == OpInit("off") /\ ofile = [operations |-> <<>>, commands |-> <<>>]
SensorOff == soptions = <<>> /\ SensorInit("off")
ULOff == ULInit("off") /\ config = Plain
EspOff == EspInit("off")
ModbusOff == ModbusInit("off") /\ op = AnOperation
NgsiOff ==
  /\ NgsiInit("off") /\ plugin = "ul20"
  /\ devices = {d \in UNION MCNgsiDevices : d.protocol = "ul20" /\ d.active /\ d.endpoint = ""}

Init ==
  \/ protocol = "ultralight" /\ ULInit("idle") /\ EspOff /\ ModbusOff /\ NgsiOff /\ TTOff /\ FileOff /\ SensorOff
  \/ protocol = "mqtt" /\ EspInit("idle") /\ ULOff /\ ModbusOff /\ NgsiOff /\ TTOff /\ FileOff /\ SensorOff
  \/ protocol = "modbus" /\ ModbusInit("accept") /\ ULOff /\ EspOff /\ NgsiOff /\ TTOff /\ FileOff /\ SensorOff
  \/ protocol = "ngsi" /\ NgsiInit("idle") /\ ULOff /\ EspOff /\ ModbusOff /\ TTOff /\ FileOff /\ SensorOff
  \/ protocol = "thinking" /\ TTInit("idle") /\ ULOff /\ EspOff /\ ModbusOff /\ NgsiOff /\ FileOff /\ SensorOff
  \/ protocol = "file" /\ OpInit("operations") /\ ULOff /\ EspOff /\ ModbusOff /\ NgsiOff /\ TTOff /\ SensorOff
  \/ protocol = "sensor" /\ SensorInit("options") /\ ULOff /\ EspOff /\ ModbusOff /\ NgsiOff /\ TTOff /\ FileOff

Next ==
  /\ \/ protocol = "ultralight" /\ ULNext /\ UNCHANGED <<esp, modbus, ngsiVars, ttVars, opVars, sensorVars>>
     \/ protocol = "mqtt" /\ EspNext /\ UNCHANGED <<ultralight, modbus, ngsiVars, ttVars, opVars, sensorVars>>
     \/ protocol = "modbus" /\ ModbusNext /\ UNCHANGED <<ultralight, esp, ngsiVars, ttVars, opVars, sensorVars>>
     \/ protocol = "ngsi" /\ NgsiNext /\ UNCHANGED <<ultralight, esp, modbus, ttVars, opVars, sensorVars>>
     \/ protocol = "thinking" /\ TTNext /\ UNCHANGED <<ultralight, esp, modbus, ngsiVars, opVars, sensorVars>>
     \/ protocol = "file" /\ OpNext /\ UNCHANGED <<ultralight, esp, modbus, ngsiVars, ttVars, sensorVars>>
     \/ protocol = "sensor" /\ SensorNext
        /\ UNCHANGED <<ultralight, esp, modbus, ngsiVars, ttVars, opVars>>
  /\ UNCHANGED protocol

Spec == Init /\ [][Next]_<<protocol, ultralight, esp, modbus, ngsiVars, ttVars, opVars, sensorVars>>
=============================================================================
