---------------------------- MODULE MqttSession -----------------------------
(***************************************************************************)
(* The threads of the MQTT plugin and their connections to the broker:     *)
(* ESP_Sensor and its runners (esp/source/TDA.cpp), the input of type mqtt *)
(* (ESP_Plugin_Input_Mqtt.cpp), ESPLib::executeRunner and MqttService.     *)
(*                                                                         *)
(* A sensor has two inputs, each with a server thread and an               *)
(* ESP_MqttWrapper: mqttwriter publishes commands and mqttrunner           *)
(* subscribes to the topics of the devices.  A message gets a runner, a    *)
(* thread of its own (what it does with the content is EspParser); a       *)
(* command is published by the HTTP thread that carries it; stop() ends    *)
(* the server threads and then the runners.                                *)
(*                                                                         *)
(* A call of the library is one step with the code around it.  The use of  *)
(* a wrapper after its deletion is undefined behaviour: the thread stands  *)
(* still there (Dangling).  The library and the broker are external.       *)
(***************************************************************************)
EXTENDS Integers, Sequences, FiniteSets

CONSTANTS
  mqttwriter, mqttrunner,   \* the inputs
  Commands,                 \* the commands, each carried by one HTTP thread
  MaxMessages,              \* bound on the messages of devices
  Bounds                    \* what may happen in a behaviour: see bound

ASSUME SessionAssumption ==
  /\ mqttwriter # mqttrunner
  /\ MaxMessages \in Nat
  /\ IsFiniteSet(Commands)
  /\ {mqttwriter, mqttrunner} \cap Commands = {}
  /\ ({mqttwriter, mqttrunner} \cup Commands) \cap (1..MaxMessages) = {}
  /\ Bounds \subseteq [messages : 0..MaxMessages, failures : Nat, commands : SUBSET Commands,
                       stops : 0..1]

VARIABLES
  bound,      \* messages, failures of the broker or a link, commands and calls
              \* of stop() there can be; it never changes
  broker,     \* "up" or "down"
  failures,   \* failures so far
  sent,       \* messages sent by devices so far; a message is its number
  wrapper,    \* the ESP_MqttWrapper of each id
  nextid,     \* ESP_Plugin_Input_Mqtt::id
  sid,        \* _sid of an input
  keep,       \* inputs with _keepRunning
  clientid,   \* clientid of an input
  clients,    \* keys of the map clients of an input
  thread,     \* the threads: where they stand, and what they hold
  halted,     \* runners with _keepRunning = false
  handed,     \* times a command was taken by the MQTT library
  taken,      \* messages given to a runner
  stop,       \* where stop() stands
  waiting     \* the runner stop() waits for

broking == <<bound, broker, failures, sent>>
inputs == <<nextid, sid, keep, clientid, clients>>
history == <<handed, taken>>
stopping == <<halted, stop, waiting>>
vars == <<broking, wrapper, inputs, thread, history, stopping>>

Inputs == {mqttwriter, mqttrunner}
Messages == 1..MaxMessages
Threads == Inputs \cup Commands \cup Messages
Ids == 0..(1 + Cardinality(Commands))
Connack == 0

InputOf(t) == IF t \in Inputs THEN t
              ELSE IF t \in Commands THEN mqttwriter ELSE mqttrunner

(* at: "none", "new" (not in mapMqttClient), "mapped", "freed" (deleted,   *)
(* still in the map) or "gone".                                            *)
NoWrapper == [at |-> "none", topic |-> "", status |-> "connecting", link |-> "none",
              ack |-> "none", subscribed |-> "no", wire |-> <<>>, buffer |-> <<>>]

Init ==
  /\ bound \in Bounds
  /\ broker = "up" /\ failures = 0 /\ sent = 0
  /\ wrapper = [w \in Ids |-> NoWrapper]
  /\ nextid = 0
  /\ sid = [i \in Inputs |-> -1]
  /\ keep = Inputs
  /\ clientid = [i \in Inputs |-> 1]
  /\ clients = [i \in Inputs |-> {}]
  /\ thread = [t \in Threads |-> [pc |-> IF t \in Inputs THEN "start" ELSE "none",
                                  id |-> -1, ref |-> -1, output |-> "some"]]
  /\ halted = {} /\ stop = "no" /\ waiting = {}
  /\ handed = [c \in Commands |-> 0] /\ taken = <<>>

At(t, pc) == thread[t].pc = pc
Goto(t, pc) == thread' = [thread EXCEPT ![t].pc = pc]
GotoWith(t, pc, id) == thread' = [thread EXCEPT ![t] = [@ EXCEPT !.pc = pc, !.id = id]]

-----------------------------------------------------------------------------
(* The broker, the network and the devices. *)

Broken(v) == [v EXCEPT !.link = IF @ = "up" THEN "broken" ELSE @,
                       !.ack = "none", !.subscribed = "no", !.wire = <<>>]

BrokerFails ==
  /\ broker = "up" /\ failures < bound.failures
  /\ broker' = "down" /\ failures' = failures + 1
  /\ wrapper' = [w \in Ids |-> Broken(wrapper[w])]
  /\ UNCHANGED <<bound, sent, inputs, thread, history, stopping>>

BrokerRestarts ==
  /\ broker = "down" /\ broker' = "up"
  /\ UNCHANGED <<bound, failures, sent, wrapper, inputs, thread, history, stopping>>

LinkBreaks(w) ==
  /\ wrapper[w].link = "up" /\ failures < bound.failures
  /\ failures' = failures + 1
  /\ wrapper' = [wrapper EXCEPT ![w] = Broken(@)]
  /\ UNCHANGED <<bound, broker, sent, inputs, thread, history, stopping>>

BrokerAcks(w) ==
  /\ wrapper[w].ack = "due"
  /\ wrapper' = [wrapper EXCEPT ![w].ack = "none", ![w].wire = Append(@, Connack)]
  /\ UNCHANGED <<broking, inputs, thread, history, stopping>>

DeviceSends ==
  /\ broker = "up" /\ sent < bound.messages
  /\ sent' = sent + 1
  /\ wrapper' = [w \in Ids |-> IF wrapper[w].subscribed = "yes"
                               THEN [wrapper[w] EXCEPT !.wire = Append(@, sent + 1)]
                               ELSE wrapper[w]]
  /\ UNCHANGED <<bound, broker, failures, inputs, thread, history, stopping>>

-----------------------------------------------------------------------------
(* ESP_MqttWrapper. *)

(* mqttLoop() reads one packet at most: on_connect() or on_message().  It  *)
(* fails without a connection, and calls on_disconnect() when it finds the *)
(* link broken.                                                            *)
on_disconnect(v) ==
  [v EXCEPT !.link = "none",
            !.status = IF @ = "connected" /\ v.link = "broken" THEN "disconnected" ELSE @]
on_connect(v) == [v EXCEPT !.status = "connected", !.wire = Tail(@)]
on_message(v) == [v EXCEPT !.buffer = Append(@, Head(v.wire)), !.wire = Tail(@)]

mqttLoop(v) ==
  IF v.link # "up" THEN on_disconnect(v)
  ELSE IF v.wire = <<>> THEN v
  ELSE IF Head(v.wire) = Connack THEN on_connect(v) ELSE on_message(v)

(* Connected to the broker; the answer is seen by the mqttLoop() that      *)
(* follows, or by a later one.                                             *)
mqttConnect(v) ==
  LET linked == [v EXCEPT !.link = "up", !.subscribed = "no", !.wire = <<>>]
  IN IF broker = "up"
     THEN {[linked EXCEPT !.ack = "due"], on_connect([linked EXCEPT !.wire = <<Connack>>])}
     ELSE {on_disconnect(v)}

(* A plausible mistake, for a mutant: only the first connection of the     *)
(* wrapper is followed by a subscription.                                  *)
SubscribeOnce(v) ==
  IF v.topic # "" /\ v.at = "new" THEN [v EXCEPT !.subscribed = "yes"] ELSE v

doSubscribe(v) == IF v.topic # "" THEN [v EXCEPT !.subscribed = "yes"] ELSE v

(* connect() or reconnect(), one mqttLoop() and, if the first was done,    *)
(* the subscription.  With the status MQTT_CONNECTED neither is called and *)
(* res keeps what the stack held.                                          *)
doConnectHost(v) ==
  IF v.status = "connected"
  THEN {mqttLoop(v)} \cup {doSubscribe(u) : u \in {x \in {mqttLoop(v)} : x.link = "up"}}
  ELSE {IF u.link = "up" THEN doSubscribe(u) ELSE u : u \in mqttConnect(v)}

(* An error of mqttLoop() makes the connection again. *)
readFromChannel(v) == IF v.link = "up" THEN {mqttLoop(v)} ELSE doConnectHost(mqttLoop(v))

(* findMqtt(), and whether the object is still there. *)
Found(w) == w \in Ids /\ wrapper[w].at \in {"mapped", "freed"}
Deleted(w) == wrapper[w].at \in {"freed", "gone"}

(* initMQTT() until the wrapper is in the map. *)
InitMqtt(t, pc) ==
  LET new == [NoWrapper EXCEPT !.at = "new", !.topic = IF InputOf(t) = mqttrunner THEN "#" ELSE ""]
  IN /\ \E v \in doConnectHost(new) : wrapper' = [wrapper EXCEPT ![nextid] = v]
     /\ nextid' = nextid + 1
     /\ GotoWith(t, pc, nextid)
     /\ UNCHANGED <<broking, sid, keep, clientid, clients, history, stopping>>

Insert(w) == wrapper' = [wrapper EXCEPT ![w].at = "mapped"]

(* stopMQTT(): the session ends and the object is deleted, then the entry  *)
(* is erased from the map.  Nothing happens if the map has no such id.     *)
Closing(t) == IF t \in Inputs THEN "closed" ELSE IF t \in Commands THEN "answered" ELSE "ended"

StopMqtt(t) ==
  /\ At(t, "stopmqtt")
  /\ IF Found(thread[t].id)
     THEN /\ ~Deleted(thread[t].id)
          /\ wrapper' = [wrapper EXCEPT ![thread[t].id] = [NoWrapper EXCEPT !.at = "freed"]]
          /\ Goto(t, "erase")
     ELSE GotoWith(t, Closing(t), -1) /\ UNCHANGED wrapper
  /\ UNCHANGED <<broking, inputs, history, stopping>>

Erase(t) ==
  /\ At(t, "erase")
  /\ wrapper' = [wrapper EXCEPT ![thread[t].id].at = "gone"]
  /\ GotoWith(t, Closing(t), -1)
  /\ UNCHANGED <<broking, inputs, history, stopping>>

-----------------------------------------------------------------------------
(* The server thread of an input (ESP_Runner_Server::runThread). *)

OpenServer(i) == At(i, "start") /\ InitMqtt(i, "opened")

Opened(i) ==
  /\ At(i, "opened")
  /\ Insert(thread[i].id)
  /\ sid' = [sid EXCEPT ![i] = thread[i].id]
  /\ GotoWith(i, "accept", -1)
  /\ UNCHANGED <<broking, nextid, keep, clientid, clients, history, stopping>>

NewClient(i) ==
  /\ clientid' = [clientid EXCEPT ![i] = @ + 1]
  /\ clients' = [clients EXCEPT ![i] = @ \cup {clientid[i]}]

(* Plausible mistake, for a mutant: the message stays in the buffer. *)
removeNoneMQTTMsg(v) == v

removeFirstMQTTMsg(v) == [v EXCEPT !.buffer = Tail(@)]

(* One round of the loop of acceptServer(): the first message of the       *)
(* buffer gets a client with its data and a runner.                        *)
AcceptServer(i) ==
  /\ At(i, "accept") /\ i \in keep /\ Found(sid[i]) /\ ~Deleted(sid[i])
  /\ \E v \in readFromChannel(wrapper[sid[i]]) :
       IF v.buffer = <<>>
       THEN /\ wrapper' = [wrapper EXCEPT ![sid[i]] = v]
            /\ UNCHANGED <<clientid, clients, taken, thread>>
       ELSE /\ wrapper' = [wrapper EXCEPT ![sid[i]] = removeFirstMQTTMsg(v)]
            /\ taken' = Append(taken, Head(v.buffer))
            /\ GotoWith(Head(v.buffer), "reading", clientid[i])
            /\ NewClient(i)
  /\ UNCHANGED <<broking, nextid, sid, keep, handed, stopping>>

(* The loop ends when the input stops or its wrapper is not found, and the *)
(* server with it: closeServer(), and the runner leaves serverRunners.     *)
AcceptEnds(i) ==
  /\ At(i, "accept") /\ ~(i \in keep /\ Found(sid[i]))
  /\ GotoWith(i, "stopmqtt", sid[i])
  /\ UNCHANGED <<broking, wrapper, inputs, history, stopping>>

CloseServer(i) ==
  /\ At(i, "closed")
  /\ sid' = [sid EXCEPT ![i] = -1]
  /\ Goto(i, "ended")
  /\ UNCHANGED <<broking, wrapper, nextid, keep, clientid, clients, history, stopping>>

-----------------------------------------------------------------------------
(* closeClient(): without a server thread the id is the one of a wrapper.  *)
(* A plausible mistake, for a mutant: it always is.                        *)
CloseWrapper(t) == Goto(t, "stopmqtt") /\ UNCHANGED clients

CloseClient(t) ==
  IF sid[InputOf(t)] < 0
  THEN Goto(t, "stopmqtt") /\ UNCHANGED clients
  ELSE /\ clients' = [clients EXCEPT ![InputOf(t)] = @ \ {thread[t].id}]
       /\ GotoWith(t, Closing(t), -1)

(* readClient() without a server thread reads the wrapper with the id of   *)
(* the client, if there is one.                                            *)
ReadWrapper(t) ==
  LET w == thread[t].id
  IN IF Found(w)
     THEN /\ ~Deleted(w)
          /\ \E v \in readFromChannel(wrapper[w]) : wrapper' = [wrapper EXCEPT ![w] = v]
     ELSE UNCHANGED wrapper

(* The runner of a message.  runLoop() reads the data of its client and    *)
(* then again, until nothing is left: only the last of these reads, which  *)
(* ends the loop, is a step, those before change nothing here.  At any of  *)
(* them it may find the server closed; it then reads whichever wrapper has *)
(* its number and goes round until stop() gets to it.                      *)
ReadMessage(m) ==
  /\ At(m, "reading") /\ m \notin halted
  /\ IF sid[mqttrunner] < 0
     THEN ReadWrapper(m) /\ UNCHANGED thread
     ELSE Goto(m, "close") /\ UNCHANGED wrapper
  /\ UNCHANGED <<broking, inputs, history, stopping>>

RunnerCloses(m) ==
  /\ At(m, "close") \/ (At(m, "reading") /\ m \in halted)
  /\ CloseClient(m)
  /\ UNCHANGED <<broking, wrapper, nextid, sid, keep, clientid, history, stopping>>

-----------------------------------------------------------------------------
(* The HTTP thread of a command (ESPLib::executeRunner): the runner takes  *)
(* _sid as its id, ...                                                     *)
ExecuteCommand(c) ==
  /\ At(c, "none") /\ c \in bound.commands
  /\ GotoWith(c, IF sid[mqttwriter] < 0 THEN "open" ELSE "reading", sid[mqttwriter])
  /\ UNCHANGED <<broking, wrapper, inputs, history, stopping>>

(* ... or what openClient() gives: a wrapper of its own, or a client if    *)
(* the server thread has got its own in the meantime; ...                  *)
OpenClient(c) ==
  /\ At(c, "open")
  /\ IF sid[mqttwriter] < 0
     THEN InitMqtt(c, "insert")
     ELSE /\ NewClient(mqttwriter)
          /\ GotoWith(c, "reading", clientid[mqttwriter])
          /\ UNCHANGED <<broking, wrapper, nextid, sid, keep, history, stopping>>

InsertOwn(c) ==
  /\ At(c, "insert")
  /\ Insert(thread[c].id)
  /\ Goto(c, "reading")
  /\ UNCHANGED <<broking, inputs, history, stopping>>

(* ... reads, which gives nothing, ... *)
ReadNothing(c) ==
  /\ At(c, "reading")
  /\ IF sid[mqttwriter] < 0 THEN ReadWrapper(c) ELSE UNCHANGED wrapper
  /\ Goto(c, "write")
  /\ UNCHANGED <<broking, inputs, history, stopping>>

(* ... and publishes: publishMaskTopic() gives 0 unless the wrapper is     *)
(* connected and mqttPublish() succeeds.  A broken link may not have been  *)
(* noticed.  A plausible mistake, for a mutant: a command for which there  *)
(* is no connection counts as written.                                     *)
PublishUnconnected(c, w) ==
  \/ /\ wrapper[w].status # "connected"
     /\ thread' = [thread EXCEPT ![c] = [@ EXCEPT !.pc = "reading", !.output = "none"]]
     /\ UNCHANGED handed
  \/ /\ wrapper[w].status = "connected"
     /\ thread' = [thread EXCEPT ![c] = [@ EXCEPT !.pc = "flush", !.ref = w, !.output = "none"]]
     /\ handed' = [handed EXCEPT ![c] = @ + 1]

publishMaskTopic(c, w) ==
  \/ wrapper[w].status # "connected" /\ Goto(c, "reading") /\ UNCHANGED handed
  \/ /\ wrapper[w].status = "connected" /\ wrapper[w].link # "none"
     /\ thread' = [thread EXCEPT ![c] = [@ EXCEPT !.pc = "flush", !.ref = w, !.output = "none"]]
     /\ handed' = [handed EXCEPT ![c] = @ + 1]
  \/ /\ wrapper[w].status = "connected" /\ wrapper[w].link # "up"
     /\ thread' = [thread EXCEPT ![c] = [@ EXCEPT !.pc = "flush", !.ref = w]]
     /\ UNCHANGED handed

(* runLoop() goes round every 15 ms as long as there is output; writing    *)
(* goes to the wrapper of the server thread, if there is one.  A plausible *)
(* mistake, for a mutant: it goes to the one of the runner.                *)
OwnWriter(c) == thread[c].id

Writer(c) == IF sid[mqttwriter] < 0 THEN thread[c].id ELSE sid[mqttwriter]

WriteClient(c) ==
  /\ At(c, "write") /\ thread[c].output = "some"
  /\ IF Found(Writer(c))
     THEN ~Deleted(Writer(c)) /\ publishMaskTopic(c, Writer(c))
     ELSE Goto(c, "reading") /\ UNCHANGED handed
  /\ UNCHANGED <<broking, wrapper, inputs, taken, stopping>>

Flush(c) ==
  /\ At(c, "flush") /\ ~Deleted(thread[c].ref)
  /\ wrapper' = [wrapper EXCEPT ![thread[c].ref] = mqttLoop(@)]
  /\ thread' = [thread EXCEPT ![c] = [@ EXCEPT !.pc = "reading", !.ref = -1]]
  /\ UNCHANGED <<broking, inputs, history, stopping>>

AnswerCommand(c) ==
  /\ At(c, "write") /\ thread[c].output = "none"
  /\ CloseClient(c)
  /\ UNCHANGED <<broking, wrapper, nextid, sid, keep, clientid, history, stopping>>

-----------------------------------------------------------------------------

(* ESP_Sensor::stop(). *)
serverRunners == {i \in Inputs : thread[i].pc # "ended"}
clientRunners == {m \in Messages : thread[m].pc \notin {"none", "ended"}}

Stop ==
  /\ stop = "no" /\ bound.stops = 1 /\ stop' = "servers"
  /\ UNCHANGED <<broking, wrapper, inputs, thread, history, halted, waiting>>

(* Plausible mistake, for a mutant: the servers go on while the runners    *)
(* are stopped.                                                            *)
StopNoServers ==
  /\ stop = "servers" /\ stop' = "clients"
  /\ UNCHANGED <<broking, wrapper, inputs, thread, history, halted, waiting>>

(* A round stops all inputs and waits for one runner. *)
StopServers ==
  /\ stop = "servers" /\ waiting = {}
  /\ IF serverRunners = {}
     THEN stop' = "clients" /\ UNCHANGED <<waiting, keep>>
     ELSE /\ \E i \in serverRunners : waiting' = {i}
          /\ keep' = {}
          /\ UNCHANGED stop
  /\ UNCHANGED <<broking, wrapper, nextid, sid, clientid, clients, thread, history, halted>>

StopClients ==
  /\ stop = "clients" /\ waiting = {}
  /\ IF clientRunners = {}
     THEN stop' = "done" /\ UNCHANGED <<waiting, halted>>
     ELSE /\ \E m \in clientRunners : waiting' = {m} /\ halted' = halted \cup {m}
          /\ UNCHANGED stop
  /\ UNCHANGED <<broking, wrapper, inputs, thread, history>>

(* The loop of stopRunner() reads bFinished of a runner that was deleted   *)
(* right after it was set.  It sees it set, or it never ends: this step    *)
(* need not be taken.                                                      *)
StopRunner ==
  /\ \E t \in waiting : thread[t].pc = "ended"
  /\ waiting' = {}
  /\ UNCHANGED <<broking, wrapper, inputs, thread, history, halted, stop>>

-----------------------------------------------------------------------------
Releasing(t) == StopMqtt(t) \/ Erase(t)
Serving(i) == OpenServer(i) \/ Opened(i) \/ AcceptServer(i) \/ AcceptEnds(i) \/ CloseServer(i)
Running(m) == ReadMessage(m) \/ RunnerCloses(m)
Executing(c) == OpenClient(c) \/ InsertOwn(c) \/ ReadNothing(c) \/ WriteClient(c)
                \/ Flush(c) \/ AnswerCommand(c)

Next ==
  \/ BrokerFails \/ BrokerRestarts \/ DeviceSends
  \/ \E w \in Ids : LinkBreaks(w) \/ BrokerAcks(w)
  \/ \E t \in Threads : Releasing(t)
  \/ \E i \in Inputs : Serving(i)
  \/ \E m \in Messages : Running(m)
  \/ \E c \in Commands : ExecuteCommand(c) \/ Executing(c)
  \/ Stop \/ StopServers \/ StopClients \/ StopRunner

Spec == Init /\ [][Next]_vars

(* The threads run, the broker comes back and answers. *)
FairSpec ==
  /\ Spec
  /\ WF_vars(BrokerRestarts)
  /\ \A w \in Ids : WF_vars(BrokerAcks(w))
  /\ \A i \in Inputs : WF_vars(Releasing(i) \/ Serving(i))
  /\ \A c \in Commands : WF_vars(Releasing(c) \/ Executing(c))

-----------------------------------------------------------------------------
(* A command that is answered with 202 has been given to the MQTT library  *)
(* once, and none is given to it twice, through retries of runLoop(),      *)
(* reconnections and a stop() in between (execute_mqtt_command() asks:     *)
(* "how to check it was published?").                                      *)
HandedOnce ==
  \A c \in Commands : handed[c] <= 1 /\ (thread[c].pc = "answered" => handed[c] = 1)

(* Every message goes to one runner at most, in the order the devices sent *)
(* them: neither a reconnection nor a stop() repeats or reorders messages. *)
TakenInOrder == \A j, k \in 1..Len(taken) : j < k => taken[j] < taken[k]

(* When stop() returns there is no server thread and no runner of a        *)
(* message left, and nothing is subscribed.                                *)
StoppedIsQuiet ==
  stop = "done" => /\ serverRunners = {} /\ clientRunners = {}
                   /\ \A w \in Ids : wrapper[w].subscribed = "no"

(* A thread is about to use a wrapper that was deleted. *)
Dangling(t) ==
  \/ thread[t].pc = "flush" /\ Deleted(thread[t].ref)
  \/ \E w \in Ids :
       /\ wrapper[w].at = "freed"
       /\ \/ thread[t].pc = "accept" /\ t \in keep /\ sid[t] = w
          \/ thread[t].pc = "reading" /\ sid[InputOf(t)] < 0 /\ thread[t].id = w
          \/ thread[t].pc = "write" /\ thread[t].output = "some" /\ Writer(t) = w
          \/ thread[t].pc = "stopmqtt" /\ thread[t].id = w

(* As long as nobody calls stop(), no wrapper is used after its deletion,  *)
(* no server thread ends, and a client leaves the table with its runner.   *)
OnlyStopHurts ==
  stop = "no" =>
    /\ \A t \in DOMAIN thread : ~Dangling(t)
    /\ serverRunners = Inputs
    /\ \A k \in clients[mqttrunner] : \E m \in clientRunners : thread[m].id = k

(* The agent is subscribed again after any failure of the broker, unless   *)
(* it is stopped.                                                          *)
SubscribedAgain ==
  <>[](stop # "no" \/ \E w \in Ids : wrapper[w].subscribed = "yes")

(* A command is answered when the broker has come back, unless the plugin  *)
(* is stopped.                                                             *)
CommandAnswered ==
  \A c \in Commands : (thread[c].pc # "none") ~> (thread[c].pc = "answered" \/ stop # "no")

(* A message crosses the plugin once at most, in either direction.         *)
MessagesOnce == HandedOnce /\ TakenInOrder

(* stop() leaves nothing behind, and nothing else takes away what runs.    *)
StopIsClean == StoppedIsQuiet /\ OnlyStopHurts
=============================================================================
