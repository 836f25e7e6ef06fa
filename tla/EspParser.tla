----------------------------- MODULE EspParser ------------------------------
(***************************************************************************)
(* What a message of an MQTT device becomes: the runner of a message       *)
(* (ESP_Runner_Client::runLoop), the interpreter of tags it runs           *)
(* (ESP_Command, ESP_Tag_Base, ESP_Plugin_Parser_Basic) on the command     *)
(* "main" of mqtt/config/sensormqtt.xml, the two JSON postprocessors, the  *)
(* IoT output and IotaMqttService.                                         *)
(*                                                                         *)
(* A message is a sequence of symbols: "/", "|", "#" and words.  The tree  *)
(* of tags with its marks "parsed" is kept as the sequence of the tags     *)
(* that are still to run.  The entity that is published is made as in      *)
(* Ultralight; a response goes on as ResultRemoveMongo of CommandHandle.   *)
(* Several runners at a time are in MqttSession.                           *)
(***************************************************************************)
EXTENDS Integers, Sequences, SequencesExt, FiniteSets, TLC

CONSTANTS
  MqttMessages,   \* [topic, payload] of the messages
  ApiKeys,        \* the API keys of the services
  MaxBuffer       \* RUNNER_MAX_BUFFER

VARIABLES
  mqttmsg,     \* the message
  unread,      \* what readClient() has still to give
  command,     \* the command and the context of the runner
  mpc,         \* where the runner stands
  published,   \* measures given to the Context Broker communicator
  responses    \* results given to respond_mqtt_command()

esp == <<mqttmsg, unread, command, mpc, published, responses>>

----------------------------------------------------------------------------
(* The tags of sensormqtt.xml.  The value of the last option is written    *)
(* "tat" there, which no plugin knows: createCommandDetails() leaves it    *)
(* out.                                                                    *)
Value(name, delim, resetend) ==
  [tag |-> "value", name |-> <<name>>, delim |-> delim, resetend |-> resetend]
Reference(nameref, valueref) ==
  [tag |-> "reference", nameref |-> <<nameref>>, valueref |-> <<valueref>>]
Constraint(value) == [tag |-> "constraint", value |-> value]
Loop(children) == [tag |-> "loop", children |-> children]
Option(value, children) == [value |-> value, children |-> children]

Body ==
  <<Value("apikey", <<"/">>, FALSE),
    Value("sensorid", <<"/">>, FALSE),
    Value("type", <<"/">>, FALSE),
    [tag |-> "switch", options |-> <<
      Option(<<"mul20">>,
        <<Constraint(<<"/">>),
          Loop(<<Value("measurename", <<"|">>, FALSE),
                 Value("measurevalue", <<"#">>, FALSE), [tag |-> "result"]>>),
          [tag |-> "clear"]>>),
      Option(<<"cmd">>,
        <<Value("cmdname", <<"/", "/">>, FALSE),
          Loop(<<Value("measure_name", <<"|">>, FALSE),
                 Value("measure_value", <<"#">>, FALSE),
                 Reference("measure_name", "measure_value")>>)>>),
      Option(<<"cmdget">>,
        <<Constraint(<<"/">>), Value("cmdget-payload", <<>>, FALSE)>>),
      Option(<<"cmdexe">>,
        <<Value("cmdname-res", <<"/", "/">>, FALSE),
          Value("resultcommand", <<>>, TRUE)>>),
      Option(<<>>, <<Constraint(<<"/">>)>>)>>]>>

Nothing == [name \in {} |-> <<>>]
NoCommand == [index |-> 0, todo |-> Body, input |-> <<>>, end |-> 0,
              temp |-> Nothing, results |-> <<>>, status |-> "ok"]

----------------------------------------------------------------------------
(* ESP_Context. *)
Available(c) == Len(c.input) - c.end
Ahead(c) == SubSeq(c.input, c.end + 1, Len(c.input))

(* searchAttributeValue(): how much there is before the delimiter. *)
Found(c, delim) ==
  {n \in 0..(Available(c) - 1) :
     n + Len(delim) <= Available(c) /\ SubSeq(Ahead(c), n + 1, n + Len(delim)) = delim}

(* addResultData(). *)
AddResultData(c) ==
  IF c.temp = Nothing THEN c ELSE [c EXCEPT !.results = Append(@, c.temp)]

(* validateInputData(). *)
ValidateInputData(c, n) ==
  [c EXCEPT !.input = SubSeq(@, n + 1, Len(@)), !.end = 0]

(* A value that leaves the delimiter where it is. *)
ReadValueKeepsDelimiter(c, t) ==
  LET found == Found(c, t.delim)
      size == IF found = {} \/ t.delim = <<>> THEN Available(c)
              ELSE CHOOSE n \in found : \A k \in found : n <= k
  IN [c EXCEPT !.temp = (t.name :> SubSeq(Ahead(c), 1, size)) @@ @,
               !.end = IF t.resetend THEN @ ELSE @ + size]

(* ESP_Tag_Value::execute(): up to the delimiter, which is read too; all   *)
(* there is when there is no delimiter or none was found.                  *)
ReadValue(c, t) ==
  LET found == Found(c, t.delim)
      all == found = {} \/ t.delim = <<>>
      size == IF all THEN Available(c)
              ELSE CHOOSE n \in found : \A k \in found : n <= k
  IN [c EXCEPT !.temp = (t.name :> SubSeq(Ahead(c), 1, size)) @@ @,
               !.end = IF t.resetend THEN @
                       ELSE @ + size + (IF all THEN 0 ELSE Len(t.delim))]

(* The option of a switch that is evaluated: the first that has the value  *)
(* or has none; the children of the others are marked as parsed.           *)
Chosen(c, options) ==
  LET type == c.temp[<<"type">>]
      match == {i \in 1..Len(options) : options[i].value \in {type, <<>>}}
  IN options[CHOOSE i \in match : \A k \in match : i <= k].children

(* ESP_Tag_Loop::execute() with breakonempty and without a number of       *)
(* iterations.                                                             *)
LoopAgain(c, t) == IF Available(c) > 0 THEN t.children \o c.todo ELSE Tail(c.todo)

(* ESP_Tag_Base::run(): the tags in order, until one waits or fails. *)
RECURSIVE RunTags(_)
RunTags(c) ==
  IF c.todo = <<>> THEN [c EXCEPT !.status = "ok"]
  ELSE
    LET t == Head(c.todo)
        next == [c EXCEPT !.todo = Tail(@)]
        n == IF t.tag = "constraint" THEN Len(t.value) ELSE 0
    IN CASE t.tag = "value" -> RunTags(ReadValue(next, t))
         [] t.tag = "reference" ->
              RunTags([next EXCEPT !.temp = (c.temp[t.nameref] :> c.temp[t.valueref]) @@ @])
         [] t.tag = "switch" ->
              RunTags([next EXCEPT !.todo = Chosen(c, t.options) \o @])
         [] t.tag = "loop" -> RunTags([c EXCEPT !.todo = LoopAgain(c, t)])
         [] t.tag = "result" -> RunTags(AddResultData(next))
         [] t.tag = "clear" -> RunTags([next EXCEPT !.temp = Nothing])
         [] t.tag = "constraint" /\ Available(c) < n -> [c EXCEPT !.status = "idle"]
         [] t.tag = "constraint" /\ Available(c) >= n ->
              IF SubSeq(Ahead(c), 1, n) = t.value THEN RunTags([next EXCEPT !.end = @ + n])
              ELSE [c EXCEPT !.status = "error"]

(* A restart that forgets to reset the tags. *)
RestartKeepsTags(c) == [ValidateInputData(c, 1) EXCEPT !.index = 1]

(* What ESP_Command::run() does when the body failed: a byte is dropped    *)
(* and the body starts again.                                              *)
Restart(c) ==
  [ValidateInputData(c, 1) EXCEPT !.temp = Nothing, !.todo = Body, !.index = 1]

(* ESP_Command::run(): header, body, footer, finished.  The body is over   *)
(* with the first result.                                                  *)
RECURSIVE RunCommand(_)
RunCommand(c) ==
  CASE c.index \in {0, 2} -> RunCommand([c EXCEPT !.index = @ + 1])
    [] c.index = 3 -> [c EXCEPT !.status = "idle"]
    [] c.index = 1 ->
         LET b == RunTags(c)
         IN CASE b.status = "idle" -> b
              [] b.status = "error" -> RunCommand(Restart(b))
              [] b.status = "ok" ->
                   [AddResultData(ValidateInputData(b, b.end))
                      EXCEPT !.index = 2, !.temp = Nothing]

----------------------------------------------------------------------------
(* ESP_Postprocessor_json::execute() as post-json and as post-json-multi;  *)
(* without a valid result there is nothing.                                *)
Json(r, alias, measure) ==
  IF {alias, measure} \subseteq DOMAIN r
  THEN {[raw |-> <<>>, name |-> r[alias], value |-> r[measure], empty |-> FALSE]}
  ELSE {}

Raw(p) == {[raw |-> p, name |-> <<>>, value |-> <<>>, empty |-> p = <<>>]}

PostJson(r) ==
  IF <<"resultcommand">> \in DOMAIN r THEN Raw(r[<<"resultcommand">>])
  ELSE IF <<"cmdget-payload">> \in DOMAIN r THEN Raw(<<>>)
  ELSE Json(r, <<"type">>, <<"payload">>)

PostJsonMulti(r) == Json(r, <<"measurename">>, <<"measurevalue">>)

Field(r, name) == IF name \in DOMAIN r THEN r[name] ELSE <<>>

(* extract_command_id(): the id is taken out of the payload, with the      *)
(* separator behind it; without an id the response is dropped.             *)
Marks(p) == {i \in 1..(Len(p) - 1) : SubSeq(p, i, i + 1) = <<"cmdid", "|">>}

ExtractCommandId(p) ==
  LET i == CHOOSE j \in Marks(p) : \A k \in Marks(p) : j <= k
      tail == SubSeq(p, i + 2, Len(p))
      stops == {n \in 1..Len(tail) : tail[n] = "#"}
      last == IF stops = {} THEN Len(tail)
              ELSE (CHOOSE n \in stops : \A k \in stops : n <= k) - 1
  IN [id |-> SubSeq(tail, 1, last),
      payload |-> SubSeq(p, 1, i - 1) \o SubSeq(tail, last + 2, Len(tail))]

(* ESP_Output_IoT::execute() and handle_mqtt_message(): a result of a      *)
(* command, an echo of the agent's own commands, a measure.  doPublishCB() *)
(* publishes nothing without device or without a service for the key.      *)
Response(r, out) ==
  LET x == ExtractCommandId(out.raw)
  IN IF Field(r, <<"type">>) = <<"cmdexe">> /\ Marks(out.raw) # {}
     THEN <<[apikey |-> Field(r, <<"apikey">>), device |-> Field(r, <<"sensorid">>),
             id |-> x.id, payload |-> x.payload]>>
     ELSE <<>>

Measure(r, out) ==
  IF /\ Field(r, <<"type">>) \notin {<<"cmdexe">>, <<"cmd">>}
     /\ ~out.empty
     /\ Field(r, <<"apikey">>) \in ApiKeys /\ Field(r, <<"sensorid">>) # <<>>
  THEN <<[apikey |-> r[<<"apikey">>], device |-> r[<<"sensorid">>],
          name |-> out.name, value |-> out.value]>>
  ELSE <<>>

(* The outputs of a result, in the order of the postprocessors. *)
Outputs(r) == SetToSeq(PostJson(r)) \o SetToSeq(PostJsonMulti(r))

(* What the results produce, each with its outputs. *)
Produced(results) ==
  FlattenSeq([i \in DOMAIN results |->
    [k \in DOMAIN Outputs(results[i]) |->
       [result |-> results[i], output |-> Outputs(results[i])[k]]]])

----------------------------------------------------------------------------
EspInit(pc) ==
  /\ mqttmsg = [topic |-> <<>>, payload |-> <<>>]
  /\ unread = <<>>
  /\ command = NoCommand
  /\ mpc = pc
  /\ published = <<>>
  /\ responses = <<>>

(* ESP_MqttMsg: topic and payload with // between them. *)
Serialized(m) == m.topic \o <<"/", "/">> \o m.payload

MqttMessage ==
  /\ mpc = "idle"
  /\ mqttmsg' \in MqttMessages
  /\ unread' = Serialized(mqttmsg')
  /\ mpc' = "run"
  /\ UNCHANGED <<command, published, responses>>

(* runLoop(), a turn in which there is something to do: the command runs   *)
(* and its results go through the postprocessors to the output.            *)
RunnerTurn ==
  /\ mpc = "run" /\ (unread # <<>> \/ command.status = "ok")
  /\ LET n == IF Len(unread) < MaxBuffer THEN Len(unread) ELSE MaxBuffer
         c == RunCommand([command EXCEPT !.input = @ \o SubSeq(unread, 1, n),
                                         !.results = <<>>])
         p == Produced(c.results)
     IN /\ unread' = SubSeq(unread, n + 1, Len(unread))
        /\ command' = c
        /\ published' = published \o FlattenSeq([i \in DOMAIN p |-> Measure(p[i].result, p[i].output)])
        /\ responses' = responses \o FlattenSeq([i \in DOMAIN p |-> Response(p[i].result, p[i].output)])
  /\ UNCHANGED <<mqttmsg, mpc>>

(* A turn in which nothing was read: the next part of the command, or the  *)
(* end.                                                                    *)
RunnerIdle ==
  /\ mpc = "run" /\ unread = <<>> /\ command.status = "idle"
  /\ IF command.index = 3
     THEN mpc' = "done" /\ UNCHANGED command
     ELSE /\ command' = [command EXCEPT !.index = @ + 1, !.status = "ok"]
          /\ UNCHANGED mpc
  /\ UNCHANGED <<mqttmsg, unread, published, responses>>

EspNext ==
  \/ MqttMessage
  \/ RunnerTurn
  \/ RunnerIdle

----------------------------------------------------------------------------
(* The protocol of doc/MQTT_protocol.md. *)
Split(s, sep) ==
  LET at == SetToSortSeq({i \in 1..Len(s) : s[i] = sep}, <)
      cut == <<0>> \o at \o <<Len(s) + 1>>
  IN [i \in 1..(Len(cut) - 1) |-> SubSeq(s, cut[i] + 1, cut[i + 1] - 1)]

Levels == Split(mqttmsg.topic, "/")

(* The observations name|value of a payload, with or without the final "#" *)
(* that the documentation asks for.                                        *)
Pairs == LET p == mqttmsg.payload
             q == IF p # <<>> /\ Last(p) = "#" THEN Front(p) ELSE p
             o == Split(q, "#")
         IN [i \in 1..Len(o) |-> Split(o[i], "|")]

(* Several measures, <key>/<device>/mul20 with name|value#name|value#. *)
IsMul20 ==
  /\ Len(Levels) = 3 /\ Levels[1] \in ApiKeys /\ Levels[2] # <<>>
  /\ Levels[3] = <<"mul20">>
  /\ \A i \in 1..Len(Pairs) : Len(Pairs[i]) = 2 /\ Pairs[i][1] # <<>> /\ Pairs[i][2] # <<>>

(* A single measure, <key>/<device>/<type> with the value as payload, and  *)
(* what it says.                                                           *)
Keywords == {<<"mul20">>, <<"cmdget">>, <<"cmdexe">>, <<"cmd">>}
IsSingle ==
  /\ Len(Levels) = 3 /\ Levels[1] \in ApiKeys /\ Levels[2] # <<>>
  /\ Levels[3] \notin Keywords \cup {<<>>} /\ mqttmsg.payload # <<>>
SingleMeasure == [apikey |-> Levels[1], device |-> Levels[2],
                  name |-> Levels[3], value |-> mqttmsg.payload]

(* The result of a command, with its id somewhere between separators. *)
IsResult(i) ==
  LET p == mqttmsg.payload
  IN /\ Len(Levels) = 4 /\ Levels[3] = <<"cmdexe">> /\ Levels[4] # <<>>
     /\ SubSeq(p, i, i + 1) = <<"cmdid", "|">> /\ Cardinality(Marks(p)) = 1
     /\ i + 2 <= Len(p) /\ p[i + 2] # "#"
     /\ i + 2 = Len(p) \/ p[i + 3] = "#"

(* A message with several measures that fits into the buffer is taken as a *)
(* whole: each measure once, in the order of the message, under the name   *)
(* and the value it has there (runLoop(), ESP_Tag_Loop, ESP_Tag_Value);    *)
(* the result of a command with the id the device has written, and         *)
(* without it in the result (extract_command_id()).                        *)
DocumentedIsTaken ==
  mpc = "done" /\ Len(Serialized(mqttmsg)) <= MaxBuffer =>
    /\ IsMul20 =>
         published = [i \in 1..Len(Pairs) |->
                        [apikey |-> Levels[1], device |-> Levels[2],
                         name |-> Pairs[i][1], value |-> Pairs[i][2]]]
    /\ \A i \in 1..(Len(mqttmsg.payload) - 1) : IsResult(i) =>
         LET p == mqttmsg.payload
         IN responses = <<[apikey |-> Levels[1], device |-> Levels[2],
                           id |-> <<p[i + 2]>>,
                           payload |-> SubSeq(p, 1, i - 1) \o SubSeq(p, i + 4, Len(p))]>>

(* Whatever the message, also after the parser has lost its way and starts *)
(* again byte by byte (ESP_Command::run()): from a topic of three levels   *)
(* or more, none of them empty, a measure is published only under the key  *)
(* and the device that stand in the topic before a last level mul20, or as *)
(* the single measure the message is; and a result is taken only for those *)
(* before a level cmdexe.                                                  *)
UnderItsOwnTopic ==
  (Len(Levels) >= 3 /\ \A i \in 1..Len(Levels) : Levels[i] # <<>>) =>
    /\ \A x \in Range(published) :
         \/ SubSeq(Levels, Len(Levels) - 2, Len(Levels)) = <<x.apikey, x.device, <<"mul20">>>>
         \/ IsSingle /\ x = SingleMeasure
    /\ \A x \in Range(responses) :
         \E i \in 1..(Len(Levels) - 2) :
           SubSeq(Levels, i, i + 2) = <<x.apikey, x.device, <<"cmdexe">>>>

(* Messages with several measures and results of commands are understood,  *)
(* as what they are (RunCommand(), ESP_Output_IoT).  That single measures  *)
(* are published is SingleMeasurePublished.                                *)
MessageAsDocumented == DocumentedIsTaken /\ UnderItsOwnTopic

(* doc/MQTT_protocol.md:138-157, "Devices sending single Measures": a      *)
(* message on <api-key>/<device-id>/<type>, of a device of a service, is   *)
(* published as one measure of that name with the payload as its value.    *)
(* The code violates it: the tag that would read the payload is misspelt   *)
(* in sensormqtt.xml:122 and left out by createCommandDetails(), so that   *)
(* ESP_Postprocessor_json finds no payload and nothing is published.       *)
SingleMeasurePublished ==
  mpc = "done" /\ Len(Serialized(mqttmsg)) <= MaxBuffer /\ IsSingle =>
    published = <<SingleMeasure>>
=============================================================================
