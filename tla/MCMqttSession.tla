---------------------------- MODULE MCMqttSession ---------------------------
(* Instances of MqttSession: a command and a failure, a command and a      *)
(* stop(), and messages, failures and a stop() without a command.          *)
EXTENDS MqttSession

Bound(m, f, C, s) == [messages |-> m, failures |-> f, commands |-> C, stops |-> s]

MCBounds == {Bound(0, 1, Commands, 0), Bound(1, 0, Commands, 1), Bound(2, 1, {}, 1)}
=============================================================================
