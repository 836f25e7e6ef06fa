-------------------------- MODULE MCCommandHandle ---------------------------
(* Instances of CommandHandle for TLC. *)
EXTENDS CommandHandle

CONSTANTS a1, a2, d1, d2

(* Requests are numbered; MQTT and the default transform_command use the   *)
(* sequence as id, so ids and sequences are as distinct as requests.       *)
MCUnique == [r \in Reqs |-> r]
MCOneDevice == [r \in Reqs |-> d1]
=============================================================================
