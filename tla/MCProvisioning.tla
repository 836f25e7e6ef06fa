--------------------------- MODULE MCProvisioning ---------------------------
(* Small instances of Provisioning: one service, one plugin per agent. *)
EXTENDS Provisioning

CONSTANTS d1, d2, p1

MCKeys == Ids \X Paths
MCPlugins == [a \in Agents |-> {"/iot/d"}]
MCProtocolOf == [r \in {"/iot/d", "/iot/tt"} |-> IF r = "/iot/d" THEN "UL" ELSE "TT"]

MCService == [path |-> p1, resource |-> "/iot/d", apikey |-> "k1"]
OtherKey == [path |-> p1, resource |-> "/iot/d", apikey |-> "k2"]

Device1 == [id |-> d1, entity_name |-> "e1", entity_type |-> "t1",
            protocol |-> "UL", commands |-> {"c1"}, valid |-> "yes"]
Device2 == [id |-> d2, entity_name |-> "e1", entity_type |-> "t1",
            protocol |-> "UL", commands |-> {"c2"}, valid |-> "yes"]
NoCommands == [Device2 EXCEPT !.commands = {}]

Stored(dev, i) ==
  [id |-> dev.id, path |-> p1, entity_name |-> dev.entity_name,
   entity_type |-> dev.entity_type, protocol |-> dev.protocol,
   commands |-> dev.commands, reg |-> i, ver |-> 0]
StoredOne == {Stored(Device1, 1)}

OnePath == {p1}
OneService == {MCService}
TwoServices == {MCService, OtherKey}
SecondDevice == {<<Device2>>}
RenewPuts == {[id |-> d2, commands |-> {"c2"}]}
TwoDevices == {<<Device1, NoCommands>>}
Commands2 == [commands |-> {"c2"}]
Commands3 == [commands |-> {"c3"}]
SomePuts == {Commands2, Commands3}
=============================================================================
