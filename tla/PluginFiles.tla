----------------------------- MODULE PluginFiles -----------------------------
(***************************************************************************)
(* What the plugins read from their files when they start: the operations  *)
(* of Modbus and the sensor of MQTT.  Neither knows of the other.          *)
(***************************************************************************)
EXTENDS OperationFile, SensorFile

FilesSpec ==
  /\ OpInit("operations") /\ [][OpNext]_opVars
  /\ SensorInit("options") /\ [][SensorNext]_sensorVars

(* What a plugin reads from its files at the start is what it works with:  *)
(* the labels of Modbus operations fit the registers they read, and the    *)
(* MQTT sensor has a runner for each input and the postprocessors of each  *)
(* output that its file asks for.                                          *)
FilesAsWritten == LabelsFitRegisters /\ RunsAsWritten /\ RunnersServed
=============================================================================
