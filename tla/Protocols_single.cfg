SPECIFICATION Spec
CONSTANTS
  Requests <- MCRequests
  Configs <- MCConfigs
  MqttMessages <- MCMqttMessages
  ApiKeys <- MCApiKeys
  MaxBuffer = 14
  Operations <- MCOperations
  Registers <- MCRegisters
  Changes = {1, 128, 255}
  NgsiDevices <- MCNgsiDevices
  NgsiInputs <- MCNgsiInputs
  TTThreads = {h1, h2}
  TTMessages <- MCTTMessages
  TTDevices = {"t1", "t2"}
  TTNames = {"conf"}
  TTDesired = {"a"}
  MaxDesired = 1
  OpFiles <- MCOpFiles
  SensorOptions <- MCSensorOptions
SYMMETRY Symmetry
INVARIANT SingleMeasurePublished
CHECK_DEADLOCK FALSE
