SPECIFICATION Spec
CONSTANTS
  NumAgents = 3
  MaxDevices = 3
  LIMIT_DEFAULT = 2
  LIMIT_MAX = 4
  AskedLimits <- MCLimits
  AskedOffsets <- MCOffsets
  Endpoints = {e1, e2}
  i1 = i1
  p1 = p1
  p2 = p2
  Items = {i1, i2}
  Protocols = {p1, p2}
  ProtocolOf <- MCProtocolOf
  CThreads = {t1, t2, t3}
  Texts <- MCTexts
  PutTexts <- MCPutTexts
  Asks <- MCAsks
  Stored <- MCStored
  Storages = {"mongodb", "file"}
  FirstTexts <- MCFirstTexts
  DeviceFiles <- MCDeviceFiles
  MaxCached = 2
  SThreads = {s1, s2}
  SRequests <- MCSRequests
  SResources = {"/d", "/e"}
  FIWARE_SERVICE_LENGTH = 3
  SDefault = 2
  SMax = 3
  FirstServices <- MCFirstServices
  FirstDevices <- MCFirstDevices
  MaxDocs = 7
  DThreads = {s1, s2}
  Conns = {t1, t2, t3}
  NoConn = NoConn
  SIZE_POOL = 1
  MAX_RETRY = 1
  MaxAttempts = 3
  Keys = {k1}
  MaxCopies = 2
  TThreads = {s1, s2}
  HOURS = 2
  MaxClock = 4
  Setups <- MCSetups
  ResourceLists <- MCResourceLists
SYMMETRY CSymmetry
INVARIANT PagesFit
INVARIANT AnswersAreTrue
INVARIANT ConfigurationServes
INVARIANT ChangesAreOwn
INVARIANT ConnectionIsOwn
INVARIANT ReportIsTrue
INVARIANT CountersKept
INVARIANT GoodResourcesServe
CHECK_DEADLOCK FALSE
