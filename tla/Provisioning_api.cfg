SPECIFICATION TimerSpec
CONSTANTS
  Agents = {a1, a2}
  Workers = {w1, w2}
  a1 = a1
  a2 = a2
  w1 = w1
  w2 = w2
  d1 = d1
  d2 = d2
  p1 = p1
  Renewing = {}
  Ids = {d1, d2}
  Paths <- OnePath
  Keys <- MCKeys
  Plugins <- MCPlugins
  ProtocolOf <- MCProtocolOf
  Posts <- TwoDevices
  Puts <- SomePuts
  Services <- TwoServices
  Provisioned <- OneService
  StoredDevices <- StoredOne
  Expiring = "no"
  RegIds = {1, 2, 3, 4, 5, 6, 7}
  NoReg = 0
  Nobody = Nobody
  Absent = Absent
  MAX_SIZE_CACHE = 1
  MaxRequests = 2
  MaxReads = 2
  MaxFailures = 0
INVARIANT DevicesInOrder
CHECK_DEADLOCK FALSE
PROPERTY StaleDropped
