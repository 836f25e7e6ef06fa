SPECIFICATION FairSpec
CONSTANTS
  Agents = {a1}
  Workers = {w1}
  a1 = a1
  w1 = w1
  d1 = d1
  d2 = d2
  p1 = p1
  Renewing = {a1}
  Ids = {d1, d2}
  Paths <- OnePath
  Keys <- MCKeys
  Plugins <- MCPlugins
  ProtocolOf <- MCProtocolOf
  Posts <- SecondDevice
  Puts <- RenewPuts
  Services = {}
  Provisioned <- OneService
  StoredDevices <- StoredOne
  Expiring = "yes"
  RegIds = {1, 2, 3, 4, 5}
  NoReg = 0
  Nobody = Nobody
  Absent = Absent
  MAX_SIZE_CACHE = 1
  MaxRequests = 1
  MaxReads = 0
  MaxFailures = 1
PROPERTY RequestsAnswered
CHECK_DEADLOCK FALSE
PROPERTY RegisteredAgain
