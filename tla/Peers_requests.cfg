SPECIFICATION PeersSpec
CONSTANTS
  Sends = {s1, s2}
  Urls = {u1}
  Url <- MCUrl
  Kind <- MixedKinds
  ServiceToken <- TrustTokens
  TrustUrl = "set"
  a1 = a1
  e1 = e1
  f1 = f1
  e2 = e2
  Agents = {a1}
  Services = {v1}
  Addresses <- MCAddresses
  FirstAddress <- MCFirst
  Known = {}
  FirstServices = {v1}
  MaxEvents = 3
  MaxPosts = 2
INVARIANT TrustPrivate
INVARIANT RegistrationHolds
PROPERTY RetryDiscipline
PROPERTY CallerTold
PROPERTY SendsEnd
PROPERTY AlarmEnds
CHECK_DEADLOCK FALSE
