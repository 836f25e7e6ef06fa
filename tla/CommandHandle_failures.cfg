SPECIFICATION Spec
CONSTANTS
  None = None  a1 = a1  a2 = a2  d1 = d1  d2 = d2
  Agents = {a1, a2}
  Reqs = {1}
  Seqs = {1}
  Ids = {1}
  SeqOf <- MCUnique
  IdOf <- MCUnique
  EntityOf <- MCOneDevice
  Entities = {d1}
  Obj = {1, 2, 3}
  MAX_SIZE_CACHE = 1
  CommandTimeout = 1
  Storage = "mongodb"
  Push = {1}
  Polls = {p1}
  Answers = {s1}
  MaxFaults = 1
  MaxCrashes = 1
  SaveRaces = TRUE
INVARIANTS TypeOK OneExpiry
PROPERTY LifeCycle
CHECK_DEADLOCK FALSE
