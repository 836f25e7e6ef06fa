SPECIFICATION FairSpec
CONSTANTS
  None = None  a1 = a1  a2 = a2  d1 = d1  d2 = d2
  Agents = {a1, a2}
  Reqs = {1}
  Seqs = {1}
  Ids = {1}
  SeqOf <- MCUnique
  IdOf <- MCUnique
  EntityOf <- MCOneDevice
  Entities = {d1}
  Obj = {1, 2, 3}
  MAX_SIZE_CACHE = 2
  CommandTimeout = 1
  Storage = "mongodb"
  Push = {}
  Polls = {p1, p2}
  Answers = {s1}
  MaxFaults = 0
  MaxCrashes = 0
  SaveRaces = FALSE
INVARIANTS NothingForgotten
PROPERTY LifeCycleFair
CHECK_DEADLOCK FALSE
