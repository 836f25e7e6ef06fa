SPECIFICATION FairSpec
CONSTANTS
  Requests = {q1, q2}
  q1 = q1
  q2 = q2
  Filters <- PepAndMedia
  Shapes <- MCShapes
INVARIANT Admitted
INVARIANT EntriesMatch
PROPERTY Answered
CHECK_DEADLOCK FALSE
