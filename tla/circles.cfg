SPECIFICATION FairSpec
CONSTANTS
  None = None
  a = a
  b = b
  c = c
  Users = {a, b, c}
  Codes <- ABCodes
  OldPairs <- ACPairs
  Calls = {q1, q2}
  GroupIds = {g1}
  MaxRows = 2
  MaxMembers = 2
  MaxFailures = 1
INVARIANTS
  CapKept
  MembersKept
PROPERTIES
  OnlyTheAskedAccept
  EveryoneHears
CHECK_DEADLOCK FALSE
