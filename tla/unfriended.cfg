SPECIFICATION Spec
CONSTANTS
  None = None
  a = a
  b = b
  c = c
  Users = {a, b, c}
  Codes <- ABCodes
  OldPairs <- ACPairs
  Calls = {q1, q2}
  GroupIds = {g1}
  MaxRows = 2
  MaxMembers = 2
  MaxFailures = 0
PROPERTIES
  FriendsStay
CHECK_DEADLOCK FALSE
