SPECIFICATION Spec
CONSTANTS
  None = None
  a = a
  b = b
  c = c
  Users = {a, b, c}
  LockIds = {l1}
  Requests = {q1, q2}
  Drafts <- OwnDrafts
  Words = {"w1"}
  Moments = {}
  SecondKeys = {TRUE, FALSE}
  MayStash <- AllPaired
  MaxRecipients = 12
  MaxRestarts = 0
  MaxFailures = 0
INVARIANTS
  NobodyElseHolds
CHECK_DEADLOCK FALSE
