SPECIFICATION LiveSpec
CONSTANTS
  None = None
  a = a
  b = b
  c = c
  Users = {a, b, c}
  LockIds = {l1, l2, l3}
  Requests = {q1, q2}
  Drafts <- LiveDrafts
  Words = {"w1"}
  Moments = {"m1"}
  SecondKeys = {FALSE}
  MayStash <- AllPaired
  MaxRecipients = 12
  MaxRestarts = 0
  MaxFailures = 0
INVARIANTS
  StampedByRecipient
PROPERTIES
  TradePaysOut
  HereIsHeard
CHECK_DEADLOCK FALSE
