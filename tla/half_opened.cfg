SPECIFICATION FairSpec
CONSTANTS
  None = None
  a = a
  b = b
  c = c
  Users = {a, b}
  LockIds = {l1, l2}
  Requests = {q1, q2}
  Drafts <- TradeDrafts
  Words = {}
  Moments = {}
  SecondKeys = {FALSE}
  MayStash <- AllPaired
  MaxRecipients = 12
  MaxRestarts = 0
  MaxFailures = 1
PROPERTIES
  BothOpen
CHECK_DEADLOCK FALSE
