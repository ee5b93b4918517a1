SPECIFICATION SafeSpec
CONSTANTS
  None = None
  a = a
  b = b
  c = c
  Users = {a, b, c}
  LockIds = {l1, l2, l3}
  Requests = {q1, q2, q3}
  Drafts <- AllDrafts
  Words = {"w1"}
  Moments = {}
  SecondKeys = {TRUE, FALSE}
  MayStash <- AllPaired
  MaxRecipients = 12
  MaxRestarts = 1
  MaxFailures = 1
SYMMETRY Perms
INVARIANTS
  TypeOK
  AnswerOpensWithOriginal
  TradeInOrder
  WaitIsKept
  OpenedByItsRule
  HoldsKept
  LastHoldOpens
  CardsOfferHolds
PROPERTIES
  NeverResealed
  ImplementsLockbox
CHECK_DEADLOCK FALSE
