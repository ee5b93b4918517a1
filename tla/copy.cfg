SPECIFICATION MCSpec
CONSTANTS
  None = None
  Nobody = None
  NoText = None
  alias = alias
  Callers = {c}
  Workers = {w1, w2}
  Others = {l1, l2}
  Keys <- OneAlert
  Cards <- ThreeCards
  Wanted = "k2"
  Aliases = {alias}
  Serving <- OneOrOther
  CacheMax = 2
  CacheTtl = 2
  ModelsTtl = 1
  MaxAsks = 2
  MaxTime = 2
  NewsFeeds <- News
  RedditFeeds <- Posts
  Tradition <- Fence
  Food <- Pierogi
  Game = 1
  DayTicks = 2
  PerFeed = 1
  MaxItems = 4
  SchoolTtl = 1
  Replies <- SomeReplies
  People = {u}
  Tabs = {t1, t2}
  CacheMs = 2
  Patience = 1
  LastTick = 4
  MaxText = 6
INVARIANTS
  SeedsOnlyScored
  CacheBounded
  ShelfInPlace
  KnobDroppedRightly
  BlockBalanced
PROPERTIES
  VerdictsOwn
  ShelfServed
  AskedAgainAtMost
CHECK_DEADLOCK FALSE
