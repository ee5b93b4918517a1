SPECIFICATION MCSpec
CONSTANTS
  None = None
  Nobody = Nobody
  t1 = t1
  t2 = t2
  People = {a, b}
  Calls = {k1, k2}
  Codes = {c1, c2}
  TokenNames = {None, "Auth"}
  TypedNames = {"Typed"}
  States = {s1, s2}
  MaxConsents = 1
  Histories <- TwoTracks
  pat = pat
  fay = fay
  gus = gus
  Users = {pat}
  OptedIn = {pat}
  Friends = {fay, gus}
  Feed <- TwoCampuses
  Titles = {"title"}
  Kinds = {"athletics", "food"}
  Devices = {d}
  Jobs = {j1, j2}
  Social <- FourThenFive
  Hours = 22
  MaxSends = 1
  PreviewHours = {0}
SYMMETRY Perms
INVARIANTS
  NobodyShutOut
  ConnectsItsOwner
  BurnedBeforeStored
  CeilingKept
  SpacedOut
PROPERTIES
  EditsKept
  TurnsTaken
CHECK_DEADLOCK FALSE
