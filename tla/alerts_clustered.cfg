SPECIFICATION MCSpec
CONSTANTS
  None = None
  Nobody = Nobody
  t1 = t1
  t2 = t2
  People = {a}
  Calls = {k1}
  Codes = {c1, c2}
  TokenNames = {None, "Auth"}
  TypedNames = {"Typed"}
  States = {s1, s2}
  MaxConsents = 1
  Histories <- TwoTracks
  pat = pat
  fay = fay
  gus = gus
  Users = {pat}
  OptedIn = {pat}
  Friends = {fay, gus}
  Feed <- TwoCampuses
  Titles = {"title"}
  Kinds = {"athletics", "food"}
  Devices = {d}
  Jobs = {j1}
  Social <- FourThenFive
  Hours = 24
  MaxSends = 1
  PreviewHours = {}
INVARIANT NeverClustered
CHECK_DEADLOCK FALSE
