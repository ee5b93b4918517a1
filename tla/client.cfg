SPECIFICATION MCSpec
CONSTANTS
  None = None
  MaxDrops = 2
  Reloads = {r1, r2}
  MaxFails = 1
  Me = me
  Friends = {a}
  Albums <- TheAlbums
  Names = {"m1"}
  Hints = {"hint"}
  Typed = {"", "typed"}
  MaxLate = 1
  MaxRecipients = 2
  MayStash <- AnyPair
  a = a
  b = b
  Circle <- TwoFriends
  MySchool = "cmu"
  Calendars <- TwoSchools
  Lists <- SomeLists
  SkyMaps <- SomeSkies
  Year = 60
  Ritual = TRUE
  DeviceMinutes = 600
  FirstHalf = 59
  LastHalf = 60
  MaxSkips = 2
  MaxAsks = 2
INVARIANTS
  PresentIsOnline
  CameraReleased
  DraftAccepted
  WordsFit
PROPERTIES
  TabsComeOnline
  NeverStuckReady
  SenderToldLive
CHECK_DEADLOCK FALSE
