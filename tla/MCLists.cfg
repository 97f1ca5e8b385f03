SPECIFICATION Spec
CONSTANTS
  Windows = {w1, w2}
  HoursPerDay = 4
  DayStart = 1
  NightStart = 3
  FirstHours = {0, 2}
  LastHour = 6
  MaxChoices = 2
  Countries = {1, 2, 3}
  Continents <- ThreeContinents
  ContinentOf <- TwoInEurope
  PopularLimit = 2
  Joiners = {1, 2, 3}
  Founder = 2
  Codes = {1, 2, 3, 4}
  MapsBefore <- MapsOfThree
  MaxChanges = 4
  Searches = {"", "accent", "one", "none"}
  Blank = ""
  Matches <- Finds
  ownLand = ownLand
  friendLand = friendLand
  noLand = noLand
  None = None
  Shapes <- Drawn
  Canonical <- Land
  FriendCodes <- Abroad
  Mine <- Home
  NoOverride = NoOverride
  NoTimer = NoTimer
  NoWindow = NoWindow
  NobodyFocused = NobodyFocused
  Unknown = Unknown
CHECK_DEADLOCK FALSE
INVARIANTS
  ThemeInv
  GroupStatsInv
  PanelInv
  ListInv
  MapInv
  CanvasShowsProps
  LitIsPointedAt
PROPERTY
  FoldAllDoes
