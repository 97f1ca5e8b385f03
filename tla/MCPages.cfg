SPECIFICATION Spec
CONSTANTS
  amy = amy
  f1 = f1
  f2 = f2
  Users = {amy, ben}
  Followers = {amy}
  Fans = 0
  FollowsBefore <- FollowedBefore
  FollowSlots = {f1, f2}
  MaxFollows = 2
  MaxMoves = 2
  Me = Me
  joe = joe
  s1 = s1
  s2 = s2
  Travellers = {Me, joe}
  Friends = {joe}
  GroupNames = {"Crew", "Club"}
  GroupsBefore <- ClubsBefore
  ReqSlots = {s1, s2}
  MaxRequests = 2
  MaxTurns = 1
  MaxCode = 1
  Names = {"Ann", "Anna"}
  MyHandles = {"ann", "anna"}
  TakenHandles = {"bob"}
  AccountsBefore <- AnnsBefore
  MaxSaves = 1
  MaxPages = 2
  MaxOthers = 2
  NoFollow = NoFollow
  Missing = Missing
  Done = Done
  NoRequest = NoRequest
  Nobody = Nobody
  Nameless = Nameless
  Gone = Gone
  Invalid = Invalid
  Keep = Keep
  NoPage = NoPage
  NoSave = NoSave
  NoForm = NoForm
  NoRender = NoRender
  Absent = Absent
SYMMETRY Slots
CHECK_DEADLOCK FALSE
INVARIANTS
  FollowsInv
  GroupPagesInv
  ProfilePagesInv
PROPERTIES
  RenamesAreTyped
  PatchIsMinimal
