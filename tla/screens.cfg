SPECIFICATION ScreensSpec
CONSTANTS
  None = None
  pam = pam
  gus = gus
  eve = eve
  Users = {pam, gus, eve}
  Provider <- ProviderOf
  MaxLaunches = 2
  MaxSignIns = 3
  MaxFaults = 2
  Direct = {ann}
  Friend = ben
  Groups = {team}
  MaxRows = 1
  MaxVisits = 2
  People = {me, pal}
  Me = me
  Views = {"panel", "page"}
  MaxRequests = 2
  MaxActions = 2
  nim = nim
  Names = {nim, fox}
  Images = {sun, sea}
  Statuses = {"online", "idle"}
  TakenNames = {fox}
  First <- FirstProfile
  Forms = {"page", "dialog"}
  MaxEdits = 2
  MaxOpens = 2
  MaxSaves = 1
  Preferences = {std, own}
  Defaults = std
  MaxStarts = 3
  MaxMishaps = 1
  Members = {me, pal, peer}
  Makers = {me}
  Batch = 1
  Low = 1
  MaxChats = 1
  MaxFailures = 1
CHECK_DEADLOCK FALSE
INVARIANTS UnreadSurfaces  OwnActionsShow ShownIsKnown VaultOfShown SavedAsShown StatusAgrees NoCameraLost
INVARIANTS PackagesOpen EveryoneCanJoin ConfirmedHasJoined
