SPECIFICATION Spec
CONSTANTS
  ann = ann
  ben = ben
  team = team
  None = None
  Direct = {ann, ben}
  Groups = {team}
  LoadLimit = 1
  OlderLimit = 1
  Skews <- Clocks
  MaxMessages = 2
  MaxTexts = 1
  MaxVisits = 2
  MaxFaults = 1
SYMMETRY Friends
CHECK_DEADLOCK FALSE
INVARIANTS PageAgrees NothingNewerIsHidden TextKept
