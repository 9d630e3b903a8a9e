SPECIFICATION FairSpec
CONSTANTS
  a = a
  b = b
  c = c
  a1 = a1
  b1 = b1
  b2 = b2
  c1 = c1
  ab = ab
  ac = ac
  Users = {a, b, c}
  Devices = {a1, b1, b2}
  Owner <- OwnerOf
  Conversations = {ab}
  Members <- MembersOf
  MaxCalls <- OneCaller
  MaxHangups = 0
  MaxFaults = 0
CHECK_DEADLOCK FALSE
PROPERTY AnsweredCallConnects
