SPECIFICATION Spec
CONSTANTS
  a = a
  b = b
  c = c
  a1 = a1
  b1 = b1
  b2 = b2
  c1 = c1
  ab = ab
  ac = ac
  Users = {a, b, c}
  Devices = {a1, b1, c1}
  Owner <- OwnerOf
  Conversations = {ab, ac}
  Members <- MembersOf
  MaxCalls <- OneCallEach
  MaxHangups = 1
  MaxFaults = 1
CHECK_DEADLOCK FALSE
INVARIANT RingHasCaller
INVARIANT MediaFollowsCall
