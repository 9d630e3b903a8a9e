SPECIFICATION Spec
CONSTANTS
  a = a
  b = b
  Users = {a, b}
  Callers = {"text", "media"}
  MaxSends <- OneEach
  MaxGroups = 1
  MaxFaults = 0
CHECK_DEADLOCK FALSE
INVARIANT OneGroup
