SPECIFICATION FairSpec
CONSTANTS
  a = a
  b = b
  Users = {a, b}
  Callers = {"text"}
  MaxSends <- TwoAndOne
  MaxGroups = 2
  MaxFaults = 3
CHECK_DEADLOCK FALSE
INVARIANT DuplicateNeedsOverlap
INVARIANT RegisteredIsDurable
INVARIANT DiscardedNeverUsed
INVARIANT Announced
 
