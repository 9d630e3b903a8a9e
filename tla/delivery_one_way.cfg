SPECIFICATION FairSpec
CONSTANTS
  a = a
  b = b
  Users = {a, b}
  Texts = {1, 2}
  Attachments = {2}
  Senders = {"send"}
  Flushers = {"flush"}
  PageLimit = 2
  OutOfOrderTolerance = 1
  Readers = {b}
  MaxSends <- SendsTwo
  MaxClock = 2
  MaxFaults = 1
CHECK_DEADLOCK FALSE
INVARIANT LossBoundedByFaults
INVARIANT NeverDecryptsStored
INVARIANT LocalAgreesWithServer
INVARIANT OutboxUntilAccepted
INVARIANT OwnCopyKept
PROPERTY FreshGenerations
PROPERTY ImplementsLog
PROPERTY OutboxDrains
