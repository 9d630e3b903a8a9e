SPECIFICATION FairSpec
CONSTANTS
  alice = alice
  bob = bob
  d1 = d1
  d2 = d2
  s1 = s1
  s2 = s2
  s3 = s3
  i1 = i1
  i2 = i2
  f1 = f1
  Users = {alice}
  Devices = {d1}
  Instances = {i1}
  Sockets = {s1, s2}
  Owner <- OneUser
  Dev <- AllOne
  Inst <- OnOne
  Members = {alice}
  Frames = {}
  MaxAttempts = 2
  MaxConnections = 1
  MaxSignIns <- Twice
  MaxFaults = 2
PROPERTY SignedInConnects
CHECK_DEADLOCK FALSE
