SPECIFICATION Spec
CONSTANTS
  alice = alice
  bob = bob
  d1 = d1
  d2 = d2
  s1 = s1
  s2 = s2
  s3 = s3
  i1 = i1
  i2 = i2
  f1 = f1
  Users = {alice, bob}
  Devices = {d1, d2}
  Instances = {i1, i2}
  Sockets = {s1, s2, s3}
  Owner <- TwoUsers
  Dev <- FirstOwnsTwo
  Inst <- Apart
  Members = {alice, bob}
  Frames = {f1}
  MaxAttempts = 1
  MaxConnections = 2
  MaxSignIns <- OnceEach
  MaxFaults = 1
INVARIANTS NoUntrackedSocket GoneIsOffline DispatchedOnce OwedIsComing
CHECK_DEADLOCK FALSE
