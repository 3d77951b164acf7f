SPECIFICATION Spec
CONSTANTS
  Clients = {1}
  Incompatible = {}
  Foreign = {}
  MaxConnects = 1
  MaxState = 1
  MaxVersions = 1
  MaxOutstanding = 2
  MaxOpens = 1
INVARIANT HostNotRejected
CHECK_DEADLOCK FALSE
