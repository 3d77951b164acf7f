SPECIFICATION Spec
CONSTANTS
  Clients = {1}
  Incompatible = {}
  Foreign = {1}
  MaxConnects = 2
  MaxState = 1
  MaxVersions = 2
  MaxOutstanding = 2
  MaxOpens = 1
INVARIANTS TypeOK PendingIsLive ConformingAccepted ProfilesKept
CHECK_DEADLOCK FALSE
