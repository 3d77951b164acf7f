SPECIFICATION FairSpec
CONSTANTS
  Clients = {1}
  Incompatible = {}
  Foreign = {1}
  MaxConnects = 2
  MaxState = 0
  MaxVersions = 1
  MaxOutstanding = 2
  MaxOpens = 1
PROPERTY EventuallyAnswered
CHECK_DEADLOCK FALSE
