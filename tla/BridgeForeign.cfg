SPECIFICATION Spec
CONSTANTS
  MaxConns = 2
  Foreign = {1}
  MaxRequests = 1
  MaxId = 2
  WireCap = 1
  MaxQueue = 3
  MaxClosingPeers = 1
  MaxOutstanding = 1
  MaxOps = 1
  MaxOutgoing = 2
INVARIANTS Inv
