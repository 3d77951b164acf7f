SPECIFICATION Spec
CONSTANTS
  MaxConns = 2
  Foreign = {}
  MaxRequests = 3
  MaxId = 2
  WireCap = 1
  MaxQueue = 2
  MaxClosingPeers = 1
  MaxOutstanding = 2
  MaxOps = 2
  MaxOutgoing = 2
INVARIANTS TypeOK AnswersMatch RanInOrder OkMeansRan CompletedOnce
