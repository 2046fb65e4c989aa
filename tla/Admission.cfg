SPECIFICATION FairSpec
CONSTANTS
  Replicas = {A}
  Requests = {q1, q2, q3, q4}
  Home <- OneReplica
  MaxInFlight = 2
  MaxQueued = 1
  LeaseTTL = 2
  Faults = {"redis", "crash"}
PROPERTIES LeaseLostOnlyToTime PoolSpec AcquireResolves LeaseFreed
