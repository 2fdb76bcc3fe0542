CONSTANTS
  n1 = n1  n2 = n2  a = a  b = b  v1 = v1  v2 = v2
  Node <- OneNode
  Key <- MCKey
  Value <- MCValue
  Absent = Absent
  TicksPerSecond = 1
  Request <- MixedRequests
  MaxLog = 3
  MaxNow = 2
  MaxTaken = 2
  MaxFaults = 1
SPECIFICATION FairSpec
INVARIANTS Provenance ConvergedUnlessMissed SnapshotSound
PROPERTY EventuallyConverged
