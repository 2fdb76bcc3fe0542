CONSTANTS
  n1 = n1  n2 = n2  a = a  b = b  v1 = v1  v2 = v2
  Node <- OneNode
  Key <- MCKey
  Value <- MCValue
  Absent = Absent
  TicksPerSecond = 1
  Request <- OverlapRequests
  MaxLog = 2
  MaxNow = 1
  MaxTaken = 2
  MaxFaults = 0
SPECIFICATION Spec
INVARIANT Converged
