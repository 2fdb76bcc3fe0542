CONSTANTS
  n1 = n1  n2 = n2  a = a  v1 = v1  w1 = w1  r1 = r1  m1 = m1  m2 = m2
  None = None
  Node = {n1, n2}
  Key = {a}
  Value = {v1}
  Absent = Absent
  TicksPerSecond = 1
  Request <- MCRequest
  Write = {w1}
  Read = {r1}
  Change = {m1, m2}
  ReqOf <- MCReqOf
  KeyOf <- MCKeyOf
  AddOf <- MCAddOf
  ServerOf <- MCServerOf
  Founder = n1
  Founders = {n1, n2}
  MaxLog = 1
  MaxNow = 1
  MaxTaken = 1
  MaxFaults = 0
  MaxCalls = 2
  MaxElections = 2
  MaxExits = 1
SPECIFICATION ClientFairSpec
INVARIANTS ClientInv RefusedNeverTakesEffect
PROPERTIES LinearizableReads CallsReturn ImplementsMap
CHECK_DEADLOCK FALSE
