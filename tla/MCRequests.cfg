CONSTANTS
  a = a  b = b  c = c  v1 = v1  v2 = v2
  Key <- MCKey
  Value <- MCValue
  Absent = Absent
  TicksPerSecond = 4
  EmptyKey = EmptyKey
  KeyOrder <- MCOrder
  DefaultScanLimit = 2
  DefaultApplyTimeout = 3
  Calls <- MCCalls
SPECIFICATION Spec
INVARIANTS BatchIsItsSequence TTLWindow ReadsAreBounded ScanIsPrefix
CHECK_DEADLOCK FALSE
