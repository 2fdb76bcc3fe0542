CONSTANTS
  r1 = r1  c1 = c1  c2 = c2
  Reader <- OneReader
  Closer <- OneCloser
  Layouts = {FALSE}
  Nested = TRUE
  MaxGen = 1
  MaxFaults = 0
SPECIFICATION HFairSpec
PROPERTY RestoreTerminates
