CONSTANTS
  r1 = r1  c1 = c1  c2 = c2
  Reader <- OneReader
  Closer <- OneCloser
  Layouts = {FALSE}
  Nested = FALSE
  MaxGen = 1
  MaxFaults = 2
SPECIFICATION HFairSpec
PROPERTY FailuresLogged
