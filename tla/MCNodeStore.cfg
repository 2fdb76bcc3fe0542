CONSTANTS
  r1 = r1  c1 = c1  c2 = c2
  Reader <- OneReader
  Closer <- TwoClosers
  Layouts = {FALSE, TRUE}
  Nested = TRUE
  MaxGen = 1
  MaxFaults = 3
SPECIFICATION HFairSpec
INVARIANTS TypeOK NoUseAfterClose NoLostInstance ClosedIsFinal ServesPublishedOrEmpty
PROPERTIES RestoreEnds CloseEnds GoesBackOnlyToOlder ImplementsAtomicStore
