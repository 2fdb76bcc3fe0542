CONSTANTS
  c1 = c1  c2 = c2  Opener = Opener
  Caller = {c1, c2}
  MaxOpens = 2
  MaxCrashes = 1
SPECIFICATION FairSpec
INVARIANTS TypeOK RaftHasItsStores NothingLeaks ReleasedOnce ClosersAgree
PROPERTIES KeepsCluster EverythingReturns
CHECK_DEADLOCK FALSE
