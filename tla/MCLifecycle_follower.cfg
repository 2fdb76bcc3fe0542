CONSTANTS
  c1 = c1  c2 = c2  Opener = Opener
  Caller = {c1, c2}
  MaxOpens = 2
  MaxCrashes = 1
SPECIFICATION Spec
INVARIANT WritableWhenOpened
CHECK_DEADLOCK FALSE
