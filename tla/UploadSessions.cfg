SPECIFICATION FairSpec
CONSTANTS
  s1 = s1
  f1 = f1
  f2 = f2
  None = None
  Requests = {q1, q2}
  Sessions <- MCSessions
  Files <- MCFiles
  SessionOf <- MCSessionOf
  Allowed <- MCAllowed
  Full <- MCFull
  MaxCalls = 4
INVARIANTS TypeOK ReadsHold
PROPERTIES KeepsPromise RequestsReturn
CHECK_DEADLOCK FALSE
