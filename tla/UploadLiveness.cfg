SPECIFICATION FairSpec
CONSTANTS
  None = None
  t1 = t1   m1 = m1  l1 = l1  l2 = l2  a1 = a1  a2 = a2  r1 = r1  r2 = r2  v1 = v1
  Intents = {m1}
  Attempts = {a1}
  Retries = {r1}
  Media = {v1}
  BackendOf <- NativeBackend
  MediaOf <- SameMedia
  SizeOf <- UnitSize
  IndexAfter = {m1}
  Quota = 1
  LocalQuota = 1
  LateCreationStates <- NormalLate
  MaxCrashes = 0
INVARIANTS ImportLinked IndexedTruthful
PROPERTIES Settles BytesReleased
CHECK_DEADLOCK FALSE
