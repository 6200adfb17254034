SPECIFICATION FairSpec
CONSTANTS
  None = None
  t1 = t1   m1 = m1  l1 = l1  l2 = l2  a1 = a1  a2 = a2  r1 = r1  r2 = r2  v1 = v1
  Intents = {t1}
  Attempts = {}
  Retries = {}
  Media = {v1}
  BackendOf <- TusBackend
  MediaOf <- SameMedia
  SizeOf <- UnitSize
  IndexAfter = {}
  Quota = 1
  LocalQuota = 1
  LateCreationStates <- NormalLate
  MaxCrashes = 1
INVARIANTS TypeOK RecordValid ContentKept
PROPERTIES KeepsLifecycle Settles BytesReleased
CHECK_DEADLOCK FALSE
