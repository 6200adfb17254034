SPECIFICATION Spec
CONSTANTS
  None = None
  t1 = t1   m1 = m1  l1 = l1  l2 = l2  a1 = a1  a2 = a2  r1 = r1  r2 = r2  v1 = v1
  Intents = {m1, l1}
  Attempts = {a1, a2}
  Retries = {}
  Media = {v1}
  BackendOf <- NativeBackend
  MediaOf <- SameMedia
  SizeOf <- NativeSize
  IndexAfter = {}
  Quota = 2
  LocalQuota = 3
  LateCreationStates <- NormalLate
  MaxCrashes = 1
INVARIANTS ContentKept QuotaExact
PROPERTIES KeepsLifecycle
SYMMETRY Bodies
CHECK_DEADLOCK FALSE
