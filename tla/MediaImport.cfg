SPECIFICATION FairSpec
CONSTANTS
  None = None  i1 = i1  i2 = i2  c1 = c1  c2 = c2  mp4 = mp4  mov = mov  r1 = r1
  Importers = {i1, i2}
  Contents = {c1, c2}
  Labels = {mp4, mov}
  Requests = {r1}
  MaxImports = 2
  MaxFaults = 2
  MaxCrashes = 1
  MaxDamages = 1
INVARIANTS TypeOK ReadyStored KeyBinds CompletedReady NoLitter
PROPERTIES ReadyForever ImportsReturn
CHECK_DEADLOCK FALSE
