SPECIFICATION FairSpec
CONSTANTS
  None = None  f1 = f1  f2 = f2  cpu = cpu  cuda = cuda
  Clients = {f1, f2}
  Profiles = {cpu, cuda}
  ProfileOf <- TwoProfiles
  MaxStarts = 3
  MaxCalls = 3
  MaxCrashes = 1
  MaxDeaths = 1
INVARIANTS TypeOK OneWorker ReadyHonest StopStops FewWorkers
PROPERTIES CallsReturn
CHECK_DEADLOCK FALSE
