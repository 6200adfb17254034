SPECIFICATION FairSpec
CONSTANTS
  None = None  j1 = j1  j2 = j2  j3 = j3  j4 = j4
  snippet = snippet  query = query  clip = clip  cpu = cpu  gpu = gpu
  Ids = {j1, j2, j3, j4}
  Submissions <- MCSubmissions
  ForkIds <- MCForkIds
  Requests = {snippet, query}
  Imports = {}
  Queues = {cpu, gpu}
  Keys = {clip}
  Deliveries = {query}
  QueueOf <- MCQueueOf
  KeyOf <- MCKeyOf
  RetryIds <- MCRetryIds
  MaxCalls = 3
  MaxAttempts = 2
  MaxTroubles = 2
  Frame = 2  Tenth = 3  Second = 4
INVARIANTS TypeOK AnswersAgree ResultsStored OneArtifact NoOrphans
PROPERTY JobsEnd
CHECK_DEADLOCK FALSE
