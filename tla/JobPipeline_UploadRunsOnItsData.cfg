SPECIFICATION Spec
CONSTANTS
  r1 = r1
  r2 = r2
  r3 = r3
  c1 = c1
  t1 = t1
  t2 = t2
  t3 = t3
  Requests = {r1, r2, r3}
  Scenarios <- MCScenarios
  Campaigns = {c1}
  NoCampaign = NoCampaign
  Threads = {t1, t2, t3}
  NoThread = NoThread
  JobIds = {1, 2, 3, 4}
  Concurrency <- MCConcurrency
  MaxCrashes = 1
INVARIANT UploadRunsOnItsData
CHECK_DEADLOCK FALSE
