\* Snapshot store, corpus sale, corpus audit, arm relay and station, one at a time.
SPECIFICATION FairSpec
CONSTANTS
  Parts = {"store", "sale", "audit", "arm", "station"}
  run1 = run1
  Callers = {c1, c2}
  Statements = {run1, hit, list}
  Writes = {run1, hit}
  Run <- MCRun
  Select <- MCSelect
  Migrate <- MCMigrate
  Size <- MCSize
  Images <- MCImages
  Rows <- MCRows
  EmptyImage <- MCEmptyImage
  OldImage <- MCOldImage
  HasOld = TRUE
  NoSql = NoSql
  NoRows = NoRows
  MAX_ATTEMPTS = 2
  MAX_BYTES = 2
  MaxVersion = 3
  Payments = {pay1, pay2}
  pay1 = pay1
  pay2 = pay2
  pull1 = pull1
  pull3 = pull3
  Pulls = {pull1, pull2, pull3}
  Instances = {first, second}
  first = first
  second = second
  Instance <- MCInstance
  Issues = {issue1}
  NoPayment = NoPayment
  SaleFaults = TRUE
  ep1 = ep1
  Episodes = {ep1, ep2}
  Rank <- MCRank
  Losable = {ep1}
  CommitLimit = 2
  ServeLimit = 2
  Passes = {k1, k2}
  Steady = k1
  MaxCommits = 1
  MaxMisreads = 1
  Pages = {page1}
  MaxPoses = 2
  MaxLines = 2
  mug = mug
  Scenes = {mug}
  NoScene = NoScene
  MaxRuns = 2
  MaxSends = 2
  MaxLoads = 2
INVARIANTS BusyMeansOthersWrote LockKeepsSalesApart AlteredIsTrue ArmedIsKnown MeasuredIsKept CardTellsOfItsRun
PROPERTIES ImplementsAtomicStore ImplementsSaleBook PullsEnd AuditComesRight ArmsAtHome QuietEndsInStop
CHECK_DEADLOCK FALSE
