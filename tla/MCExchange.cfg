CONSTANTS
  None = None
  c1 = c1
  c2 = c2
  r1 = r1
  r2 = r2
  r3 = r3
  MaxUint64 = 8
  UTC = "utc"
  MaxNodes = 4
  MaxDepth = 3
  MaxPaths = 2
  Kernel = {1, 2}
  Origin = 1
  Candidate = {c1, c2}
  FactKey = {1, 3, 4, 5}
  PackOf <- Owner
  Shipped = {"pv", "thermal"}
  Metadata <- ShippedMetadata
  ServicePack <- ServiceOwner
  Accepted <- PackChecks
  Capabilities <- PVCapabilities
  Moments <- Twice
  ReadAt <- Later
  Policy <- Judged
  Items <- ManyItems
  Outcomes <- OutcomesUsed
  MaxItems = 2
  MaxCommits = 2
  UTCClock = UTCClock
  OtherClock = OtherClock
  Target = {r1, r2}
  HopLimit = 2
  Budgets <- TimeBudgets
  Lifetime = 3
  Lives <- TimeLives
  Uncertainty = 1
  MaxTime = 6
  MaxIssues = 1
SPECIFICATION MCSpec
CHECK_DEADLOCK FALSE
INVARIANT ReportsAreTrue
INVARIANT AvailabilityIsTrue
INVARIANT EverySnapshotIsReadable
INVARIANT NobodyActsTwiceOrLate
PROPERTY CommandsComeToRest
