CONSTANTS
  MaxUint64 = 12
  UTC = "utc"
  MaxNodes = 4
  MaxDepth = 3
  MaxPaths = 2
  Source = {s1}
  Epoch = {e1}
  Generation = {1, 2}
  Binding = {1, 2}
  Service = {1, 2}
  Capability = {1, 2}
  Candidate = {"c1", "c2"}
  FactKey = {k1, k2}
  Value = {x, y}
  Profile = {f1}
  Evidence = {w1}
  Resource = {n1}
  Digest = {d1}
  TimePoint <- AnyTime
  MonotonicPoint <- AnyMono
  Policy <- Policies
  Limit <- WideLimits
  MaxEvidence = 2
  Never = Never
  Caller = {x1, x2}
  MaxOperations = 1
  Promoted = {x, y}
  Good = {x, y}
  OwnedFacts = {k1}
  None = None
  ClockStart <- TwoClocks
  KernelClock = "site"
  OwnerClocks = {"site", "field"}
  Reading <- UTCErrors
  MaxNow = 3
  MaxCommits = 3
  IdempotencyKey = {i1, i2}
SPECIFICATION MCSpec
INVARIANT AnswersAgree
INVARIANT RejectedIsNeverRun
INVARIANT GuardsCoverTheRoute
INVARIANT OperationsCanBeClosed
PROPERTY OutcomesAreFinal
PROPERTY AppliedWasSeen
PROPERTY AdmissionsAreJustified
SYMMETRY Symmetry
