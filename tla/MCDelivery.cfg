CONSTANTS
  MaxUint64 = 8
  UTC = "utc"
  MaxNodes = 4
  MaxDepth = 3
  MaxPaths = 2
  Source = {"s1", "s2"}
  Epoch = {"e1", "e2"}
  Generation = {1, 2}
  Binding = {"d1", "d2", "d3", "d4"}
  Service = {}
  Capability = {}
  Candidate = {"s1", "s2"}
  FactKey = {k1}
  Value <- Observations
  Profile = {f1}
  Evidence = {w1}
  Resource = {n1}
  Digest <- Digests
  TimePoint <- Walls
  MonotonicPoint <- Monos
  Policy <- Policies
  Limit <- WideLimits
  MaxEvidence = 1
  Never = Never
  Driver = {"d1", "d2", "d3", "d4"}
  Identity <- Identities
  NativeObject <- Objects
  Reading <- Readings
  Jobs = 2
  Workload <- Workloads
  Now <- Point
  Proof = w1
SPECIFICATION DeliverySpec
CHECK_DEADLOCK FALSE
INVARIANT ExactlyOnce
PROPERTY EveryDriverSettles
