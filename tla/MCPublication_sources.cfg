CONSTANTS
  MaxUint64 = 4
  UTC = "utc"
  MaxNodes = 4
  MaxDepth = 3
  MaxPaths = 2
  Source = {s1, s2}
  Epoch = {e1, e2}
  Generation = {1, 2}
  Binding = {b1, b2}
  Service = {v1}
  Capability = {p1}
  Candidate = {c1}
  FactKey = {k1}
  Value = {x}
  Profile = {f1}
  Evidence = {w1}
  Resource = {n1}
  Digest = {d1, d2}
  TimePoint <- Walls
  MonotonicPoint <- Monos
  Policy <- Policies
  Limit <- WideLimits
  MaxEvidence = 2
  Never = Never
  Instant <- Restart
  Scenes <- SourceScenes
SPECIFICATION MCSpec
PROPERTY SourcesAreIsolated
PROPERTY ImplementsAuthority
PROPERTY HistoryIsImmutable
SYMMETRY Symmetry
