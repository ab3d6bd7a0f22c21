CONSTANTS
  MaxUint64 = 5
  UTC = "utc"
  MaxNodes = 2
  MaxDepth = 3
  MaxPaths = 2
  Source = {s1}
  Epoch = {e1, e2}
  Generation = {1, 2}
  Binding = {b1, b2}
  Service = {v1}
  Capability = {p1}
  Candidate = {c1, c2}
  FactKey = {k1}
  Value = {x}
  Profile = {f1}
  Evidence = {w1, w2}
  Resource = {n1}
  Digest = {d1, d2}
  TimePoint <- Walls
  MonotonicPoint <- Monos
  Policy <- Policies
  Limit <- NarrowLimits
  MaxEvidence = 1
  Never = Never
  Instant <- Later
  Scenes <- ClosingScenes
SPECIFICATION MCSpec
INVARIANT TypeOK
INVARIANT PathsCanBeClosed
PROPERTY InferencesRestOnWhatTheySaw
SYMMETRY Symmetry
