CONSTANTS
  None = None
  c1 = c1
  c2 = c2
  k1 = k1
  k2 = k2
  p1 = p1
  MaxUint64 = 7
  UTC = "utc"
  Local = "local"
  LocalReadings = {0, 4}
  MaxNodes = 4
  MaxDepth = 3
  MaxPaths = 2
  Candidate = {c1, c2}
  FactKey = {k1}
  Policy <- Measured
  PolicyID = {}
  MaxNow = 4
  MaxUnc = 1
  MaxBoots = 2
  MaxCommits = 3
SPECIFICATION MCSpec
INVARIANT AgesAreTrue
INVARIANT HonestReadersAreAnswered
INVARIANT SelectionsAreBound
INVARIANT WalkIsExact
PROPERTY HistoryLastsItsTerm
