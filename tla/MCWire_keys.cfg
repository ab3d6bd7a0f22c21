CONSTANTS
  a = a
  b = b
  Kernel = Kernel
  UTC = UTC
  Observed = Observed
  Inferred = Inferred
  Available = Available
  Withdrawn = Withdrawn
  Malformed = Malformed
  Fraction = Fraction
  Absent = Absent
  IdRank <- Rank
  MaxUint16 = 2
  Lifetime = 0
  Counts <- HopCounts
  Documents <- OneFactTwice
  Counters <- OneDigit
  MaxEdits = 2
SPECIFICATION Spec
CHECK_DEADLOCK FALSE
INVARIANT UnrelatedMembersHideNoKey
