------------------------------ MODULE Freshness ------------------------------
(***************************************************************************)
(* How old an observation is: the pure part of evaluation_selection.go.    *)
(* Ticks are integers; a result wider than 64 bits is invalid_time, as in  *)
(* the code, with MaxUint64 standing for 2^64 - 1.                         *)
(*                                                                         *)
(*   wall point       [clock, ns, unc]    TimePoint                        *)
(*   monotonic point  [epoch, ns]         MonotonicPoint                   *)
(*   times            [receivedAt, receipt]                                *)
(*   policy           [fresh, retain, maxUnc]                              *)
(***************************************************************************)
EXTENDS Integers

CONSTANTS MaxUint64,   \* the largest value of a Uint64 member
          UTC          \* the only wall clock whose readings are comparable across restarts

ASSUME MaxUint64Assumption == MaxUint64 \in Nat \ {0}

Freshnesses == {"fresh", "stale", "unknown", "expired"}

\* classifyElapsed: the half-open intervals [0, fresh) and [fresh, retain).
ClassifyElapsed(elapsed, policy) ==
    IF elapsed < 0 \/ elapsed > MaxUint64 THEN "invalid_time"
    ELSE IF elapsed < policy.fresh THEN "fresh"
    ELSE IF elapsed < policy.retain THEN "stale"
    ELSE "expired"

\* The true age lies in [WallLower, WallUpper]: the wall difference widened on
\* both sides by the two readings' uncertainties, and cut off at zero.
WallUpper(received, evaluated) ==
    evaluated.ns - received.ns + (received.unc + evaluated.unc)

WallLower(received, evaluated) ==
    LET lower == evaluated.ns - received.ns - (received.unc + evaluated.unc)
    IN  IF lower < 0 THEN 0 ELSE lower

\* Mutant: wall readings are taken as exact.
CrossEpochByReading(received, policy, evaluated) ==
    LET delta == evaluated.ns - received.ns
    IN  IF received.clock # UTC \/ evaluated.clock # UTC
           \/ received.unc + evaluated.unc > policy.maxUnc THEN "unknown"
        ELSE ClassifyElapsed(IF delta < 0 THEN 0 ELSE delta, policy)

\* evaluateCrossEpoch: the observation was received under another clock epoch,
\* so only wall time can date it, and only when both readings are UTC.
CrossEpochFreshness(received, policy, evaluated) ==
    LET unc   == received.unc + evaluated.unc
        upper == WallUpper(received, evaluated)
        lower == WallLower(received, evaluated)
    IN  IF received.clock # UTC \/ evaluated.clock # UTC THEN "unknown"
        ELSE IF \/ unc > MaxUint64
                \/ upper < 0 \/ upper > MaxUint64
                \/ lower > MaxUint64 THEN "invalid_time"
        ELSE IF unc > policy.maxUnc THEN "unknown"
        ELSE IF upper < policy.fresh THEN "fresh"
        ELSE IF lower >= policy.fresh /\ upper < policy.retain THEN "stale"
        ELSE IF lower >= policy.retain THEN "expired"
        ELSE "unknown"

\* evaluateFreshness at the context [wall, mono].
EvaluateFreshness(times, policy, context) ==
    IF times.receipt.epoch = context.mono.epoch
    THEN ClassifyElapsed(context.mono.ns - times.receipt.ns, policy)
    ELSE CrossEpochFreshness(times.receivedAt, policy, context.wall)

\* combineFreshness: an inferred fact is as bad as its worst input.
FreshnessOrder == [fresh |-> 0, stale |-> 1, unknown |-> 2, expired |-> 3]

CombineFreshness(left, right) ==
    IF FreshnessOrder[right] > FreshnessOrder[left] THEN right ELSE left

\* effectiveAvailability: age can only take availability away.
EffectiveAvailability(stored, freshness) ==
    CASE stored = "withdrawn" \/ freshness = "fresh" -> stored
      [] stored # "withdrawn" /\ freshness = "expired" -> "unavailable"
      [] stored = "available" /\ freshness \in {"stale", "unknown"} -> "degraded"
      [] OTHER -> stored
=============================================================================
