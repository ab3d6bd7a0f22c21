---------------------------- MODULE SnapshotView -----------------------------
(***************************************************************************)
(* Reading a snapshot at an instant: EvaluateSnapshot                      *)
(* (evaluation_selection.go) as a function of a snapshot and a context     *)
(* [wall, mono].  Of the snapshot it needs                                 *)
(*                                                                         *)
(*   at          when it was published, [wall, mono]                       *)
(*   revision    its semantic revision, which stands for its identity      *)
(*   candidates  the current fact candidates                               *)
(*   retained    the retained observations, [candidate, ...]               *)
(***************************************************************************)
EXTENDS Freshness, CandidateGraph

\* Mutant: readings of different boots are compared as if they were exact.
NotEarlierByReading(then, c) ==
    IF then.mono.epoch = c.mono.epoch THEN c.mono.ns >= then.mono.ns
    ELSE then.wall.clock = c.wall.clock => c.wall.ns >= then.wall.ns

\* contextNotEarlierThanSnapshot, earlierComparableWall: a context that is
\* provably before the snapshot is refused.
NotEarlier(then, c) ==
    IF then.mono.epoch = c.mono.epoch THEN c.mono.ns >= then.mono.ns
    ELSE then.wall.clock = c.wall.clock =>
            /\ then.wall.unc + c.wall.unc <= MaxUint64
            /\ c.wall.ns - then.wall.ns + (then.wall.unc + c.wall.unc) >= 0

Age(r, c) == EvaluateFreshness(r.times, r.policy, c)

\* The recursive evaluation of a derivation: a fact is as bad as the worst of
\* everything it rests on.
FactFreshness(s, id, c) ==
    LET ages == {Age(s.candidates[d], c) : d \in {id} \cup Dependencies(s.candidates, id)}
    IN  CHOOSE f \in ages : \A g \in ages : CombineFreshness(f, g) = f

EvaluationErrors(s, c) ==
    Flag(~NotEarlier(s.at, c), "invalid_time")
    \cup Flag(\/ \E id \in DOMAIN s.candidates : Age(s.candidates[id], c) = "invalid_time"
              \/ \E rid \in DOMAIN s.retained : Age(s.retained[rid].candidate, c) = "invalid_time",
              "invalid_time")

\* The view names its snapshot and carries its own digest; here the view itself
\* stands for the digest.  Candidates are published as available.
View(s, c) ==
    [snapshot |-> s.revision,
     context  |-> c,
     facts    |-> [id \in DOMAIN s.candidates |->
                     LET f == FactFreshness(s, id, c)
                     IN  [revision     |-> s.candidates[id].revision,
                          freshness    |-> f,
                          availability |-> EffectiveAvailability("available", f)]],
     retained |-> [rid \in {r \in DOMAIN s.retained : Age(s.retained[r].candidate, c) # "expired"}
                     |-> Age(s.retained[rid].candidate, c)]]
=============================================================================
