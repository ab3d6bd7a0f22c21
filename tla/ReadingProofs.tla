---------------------------- MODULE ReadingProofs ----------------------------
(***************************************************************************)
(* Facts about derivations and ages that hold of any snapshot read at any  *)
(* instant: how far a derivation reaches, and what the freshness of a      *)
(* derived fact says of everything it rests on.                            *)
(***************************************************************************)
EXTENDS SnapshotView, FiniteSetTheorems, WellFoundedInduction, TLAPS

-----------------------------------------------------------------------------
(* How far a derivation reaches. *)

\* A nonempty set of natural numbers has a least element: what the library's
\* induction theorems give without an operator to instantiate.
LEMMA LeastNumber ==
    ASSUME NEW T, T \subseteq Nat, T # {}
    PROVE  \E m \in T : \A n \in T : m <= n
  <1> DEFINE R == {ss \in Nat \X Nat : ss[1] < ss[2]}
  <1>1. IsWellFoundedOn(R, Nat)
    BY NatLessThanWellFounded DEF OpToRel
  <1> HIDE DEF R
  <1>2. PICK m \in T : \A n \in T : ~(<<n, m>> \in R)
    BY <1>1, WFMin
  <1>3. \A n \in T : ~(n < m)
    BY <1>2 DEF R
  <1> QED
    BY <1>3

\* Dependencies is what its recursion says, level by level.
LEMMA DependencyLevels ==
    ASSUME NEW cands, IsFiniteSet(DOMAIN cands), NEW id
    PROVE  \E reach :
              /\ Dependencies(cands, id) = reach[Cardinality(DOMAIN cands)]
              /\ reach[0] = Direct(cands, id)
              /\ \A n \in 1..Cardinality(DOMAIN cands) :
                    reach[n] = reach[n - 1] \cup UNION {Direct(cands, d) : d \in reach[n - 1]}
  <1> DEFINE N == Cardinality(DOMAIN cands)
             Step(g, n) == IF n = 0 THEN Direct(cands, id)
                           ELSE g[n - 1] \cup UNION {Direct(cands, d) : d \in g[n - 1]}
             reach == CHOOSE g : g = [n \in 0..N |-> Step(g, n)]
             Up(k) == \E g : g = [n \in 0..k |-> Step(g, n)]
  <1>1. N \in Nat
    BY FS_CardinalityType
  <1>2. Dependencies(cands, id) = reach[N]
    BY DEF Dependencies
  <1> HIDE DEF N
  <1>3. Up(0)
    <2> DEFINE g == [n \in 0..0 |-> Direct(cands, id)]
    <2>1. g = [n \in 0..0 |-> Step(g, n)]
      OBVIOUS
    <2> QED
      BY <2>1
  <1>4. ASSUME NEW k \in Nat, Up(k) PROVE Up(k + 1)
    <2>1. PICK g : g = [n \in 0..k |-> Step(g, n)]
      BY <1>4
    <2> DEFINE h == [n \in 0..(k + 1) |-> Step(g, n)]
    <2>2. \A n \in 0..(k + 1) : n # 0 => n - 1 \in 0..k
      OBVIOUS
    <2>3. \A n \in 0..k : h[n] = g[n]
      <3> HIDE DEF Step
      <3> QED
        BY <2>1
    <2>4. \A n \in 0..(k + 1) : Step(h, n) = Step(g, n)
      <3> HIDE DEF h
      <3> TAKE n \in 0..(k + 1)
      <3>1. CASE n = 0
        BY <3>1
      <3>2. CASE n # 0
        <4>1. h[n - 1] = g[n - 1]
          BY <2>2, <2>3, <3>2
        <4> QED
          BY <3>2, <4>1
      <3> QED
        BY <3>1, <3>2
    <2> HIDE DEF Step
    <2>5. h = [n \in 0..(k + 1) |-> Step(h, n)]
      BY <2>4
    <2> QED
      BY <2>5
  <1>5. Up(N)
    <2> HIDE DEF Up
    <2> SUFFICES ASSUME ~Up(N) PROVE FALSE
      OBVIOUS
    <2> DEFINE T == {k \in Nat : ~Up(k)}
    <2>1. T \subseteq Nat /\ T # {}
      BY <1>1
    <2> HIDE DEF T
    <2>2. PICK m \in T : \A n \in T : m <= n
      BY <2>1, LeastNumber
    <2>3. m \in Nat /\ ~Up(m) /\ m # 0
      BY <1>3 DEF T
    <2>4. m - 1 \in Nat /\ m - 1 \notin T
      BY <2>2, <2>3
    <2>5. Up(m - 1)
      BY <2>4 DEF T
    <2>6. Up((m - 1) + 1)
      BY <1>4, <2>4, <2>5
    <2> QED
      BY <2>3, <2>6
  <1>6. reach = [n \in 0..N |-> Step(reach, n)]
    <2> HIDE DEF Step
    <2> QED
      BY <1>5
  <1> HIDE DEF reach
  <1>7. \A n \in 0..N : reach[n] = Step(reach, n)
    <2> HIDE DEF Step
    <2> QED
      BY <1>6
  <1>8. reach[0] = Direct(cands, id)
    <2>1. 0 \in 0..N
      BY <1>1
    <2>2. reach[0] = Step(reach, 0)
      <3> HIDE DEF Step
      <3> QED
        BY <1>7, <2>1
    <2> QED
      BY <2>2
  <1>9. \A n \in 1..N : reach[n] = reach[n - 1] \cup UNION {Direct(cands, d) : d \in reach[n - 1]}
    <2> TAKE n \in 1..N
    <2>1. n \in 0..N /\ n # 0
      BY <1>1
    <2> QED
      BY <1>7, <2>1
  <1>10. \E g : /\ Dependencies(cands, id) = g[N]
              /\ g[0] = Direct(cands, id)
              /\ \A n \in 1..N : g[n] = g[n - 1] \cup UNION {Direct(cands, d) : d \in g[n - 1]}
    BY <1>2, <1>8, <1>9, Zenon
  <1> QED
    BY <1>10, Zenon DEF N

\* Dependencies stay within every set that contains the direct inputs and those
\* of its own members.
LEMMA DependenciesWithin ==
    ASSUME NEW cands, IsFiniteSet(DOMAIN cands), NEW id, NEW S,
           Direct(cands, id) \subseteq S, \A d \in S : Direct(cands, d) \subseteq S
    PROVE  Dependencies(cands, id) \subseteq S
  <1> DEFINE N == Cardinality(DOMAIN cands)
  <1>1. N \in Nat
    BY FS_CardinalityType
  <1>2. PICK reach :
          /\ Dependencies(cands, id) = reach[N]
          /\ reach[0] = Direct(cands, id)
          /\ \A n \in 1..N : reach[n] = reach[n - 1] \cup UNION {Direct(cands, d) : d \in reach[n - 1]}
    BY DependencyLevels
  <1> HIDE DEF N
  <1> SUFFICES ASSUME ~(reach[N] \subseteq S) PROVE FALSE
    BY <1>2
  <1> DEFINE T == {n \in 0..N : ~(reach[n] \subseteq S)}
  <1>3. T \subseteq Nat /\ T # {}
    BY <1>1
  <1>4. PICK m \in T : \A n \in T : m <= n
    <2> HIDE DEF T
    <2> QED
      BY <1>3, LeastNumber
  <1>5. m \in 1..N
    BY <1>1, <1>2
  <1>6. m - 1 \in 0..N /\ ~(m <= m - 1)
    BY <1>1, <1>5
  <1>7. reach[m - 1] \subseteq S
    BY <1>4, <1>6
  <1>8. reach[m] = reach[m - 1] \cup UNION {Direct(cands, d) : d \in reach[m - 1]}
    BY <1>2, <1>5
  <1>9. reach[m] \subseteq S
    BY <1>7, <1>8
  <1> QED
    BY <1>9

\* An observation rests on no other candidate.
LEMMA ObservedStandsAlone ==
    ASSUME NEW cands, IsFiniteSet(DOMAIN cands), NEW id, Observed(cands[id])
    PROVE  Dependencies(cands, id) = {}
  <1>1. Direct(cands, id) = {}
    BY DEF Direct, Inputs
  <1> QED
    BY <1>1, DependenciesWithin

\* No derivation reaches beyond the snapshot it belongs to.
LEMMA DependenciesPresent ==
    ASSUME NEW cands, IsFiniteSet(DOMAIN cands), NEW id
    PROVE  Dependencies(cands, id) \subseteq DOMAIN cands
  <1>1. \A d : Direct(cands, d) \subseteq DOMAIN cands
    BY DEF Direct, Present
  <1> QED
    BY <1>1, DependenciesWithin

-----------------------------------------------------------------------------
(* How old a fact is said to be. *)

\* An age is a freshness, unless it cannot be told.
LEMMA AgesAreKnown ==
    ASSUME NEW r, NEW c
    PROVE  Age(r, c) \in Freshnesses \cup {"invalid_time"}
  <1>1. \A elapsed : ClassifyElapsed(elapsed, r.policy) \in Freshnesses \cup {"invalid_time"}
    BY DEF ClassifyElapsed, Freshnesses
  <1>2. CrossEpochFreshness(r.times.receivedAt, r.policy, c.wall) \in Freshnesses \cup {"invalid_time"}
    BY DEF CrossEpochFreshness, Freshnesses
  <1> QED
    BY <1>1, <1>2 DEF Age, EvaluateFreshness

\* Of the ages of a derivation one is the worst.
LEMMA WorstAge ==
    ASSUME NEW ages, ages \subseteq Freshnesses, ages # {}
    PROVE  \E f \in ages : \A g \in ages : CombineFreshness(f, g) = f
  <1>1. \A g \in ages : g = "fresh" \/ g = "stale" \/ g = "unknown" \/ g = "expired"
    BY DEF Freshnesses
  <1>2. CASE "expired" \in ages
    BY <1>1, <1>2 DEF CombineFreshness, FreshnessOrder
  <1>3. CASE "expired" \notin ages /\ "unknown" \in ages
    BY <1>1, <1>3 DEF CombineFreshness, FreshnessOrder
  <1>4. CASE "expired" \notin ages /\ "unknown" \notin ages /\ "stale" \in ages
    BY <1>1, <1>4 DEF CombineFreshness, FreshnessOrder
  <1>5. CASE "expired" \notin ages /\ "unknown" \notin ages /\ "stale" \notin ages
    BY <1>1, <1>5 DEF CombineFreshness, FreshnessOrder
  <1> QED
    BY <1>2, <1>3, <1>4, <1>5

\* A fact that can be read is as bad as something it rests on, and nothing it
\* rests on is worse.
LEMMA FactIsItsWorst ==
    ASSUME NEW s, NEW c, IsFiniteSet(DOMAIN s.candidates), NEW id \in DOMAIN s.candidates,
           EvaluationErrors(s, c) = {}
    PROVE  /\ \E d \in {id} \cup Dependencies(s.candidates, id) :
                 FactFreshness(s, id, c) = Age(s.candidates[d], c)
           /\ FactFreshness(s, id, c) = "fresh" =>
                 \A d \in {id} \cup Dependencies(s.candidates, id) : Age(s.candidates[d], c) = "fresh"
  <1> DEFINE Rests == {id} \cup Dependencies(s.candidates, id)
             ages  == {Age(s.candidates[d], c) : d \in Rests}
             worst == CHOOSE f \in ages : \A g \in ages : CombineFreshness(f, g) = f
  <1>1. Rests \subseteq DOMAIN s.candidates /\ id \in Rests
    BY DependenciesPresent
  <1>2. \A d \in DOMAIN s.candidates : Age(s.candidates[d], c) # "invalid_time"
    BY Zenon DEF EvaluationErrors, Flag
  <1>3. FactFreshness(s, id, c) = worst
    BY DEF FactFreshness
  <1> HIDE DEF Rests
  <1>4. \A d \in Rests : Age(s.candidates[d], c) \in Freshnesses
    BY <1>1, <1>2, AgesAreKnown
  <1>5. ages \subseteq Freshnesses /\ ages # {}
    BY <1>1, <1>4
  <1>6. \A d \in Rests : Age(s.candidates[d], c) \in ages
    OBVIOUS
  <1>7. \A f \in ages : \E d \in Rests : f = Age(s.candidates[d], c)
    OBVIOUS
  <1> HIDE DEF ages
  <1>8. worst \in ages /\ \A g \in ages : CombineFreshness(worst, g) = worst
    BY <1>5, WorstAge
  <1> HIDE DEF worst
  <1>9. \A g \in Freshnesses : CombineFreshness("fresh", g) = "fresh" => g = "fresh"
    BY DEF CombineFreshness, FreshnessOrder, Freshnesses
  <1>10. worst = "fresh" => \A d \in Rests : Age(s.candidates[d], c) = "fresh"
    BY <1>5, <1>6, <1>8, <1>9
  <1> QED
    BY <1>3, <1>7, <1>8, <1>10 DEF Rests

-----------------------------------------------------------------------------
(* What is left when a cascade has run. *)

\* What a candidate rests on directly is a dependency.
LEMMA DependenciesReach ==
    ASSUME NEW cands, IsFiniteSet(DOMAIN cands), NEW id
    PROVE  Direct(cands, id) \subseteq Dependencies(cands, id)
  <1> DEFINE N == Cardinality(DOMAIN cands)
  <1>1. N \in Nat
    BY FS_CardinalityType
  <1>2. PICK reach :
          /\ Dependencies(cands, id) = reach[N]
          /\ reach[0] = Direct(cands, id)
          /\ \A n \in 1..N : reach[n] = reach[n - 1] \cup UNION {Direct(cands, x) : x \in reach[n - 1]}
    BY DependencyLevels
  <1> DEFINE has(n) == Direct(cands, id) \subseteq reach[n]
  <1> SUFFICES ASSUME ~has(N) PROVE FALSE
    BY <1>2
  <1> DEFINE T == {n \in 0..N : ~has(n)}
  <1>3. T \subseteq Nat /\ T # {}
    BY <1>1
  <1> HIDE DEF T
  <1>4. PICK n \in T : \A i \in T : n <= i
    BY <1>3, LeastNumber
  <1>5. n \in 0..N /\ ~has(n) /\ n # 0
    BY <1>2, <1>4 DEF T
  <1>6. n \in 1..N /\ n - 1 \in 0..N /\ n - 1 \notin T
    BY <1>1, <1>4, <1>5
  <1>7. has(n - 1) /\ reach[n - 1] \subseteq reach[n]
    BY <1>2, <1>6 DEF T
  <1> QED
    BY <1>5, <1>7

\* What rests on a dependency is a dependency: the recursion of Dependencies has
\* as many levels as there are candidates, and each but the last adds one.
LEMMA DependenciesAreClosed ==
    ASSUME NEW cands, IsFiniteSet(DOMAIN cands), NEW id, NEW d \in Dependencies(cands, id)
    PROVE  Direct(cands, d) \subseteq Dependencies(cands, id)
  <1> DEFINE N == Cardinality(DOMAIN cands)
  <1>1. N \in Nat
    BY FS_CardinalityType
  <1>2. PICK reach :
          /\ Dependencies(cands, id) = reach[N]
          /\ reach[0] = Direct(cands, id)
          /\ \A n \in 1..N : reach[n] = reach[n - 1] \cup UNION {Direct(cands, x) : x \in reach[n - 1]}
    BY DependencyLevels
  <1>3. \A x : Direct(cands, x) \subseteq DOMAIN cands
    BY DEF Direct, Present
  <1>4. Dependencies(cands, id) \subseteq DOMAIN cands
    BY DependenciesPresent
  <1> DEFINE closed(n) == \A x \in reach[n] : Direct(cands, x) \subseteq reach[n]
  <1>5. SUFFICES ASSUME ~closed(N) PROVE FALSE
    BY <1>2
  <1> DEFINE grows(n) == \A i \in 0..n : reach[i] \subseteq reach[n]
  <1>6. \A n \in 0..N : grows(n)
    <2> SUFFICES ASSUME ~(\A n \in 0..N : grows(n)) PROVE FALSE
      OBVIOUS
    <2> DEFINE T == {n \in 0..N : ~grows(n)}
    <2>1. T \subseteq Nat /\ T # {}
      BY <1>1
    <2> HIDE DEF T
    <2>2. PICK n \in T : \A i \in T : n <= i
      BY <2>1, LeastNumber
    <2>3. n \in 0..N /\ ~grows(n)
      BY <2>2 DEF T
    <2>4. n # 0
      BY <2>3
    <2>5. n - 1 \in 0..N /\ n - 1 \notin T
      BY <1>1, <2>2, <2>3, <2>4
    <2>6. grows(n - 1)
      BY <2>5 DEF T
    <2>7. reach[n - 1] \subseteq reach[n]
      BY <1>1, <1>2, <2>3, <2>4
    <2>8. \A i \in 0..n : i = n \/ i \in 0..(n - 1)
      BY <1>1, <2>3
    <2> QED
      BY <2>3, <2>6, <2>7, <2>8
  <1>7. ASSUME NEW n \in 0..N, closed(n) PROVE FALSE
    <2>1. reach[0] \subseteq reach[n] /\ reach[n] \subseteq reach[N]
      BY <1>1, <1>6
    <2>2. Dependencies(cands, id) \subseteq reach[n]
      BY <1>2, <1>7, <2>1, DependenciesWithin
    <2>3. reach[N] = reach[n]
      BY <1>2, <2>1, <2>2
    <2> QED
      BY <1>5, <1>7, <2>3
  <1> DEFINE many(n) == Cardinality(reach[n]) > n
  <1>8. \A n \in 0..N : IsFiniteSet(reach[n]) /\ Cardinality(reach[n]) \in Nat
    <2> TAKE n \in 0..N
    <2>1. reach[n] \subseteq DOMAIN cands
      BY <1>1, <1>2, <1>4, <1>6
    <2> QED
      BY <2>1, FS_Subset, FS_CardinalityType
  <1>9. many(0)
    <2>1. 0 \in 0..N
      BY <1>1
    <2>2. reach[0] # {}
      BY <1>7, <2>1
    <2>3. Cardinality(reach[0]) # 0
      BY <1>8, <2>1, <2>2, FS_EmptySet
    <2> QED
      BY <1>8, <2>1, <2>3
  <1>10. ASSUME NEW n \in 1..N, many(n - 1) PROVE many(n)
    <2>1. n - 1 \in 0..N /\ n \in 0..N /\ n \in Nat
      BY <1>1
    <2>2. reach[n] = reach[n - 1] \cup UNION {Direct(cands, x) : x \in reach[n - 1]}
      BY <1>2
    <2>3. PICK x \in reach[n - 1] : ~(Direct(cands, x) \subseteq reach[n - 1])
      BY <1>7, <2>1
    <2>4. PICK y \in Direct(cands, x) : y \notin reach[n - 1]
      BY <2>3
    <2>5. y \in reach[n] /\ reach[n - 1] \subseteq reach[n]
      BY <2>2, <2>3, <2>4
    <2>6. reach[n - 1] # reach[n]
      BY <2>4, <2>5
    <2>7. Cardinality(reach[n - 1]) < Cardinality(reach[n])
      BY <1>8, <2>1, <2>5, <2>6, FS_Subset
    <2> QED
      BY <1>8, <1>10, <2>1, <2>7
  <1>11. many(N)
    <2> SUFFICES ASSUME ~many(N) PROVE FALSE
      OBVIOUS
    <2> DEFINE T == {n \in 0..N : ~many(n)}
    <2>1. T \subseteq Nat /\ T # {}
      BY <1>1
    <2> HIDE DEF T
    <2>2. PICK n \in T : \A i \in T : n <= i
      BY <2>1, LeastNumber
    <2>3. n \in 0..N /\ ~many(n)
      BY <2>2 DEF T
    <2>4. n # 0
      BY <1>9, <2>3
    <2>5. n \in 1..N /\ n - 1 \in 0..N /\ n - 1 \notin T
      BY <1>1, <2>2, <2>3, <2>4
    <2>6. many(n - 1)
      BY <2>5 DEF T
    <2> HIDE DEF many
    <2> QED
      BY <1>10, <2>3, <2>5, <2>6
  <1>12. Cardinality(reach[N]) <= N
    BY <1>2, <1>4, FS_Subset
  <1> QED
    BY <1>1, <1>8, <1>11, <1>12

\* What resolves within depth steps rests on what resolves within one step less.
Resolves(cands, bnd, id, lower) ==
    /\ Observed(cands[id]) => PathErrors(cands[id], bnd) = {}
    /\ Cardinality(SourcePaths(cands[id])) <= MaxPaths
    /\ \A i \in Inputs(cands[id]) :
          /\ Present(cands, i)
          /\ i.cand \in lower
          /\ SourcePaths(cands[i.cand]) = i.paths

\* Resolved is what its recursion says, level by level.
LEMMA ResolvedLevels ==
    ASSUME NEW cands, NEW bnd, NEW depth \in Nat
    PROVE  /\ Resolved(cands, bnd, 0) = {}
           /\ Resolved(cands, bnd, depth + 1) =
                 {id \in DOMAIN cands : Resolves(cands, bnd, id, Resolved(cands, bnd, depth))}
  <1> DEFINE Step(g, n) == IF n = 0 THEN {}
                           ELSE {id \in DOMAIN cands : Resolves(cands, bnd, id, g[n - 1])}
             level(k) == CHOOSE g : g = [n \in 0..k |-> Step(g, n)]
             Up(k) == \E g : g = [n \in 0..k |-> Step(g, n)]
  <1>1. \A k : Resolved(cands, bnd, k) = level(k)[k]
    BY DEF Resolved, Resolves
  <1>2. Up(0)
    <2> DEFINE g == [n \in 0..0 |-> {}]
    <2>1. g = [n \in 0..0 |-> Step(g, n)]
      OBVIOUS
    <2> QED
      BY <2>1
  <1>3. ASSUME NEW k \in Nat, Up(k) PROVE Up(k + 1)
    <2>1. PICK g : g = [n \in 0..k |-> Step(g, n)]
      BY <1>3
    <2> DEFINE h == [n \in 0..(k + 1) |-> Step(g, n)]
    <2>2. \A n \in 0..(k + 1) : n # 0 => n - 1 \in 0..k
      OBVIOUS
    <2>3. \A n \in 0..k : h[n] = g[n]
      <3> HIDE DEF Step
      <3> QED
        BY <2>1
    <2>4. \A n \in 0..(k + 1) : Step(h, n) = Step(g, n)
      <3> HIDE DEF h
      <3> TAKE n \in 0..(k + 1)
      <3>1. CASE n = 0
        BY <3>1
      <3>2. CASE n # 0
        <4>1. h[n - 1] = g[n - 1]
          BY <2>2, <2>3, <3>2
        <4> QED
          BY <3>2, <4>1
      <3> QED
        BY <3>1, <3>2
    <2> HIDE DEF Step
    <2>5. h = [n \in 0..(k + 1) |-> Step(h, n)]
      BY <2>4
    <2> QED
      BY <2>5
  <1>4. \A k \in Nat : Up(k)
    <2> HIDE DEF Up
    <2> SUFFICES ASSUME ~(\A k \in Nat : Up(k)) PROVE FALSE
      OBVIOUS
    <2> DEFINE T == {k \in Nat : ~Up(k)}
    <2>1. T \subseteq Nat /\ T # {}
      OBVIOUS
    <2> HIDE DEF T
    <2>2. PICK k \in T : \A n \in T : k <= n
      BY <2>1, LeastNumber
    <2>3. k \in Nat /\ ~Up(k) /\ k # 0
      BY <1>2, <2>2 DEF T
    <2>4. k - 1 \in Nat /\ k - 1 \notin T
      BY <2>2, <2>3
    <2>5. Up(k - 1)
      BY <2>4 DEF T
    <2>6. Up((k - 1) + 1)
      BY <1>3, <2>4, <2>5
    <2> QED
      BY <2>3, <2>6
  <1>5. \A k \in Nat : level(k) = [n \in 0..k |-> Step(level(k), n)]
    <2> HIDE DEF Step
    <2> QED
      BY <1>4
  <1> HIDE DEF level
  <1>6. \A k \in Nat : \A n \in 0..k : level(k)[n] = Step(level(k), n)
    <2> HIDE DEF Step
    <2> TAKE k \in Nat
    <2> QED
      BY <1>5
  <1>7. level(0)[0] = {}
    <2>1. level(0)[0] = Step(level(0), 0)
      <3> HIDE DEF Step
      <3> QED
        BY <1>6
    <2> QED
      BY <2>1
  <1> DEFINE same(n) == level(depth + 1)[n] = level(depth)[n]
  <1>8. \A n \in 0..depth : same(n)
    <2> SUFFICES ASSUME ~(\A n \in 0..depth : same(n)) PROVE FALSE
      OBVIOUS
    <2> DEFINE T == {n \in 0..depth : ~same(n)}
    <2>1. T \subseteq Nat /\ T # {}
      OBVIOUS
    <2> HIDE DEF T
    <2>2. PICK n \in T : \A i \in T : n <= i
      BY <2>1, LeastNumber
    <2>3. n \in 0..depth /\ n \in 0..(depth + 1) /\ ~same(n)
      BY <2>2 DEF T
    <2>4. /\ level(depth)[n] = Step(level(depth), n)
          /\ level(depth + 1)[n] = Step(level(depth + 1), n)
      <3> HIDE DEF Step
      <3>1. depth + 1 \in Nat
        OBVIOUS
      <3> QED
        BY <1>6, <2>3, <3>1
    <2>5. CASE n = 0
      BY <2>3, <2>4, <2>5
    <2>6. CASE n # 0
      <3>1. n - 1 \in 0..depth /\ n - 1 \notin T
        BY <2>2, <2>3, <2>6
      <3>2. same(n - 1)
        BY <3>1 DEF T
      <3> QED
        BY <2>3, <2>4, <2>6, <3>2
    <2> QED
      BY <2>5, <2>6
  <1>9. level(depth + 1)[depth + 1] = {id \in DOMAIN cands : Resolves(cands, bnd, id, level(depth)[depth])}
    <2>1. depth + 1 \in Nat /\ depth + 1 \in 0..(depth + 1) /\ depth \in 0..depth /\ depth + 1 # 0
          /\ (depth + 1) - 1 = depth
      OBVIOUS
    <2>2. level(depth + 1)[depth + 1] = Step(level(depth + 1), depth + 1)
      <3> HIDE DEF Step
      <3> QED
        BY <1>6, <2>1
    <2>3. same(depth)
      BY <1>8, <2>1
    <2> QED
      BY <2>1, <2>2, <2>3
  <1> QED
    BY <1>1, <1>7, <1>9

\* A closed map closed again.  What stays rests on what stays, so it has the
\* dependencies, the paths and the depth it had.
LEMMA ClosedStaysClosed ==
    ASSUME NEW cands, IsFiniteSet(DOMAIN cands), NEW bnd, NEW later,
           \A id \in DOMAIN cands : Observed(cands[id]) =>
              PathErrors(cands[id], later) = PathErrors(cands[id], bnd)
    PROVE  \A id \in DOMAIN Closed(cands, {}, bnd) :
              NodeErrors(Closed(cands, {}, bnd), later, id) = {}
  <1> DEFINE D == {d \in DOMAIN cands : NodeErrors(cands, bnd, d) = {}}
             left == Closed(cands, {}, bnd)
  <1>1. left = [id \in D |-> cands[id]]
    BY DEF Closed
  <1>2. DOMAIN left = D /\ D \subseteq DOMAIN cands /\ \A id \in D : left[id] = cands[id]
    BY <1>1
  <1>3. IsFiniteSet(D)
    BY <1>2, FS_Subset
  <1>4. \A id \in D : \A d \in {id} \cup Dependencies(cands, id) : LocalErrors(cands, bnd, d) = {}
    BY DEF NodeErrors
  <1> HIDE DEF D, left
  <1>5. ASSUME NEW id \in D PROVE Dependencies(cands, id) \subseteq D
    <2> SUFFICES ASSUME NEW d \in Dependencies(cands, id) PROVE d \in D
      OBVIOUS
    <2>1. d \in DOMAIN cands
      BY DependenciesPresent
    <2>2. Dependencies(cands, d) \subseteq Dependencies(cands, id)
      BY DependenciesAreClosed, DependenciesWithin
    <2>3. NodeErrors(cands, bnd, d) = {}
      BY <1>4, <2>2 DEF NodeErrors
    <2> QED
      BY <2>1, <2>3 DEF D
  <1>6. ASSUME NEW id \in D, NEW i \in Inputs(cands[id])
        PROVE  Present(cands, i) /\ i.cand \in D
    <2>1. ~Observed(cands[id])
      BY DEF Inputs
    <2>2. LocalErrors(cands, bnd, id) = {}
      BY <1>4
    <2>3. {j \in Inputs(cands[id]) : Present(cands, j)} = Inputs(cands[id])
      BY <2>1, <2>2 DEF LocalErrors, Flag
    <2>4. Present(cands, i)
      BY <2>3
    <2>5. i.cand \in Direct(cands, id)
      BY <2>4 DEF Direct
    <2>6. Direct(cands, id) \subseteq Dependencies(cands, id)
      BY DependenciesReach
    <2> QED
      BY <1>5, <2>4, <2>5, <2>6
  <1>7. \A id \in D : \A i \in Inputs(cands[id]) : Present(left, i)
    BY <1>2, <1>6 DEF Present
  <1>8. \A id \in D : Direct(left, id) = Direct(cands, id)
    BY <1>2, <1>6, <1>7 DEF Direct
  <1>9. ASSUME NEW id \in D PROVE Dependencies(left, id) \subseteq Dependencies(cands, id)
    <2>1. Direct(cands, id) \subseteq Dependencies(cands, id)
      BY DependenciesReach
    <2>2. \A d \in Dependencies(cands, id) : Direct(left, d) \subseteq Dependencies(cands, id)
      BY <1>5, <1>8, DependenciesAreClosed
    <2> QED
      BY <1>2, <1>3, <1>8, <2>1, <2>2, DependenciesWithin
  <1> DEFINE same(n) == Resolved(left, later, n) = Resolved(cands, bnd, n) \cap D
  <1>10. \A n \in Nat : same(n)
    <2>1. same(0)
      BY ResolvedLevels
    <2>2. ASSUME NEW n \in Nat, same(n) PROVE same(n + 1)
      <3>1. Resolved(left, later, n + 1) =
               {id \in DOMAIN left : Resolves(left, later, id, Resolved(left, later, n))}
        BY ResolvedLevels
      <3>2. Resolved(cands, bnd, n + 1) =
               {id \in DOMAIN cands : Resolves(cands, bnd, id, Resolved(cands, bnd, n))}
        BY ResolvedLevels
      <3>3. ASSUME NEW id \in D
            PROVE  Resolves(left, later, id, Resolved(left, later, n))
                   <=> Resolves(cands, bnd, id, Resolved(cands, bnd, n))
        <4>1. left[id] = cands[id] /\ id \in DOMAIN cands
          BY <1>2
        <4>2. Observed(cands[id]) => PathErrors(cands[id], later) = PathErrors(cands[id], bnd)
          BY <4>1
        <4>3. \A i \in Inputs(cands[id]) :
                 /\ Present(left, i) /\ Present(cands, i)
                 /\ left[i.cand] = cands[i.cand]
                 /\ i.cand \in Resolved(left, later, n) <=> i.cand \in Resolved(cands, bnd, n)
          BY <1>2, <1>6, <1>7, <2>2
        <4> QED
          BY <4>1, <4>2, <4>3 DEF Resolves
      <3> QED
        BY <1>2, <3>1, <3>2, <3>3
    <2> SUFFICES ASSUME ~(\A n \in Nat : same(n)) PROVE FALSE
      OBVIOUS
    <2> DEFINE T == {n \in Nat : ~same(n)}
    <2>3. T \subseteq Nat /\ T # {}
      OBVIOUS
    <2> HIDE DEF T, same
    <2>4. PICK n \in T : \A i \in T : n <= i
      BY <2>3, LeastNumber
    <2>5. n \in Nat /\ ~same(n) /\ n # 0
      BY <2>1, <2>4 DEF T
    <2>6. n - 1 \in Nat /\ n - 1 \notin T
      BY <2>4, <2>5
    <2>7. same(n - 1)
      BY <2>6 DEF T
    <2>8. same((n - 1) + 1)
      BY <2>2, <2>6, <2>7
    <2> QED
      BY <2>5, <2>8
  <1>11. ASSUME NEW id \in D PROVE LocalErrors(left, later, id) = {}
    <2>1. left[id] = cands[id] /\ id \in DOMAIN cands /\ LocalErrors(cands, bnd, id) = {}
      BY <1>2, <1>4
    <2>2. CASE Observed(cands[id])
      BY <2>1, <2>2 DEF LocalErrors
    <2>3. CASE ~Observed(cands[id])
      <3> DEFINE resolved == Resolved(cands, bnd, MaxDepth)
                 deepest  == resolved \ Resolved(cands, bnd, MaxDepth - 1)
                 usable   == {i \in {j \in Inputs(cands[id]) : Present(cands, j)} : i.cand \in resolved}
                 cyclic   == id \in Dependencies(cands, id)
                 resolvedL == Resolved(left, later, MaxDepth)
                 deepestL  == resolvedL \ Resolved(left, later, MaxDepth - 1)
                 usableL   == {i \in {j \in Inputs(cands[id]) : Present(left, j)} : i.cand \in resolvedL}
      <3>1. /\ ~(\E i \in usable : SourcePaths(cands[i.cand]) # i.paths)
            /\ ~(cyclic \/ \E i \in usable : i.cand \in deepest)
            /\ ~(~cyclic /\ Cardinality(UNION {SourcePaths(cands[i.cand]) : i \in usable}) > MaxPaths)
        BY <2>1, <2>3, Zenon DEF LocalErrors, Flag
      <3>2. id \notin Dependencies(left, id)
        BY <1>9, <3>1
      <3>3. MaxDepth \in Nat /\ MaxDepth - 1 \in Nat
        BY GraphAssumption
      <3>4. resolvedL = resolved \cap D /\ deepestL = deepest \cap D
        BY <1>10, <3>3
      <3>5. usableL = usable
        BY <1>6, <1>7, <3>4
      <3> HIDE DEF resolved, deepest, usable, resolvedL, deepestL, usableL
      <3>6. \A i \in usable : left[i.cand] = cands[i.cand] /\ i.cand \in D
        BY <1>2, <1>6 DEF usable
      <3>7. {SourcePaths(left[i.cand]) : i \in usable} = {SourcePaths(cands[i.cand]) : i \in usable}
        BY <3>6
      <3>8. {j \in Inputs(cands[id]) : Present(left, j)} = Inputs(cands[id])
        BY <1>7
      <3>9. LocalErrors(left, later, id) =
              Flag({j \in Inputs(cands[id]) : Present(left, j)} # Inputs(cands[id]), "dangling_reference")
              \cup Flag(\E i \in usableL : SourcePaths(left[i.cand]) # i.paths, "dangling_reference")
              \cup Flag(id \in Dependencies(left, id) \/ \E i \in usableL : i.cand \in deepestL,
                        "derivation_cycle")
              \cup Flag(id \notin Dependencies(left, id)
                        /\ Cardinality(UNION {SourcePaths(left[i.cand]) : i \in usableL}) > MaxPaths,
                        "bounds_exceeded")
        BY <2>1, <2>3 DEF LocalErrors, usableL, resolvedL, deepestL
      <3>10. /\ ~(\E i \in usableL : SourcePaths(left[i.cand]) # i.paths)
             /\ ~(\E i \in usableL : i.cand \in deepestL)
             /\ ~(Cardinality(UNION {SourcePaths(left[i.cand]) : i \in usableL}) > MaxPaths)
        BY <3>1, <3>4, <3>5, <3>6, <3>7
      <3> QED
        BY <3>2, <3>8, <3>9, <3>10 DEF Flag
    <2> QED
      BY <2>2, <2>3
  <1>12. ASSUME NEW id \in D PROVE NodeErrors(left, later, id) = {}
    <2>1. \A d \in {id} \cup Dependencies(left, id) : d \in D
      BY <1>5, <1>9
    <2>2. \A d \in {id} \cup Dependencies(left, id) : LocalErrors(left, later, d) = {}
      BY <1>11, <2>1
    <2> QED
      BY <2>2 DEF NodeErrors
  <1> QED
    BY <1>2, <1>12 DEF left
=============================================================================
