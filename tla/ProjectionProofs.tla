--------------------------- MODULE ProjectionProofs ---------------------------
(***************************************************************************)
(* What a report or an availability view says is true of the snapshot it   *)
(* was made from, for any number of publication points, forks, items and   *)
(* facts.                                                                  *)
(***************************************************************************)
EXTENDS Projection, ReadingProofs

-----------------------------------------------------------------------------
(* Lists in ascending order. *)

Pairs == Nat \X Nat

\* Of two different pairs one is below the other.
LEMMA BelowIsTotal ==
    ASSUME NEW x \in Pairs, NEW y \in Pairs
    PROVE  /\ ~Below(x, x)
           /\ Below(x, y) => ~Below(y, x) /\ x # y
           /\ x # y => Below(x, y) \/ Below(y, x)
  BY DEF Pairs, Below

\* A strictly increasing map of 1..N into itself moves nothing.
LEMMA IncreasingIsIdentity ==
    ASSUME NEW N \in Nat, NEW h \in [1..N -> 1..N],
           \A m, n \in 1..N : m < n => h[m] < h[n]
    PROVE  \A n \in 1..N : h[n] = n
  <1>1. \A n \in 1..N : h[n] >= n
    <2> DEFINE T == {n \in 1..N : h[n] < n}
    <2> SUFFICES ASSUME T # {} PROVE FALSE
      OBVIOUS
    <2> HIDE DEF T
    <2>1. T \subseteq Nat
      BY DEF T
    <2>2. PICK m \in T : \A n \in T : m <= n
      BY <2>1, LeastNumber
    <2>3. m \in 1..N /\ h[m] < m /\ h[m] \in 1..N
      BY <2>2 DEF T
    <2>4. h[h[m]] < h[m]
      BY <2>3
    <2>5. h[m] \in T
      BY <2>3, <2>4 DEF T
    <2> QED
      BY <2>2, <2>3, <2>5
  <1>2. \A n \in 1..N : h[n] <= n
    <2> DEFINE T == {k \in 0..N : \E n \in 1..N : k = N - n /\ h[n] > n}
    <2> SUFFICES ASSUME T # {} PROVE FALSE
      <3> SUFFICES ASSUME NEW n \in 1..N, h[n] > n PROVE T # {}
        OBVIOUS
      <3>1. N - n \in T
        OBVIOUS
      <3> QED
        BY <3>1
    <2>1. T \subseteq Nat
      OBVIOUS
    <2>2. PICK k \in T : \A j \in T : k <= j
      <3> HIDE DEF T
      <3> QED
        BY <2>1, LeastNumber
    <2>3. PICK n \in 1..N : k = N - n /\ h[n] > n
      BY <2>2
    <2>4. h[n] \in 1..N /\ h[h[n]] > h[n]
      BY <2>3
    <2>5. N - h[n] \in T
      <3>1. PICK p \in 1..N : p = h[n]
        BY <2>4
      <3>2. h[p] > p
        BY <2>4, <3>1, Zenon
      <3>3. N - p \in T
        BY <3>2
      <3> QED
        BY <3>1, <3>3
    <2> HIDE DEF T
    <2>6. N - n <= N - h[n]
      BY <2>2, <2>3, <2>5
    <2> QED
      BY <2>3, <2>4, <2>6
  <1> QED
    BY <1>1, <1>2

\* An ascending list is determined by its length and what occurs in it.
LEMMA AscendingIsUnique ==
    ASSUME NEW asked \in Seq(Pairs), NEW told \in Seq(Pairs), Len(asked) = Len(told),
           Ascending(asked), Ascending(told),
           \A n \in DOMAIN told : \E m \in DOMAIN asked : asked[m] = told[n]
    PROVE  told = asked
  <1> DEFINE N == Len(asked)
  <1>1. N \in Nat /\ DOMAIN asked = 1..N /\ DOMAIN told = 1..N
    OBVIOUS
  <1>2. \A n \in 1..N : asked[n] \in Pairs /\ told[n] \in Pairs
    BY <1>1
  <1> HIDE DEF N
  <1> DEFINE h == [n \in 1..N |-> CHOOSE m \in 1..N : asked[m] = told[n]]
  <1>3. \A n \in 1..N : h[n] \in 1..N /\ asked[h[n]] = told[n]
    BY <1>1
  <1>4. h \in [1..N -> 1..N]
    BY <1>3
  <1> HIDE DEF h
  <1>5. \A m, n \in 1..N : m < n => h[m] < h[n]
    <2> SUFFICES ASSUME NEW m \in 1..N, NEW n \in 1..N, m < n, ~(h[m] < h[n]) PROVE FALSE
      OBVIOUS
    <2>1. Below(told[m], told[n])
      BY <1>1 DEF Ascending
    <2>2. h[m] = h[n] \/ h[n] < h[m]
      BY <1>3
    <2>3. CASE h[m] = h[n]
      <3>1. told[m] = told[n]
        BY <1>3, <2>3
      <3> QED
        BY <1>2, <2>1, <3>1, BelowIsTotal
    <2>4. CASE h[n] < h[m]
      <3>1. Below(asked[h[n]], asked[h[m]])
        BY <1>1, <1>3, <2>4 DEF Ascending
      <3>2. Below(told[n], told[m])
        BY <1>3, <3>1
      <3> QED
        BY <1>2, <2>1, <3>2, BelowIsTotal
    <2> QED
      BY <2>2, <2>3, <2>4
  <1>6. \A n \in 1..N : h[n] = n
    BY <1>1, <1>4, <1>5, IncreasingIsIdentity
  <1>7. \A n \in 1..N : told[n] = asked[n]
    BY <1>3, <1>6
  <1> QED
    BY <1>1, <1>7

-----------------------------------------------------------------------------
(* The checks of a report, one by one. *)

DispositionRecord ==
    [kind : Nat, item : Nat, outcome : ReportOutcomes, keys : Seq(Nat), loss : Seq(Nat),
     reason : BOOLEAN]

\* orderedValid accepts well-formed members exactly when they ascend.
LEMMA OrderedIsAscending ==
    ASSUME NEW list \in Seq(Pairs), NEW duplicate,
           \A n \in DOMAIN list : WellFormed(list[n])
    PROVE  Ordered(list, duplicate) = {} <=> Ascending(list)
  <1> DEFINE D == DOMAIN list
             twice == \E m, n \in D : m # n /\ list[m] = list[n]
             misplaced == \E m, n \in D : m < n /\ Below(list[n], list[m])
  <1>1. {n \in DOMAIN list : WellFormed(list[n])} = D
    OBVIOUS
  <1>2. Ordered(list, duplicate) = IF twice THEN {duplicate} ELSE Flag(misplaced, "noncanonical_order")
    BY <1>1 DEF Ordered
  <1>3. Ordered(list, duplicate) = {} <=> ~twice /\ ~misplaced
    <2> HIDE DEF twice, misplaced
    <2> QED
      BY <1>2 DEF Flag
  <1>4. D \subseteq Nat /\ \A n \in D : list[n] \in Pairs
    OBVIOUS
  <1> HIDE DEF D
  <1>5. ASSUME ~twice, ~misplaced PROVE \A m, n \in D : m < n => Below(list[m], list[n])
    <2> TAKE m, n \in D
    <2> HAVE m < n
    <2>1. m # n
      BY <1>4
    <2>2. list[m] # list[n] /\ ~Below(list[n], list[m])
      BY <1>5, <2>1
    <2> QED
      BY <1>4, <2>2, BelowIsTotal
  <1>6. ASSUME \A m, n \in D : m < n => Below(list[m], list[n]) PROVE ~twice /\ ~misplaced
    <2>1. \A m, n \in D : m # n => m < n \/ n < m
      BY <1>4
    <2>2. \A m, n \in D : m < n => list[m] # list[n] /\ ~Below(list[n], list[m])
      BY <1>4, <1>6, BelowIsTotal
    <2> QED
      BY <2>1, <2>2
  <1> QED
    BY <1>3, <1>5, <1>6 DEF Ascending, D

\* Keys and losses are well formed when none of them is 0.
LEMMA SinglesAreWellFormed ==
    ASSUME NEW list \in Seq(Nat)
    PROVE  /\ Single(list) \in Seq(Pairs) /\ DOMAIN Single(list) = DOMAIN list
           /\ \A n \in DOMAIN list : WellFormed(Single(list)[n]) <=> list[n] # 0
  <1>1. DOMAIN list = 1..Len(list) /\ Len(list) \in Nat /\ \A n \in DOMAIN list : list[n] \in Nat
    OBVIOUS
  <1>2. Single(list) = [n \in 1..Len(list) |-> <<1, list[n]>>]
    BY <1>1 DEF Single
  <1>3. \A n \in 1..Len(list) : <<1, list[n]>> \in Pairs
    BY <1>1 DEF Pairs
  <1> QED
    BY <1>1, <1>2, <1>3 DEF WellFormed

\* What an honest answer is.
HonestAnswer(d) ==
    /\ \A list \in {d.keys, d.loss} :
          Ascending(Single(list)) /\ \A m \in DOMAIN list : list[m] # 0
    /\ d.outcome = "exact" => d.loss = <<>>
    /\ d.outcome = "transformed" => d.loss # <<>>
    /\ d.outcome \notin {"exact", "transformed"} => d.reason

\* ProjectionDisposition.Validate accepts honest answers to well-formed items.
LEMMA HonestAnswersPass ==
    ASSUME NEW d \in DispositionRecord
    PROVE  DispositionErrors(d) = {} <=> WellFormed(Tuple(d)) /\ HonestAnswer(d)
  <1> DEFINE zeroKey  == \E n \in DOMAIN d.keys : d.keys[n] = 0
             zeroLoss == \E n \in DOMAIN d.loss : d.loss[n] = 0
             silent   == \/ d.outcome = "exact" /\ d.loss # <<>>
                         \/ d.outcome = "transformed" /\ d.loss = <<>>
                         \/ d.outcome \in NeedReason /\ ~d.reason
             keyOrder  == Ordered(Single(d.keys), "duplicate_key")
             lossOrder == Ordered(Single(d.loss), "duplicate_key")
  <1>1. /\ d.keys \in Seq(Nat) /\ d.loss \in Seq(Nat)
        /\ d.outcome \in ReportOutcomes /\ d.reason \in BOOLEAN
    BY DEF DispositionRecord
  <1>2. ASSUME ~zeroKey PROVE keyOrder = {} <=> Ascending(Single(d.keys))
    BY <1>1, <1>2, SinglesAreWellFormed, OrderedIsAscending
  <1>3. ASSUME ~zeroLoss PROVE lossOrder = {} <=> Ascending(Single(d.loss))
    BY <1>1, <1>3, SinglesAreWellFormed, OrderedIsAscending
  <1>4. silent <=> ~(/\ d.outcome = "exact" => d.loss = <<>>
                     /\ d.outcome = "transformed" => d.loss # <<>>
                     /\ d.outcome \notin {"exact", "transformed"} => d.reason)
    BY <1>1 DEF NeedReason, ReportOutcomes
  <1>5. HonestAnswer(d) <=> /\ Ascending(Single(d.keys)) /\ ~zeroKey
                            /\ Ascending(Single(d.loss)) /\ ~zeroLoss
                            /\ ~silent
    BY <1>4 DEF HonestAnswer
  <1>6. DispositionErrors(d) =
            TupleErrors(Tuple(d))
            \cup Flag(zeroKey, "invalid_identifier") \cup Flag(zeroLoss, "invalid_enum")
            \cup keyOrder \cup lossOrder
            \cup Flag(silent, "projection_incomplete")
    BY DEF DispositionErrors
  <1> HIDE DEF zeroKey, zeroLoss, silent, keyOrder, lossOrder
  <1>7. TupleErrors(Tuple(d)) = {} <=> WellFormed(Tuple(d))
    BY DEF TupleErrors, WellFormed, Flag
  <1>8. /\ Flag(zeroKey, "invalid_identifier") = {} <=> ~zeroKey
        /\ Flag(zeroLoss, "invalid_enum") = {} <=> ~zeroLoss
        /\ Flag(silent, "projection_incomplete") = {} <=> ~silent
    BY DEF Flag
  <1>9. DispositionErrors(d) = {} <=>
            /\ WellFormed(Tuple(d)) /\ ~zeroKey /\ ~zeroLoss /\ ~silent
            /\ keyOrder = {} /\ lossOrder = {}
    BY <1>6, <1>7, <1>8
  <1> QED
    BY <1>2, <1>3, <1>5, <1>9

\* The tuples of a list of dispositions.
LEMMA TuplesArePairs ==
    ASSUME NEW list \in Seq(DispositionRecord)
    PROVE  /\ Tuples(list) \in Seq(Pairs) /\ DOMAIN Tuples(list) = DOMAIN list
           /\ \A n \in DOMAIN list : Tuples(list)[n] = Tuple(list[n])
  <1>1. /\ DOMAIN list = 1..Len(list) /\ Len(list) \in Nat
        /\ \A n \in DOMAIN list : list[n] \in DispositionRecord
    OBVIOUS
  <1>2. Tuples(list) = [n \in 1..Len(list) |-> Tuple(list[n])]
    BY <1>1 DEF Tuples
  <1>3. \A n \in 1..Len(list) : Tuple(list[n]) \in Pairs
    BY <1>1 DEF Tuple, Pairs, DispositionRecord
  <1> QED
    BY <1>1, <1>2, <1>3

\* sameRequestedTuples and the order of both lists together leave one way to
\* answer: item by item.
LEMMA AnswersOneByOne ==
    ASSUME NEW asked \in Seq(Pairs), NEW told \in Seq(Pairs), Ascending(asked)
    PROVE  Ascending(told) /\ SameTuples(asked, told) <=> told = asked
  <1>1. ASSUME Ascending(told), SameTuples(asked, told) PROVE told = asked
    BY <1>1, AscendingIsUnique DEF SameTuples
  <1>2. ASSUME told = asked PROVE Ascending(told) /\ SameTuples(asked, told)
    <2>1. \A m, n \in DOMAIN asked : m # n => asked[m] # asked[n]
      <3> TAKE m, n \in DOMAIN asked
      <3> HAVE m # n
      <3>1. m \in Nat /\ n \in Nat /\ asked[m] \in Pairs /\ asked[n] \in Pairs
        OBVIOUS
      <3>2. m < n \/ n < m
        BY <3>1
      <3>3. Below(asked[m], asked[n]) \/ Below(asked[n], asked[m])
        BY <3>2 DEF Ascending
      <3> QED
        BY <3>1, <3>3, BelowIsTotal
    <2> QED
      BY <1>2, <2>1 DEF SameTuples
  <1> QED
    BY <1>1, <1>2

\* What a valid report is.
ExactAccount(r) ==
    /\ Ascending(r.requested) /\ \A n \in DOMAIN r.requested : WellFormed(r.requested[n])
    /\ Tuples(r.dispositions) = r.requested
    /\ \A n \in DOMAIN r.dispositions : HonestAnswer(r.dispositions[n])

\* ProjectionReport.Validate accepts exactly the accounts without gaps.
LEMMA ReportsAreAccounts ==
    ASSUME NEW r, r.requested \in Seq(Pairs), r.dispositions \in Seq(DispositionRecord)
    PROVE  ReportErrors(r) = {} <=> ExactAccount(r)
  <1> DEFINE asked == r.requested
             list  == r.dispositions
             told  == Tuples(list)
             askedErrors == UNION {TupleErrors(asked[n]) : n \in DOMAIN asked}
             toldErrors  == UNION {DispositionErrors(list[n]) : n \in DOMAIN list}
             same == SameTuples(asked, told)
             Passed == \A n \in DOMAIN asked : WellFormed(asked[n])
             Honest == \A n \in DOMAIN list : HonestAnswer(list[n])
  <1>1. told \in Seq(Pairs) /\ DOMAIN told = DOMAIN list /\ \A n \in DOMAIN list : told[n] = Tuple(list[n])
    BY TuplesArePairs
  <1>2. askedErrors = {} <=> Passed
    <2>1. \A n \in DOMAIN asked : TupleErrors(asked[n]) = {} <=> WellFormed(asked[n])
      BY DEF TupleErrors, WellFormed, Flag
    <2> QED
      BY <2>1
  <1>3. toldErrors = {} <=> (\A n \in DOMAIN told : WellFormed(told[n])) /\ Honest
    <2>1. \A n \in DOMAIN list : list[n] \in DispositionRecord
      OBVIOUS
    <2>2. \A n \in DOMAIN list : DispositionErrors(list[n]) = {} <=> WellFormed(told[n]) /\ HonestAnswer(list[n])
      BY <1>1, <2>1, HonestAnswersPass
    <2> HIDE DEF told, list
    <2>3. toldErrors = {} <=> \A n \in DOMAIN list : DispositionErrors(list[n]) = {}
      OBVIOUS
    <2> QED
      BY <1>1, <2>2, <2>3
  <1>4. ReportErrors(r) = askedErrors \cup toldErrors
            \cup Ordered(asked, "projection_incomplete") \cup Ordered(told, "projection_incomplete")
            \cup Flag(~same, "projection_incomplete")
    BY DEF ReportErrors
  <1> HIDE DEF told, list, asked, askedErrors, toldErrors, same
  <1>5. Flag(~same, "projection_incomplete") = {} <=> same
    BY DEF Flag
  <1>6. ReportErrors(r) = {} <=>
            /\ Passed /\ Honest /\ \A n \in DOMAIN told : WellFormed(told[n])
            /\ Ordered(asked, "projection_incomplete") = {}
            /\ Ordered(told, "projection_incomplete") = {}
            /\ same
    BY <1>2, <1>3, <1>4, <1>5
  <1>7. asked \in Seq(Pairs)
    BY DEF asked
  <1>8. ReportErrors(r) = {} <=>
            /\ Passed /\ Honest /\ \A n \in DOMAIN told : WellFormed(told[n])
            /\ Ascending(asked) /\ Ascending(told) /\ same
    BY <1>1, <1>6, <1>7, OrderedIsAscending
  <1>9. ASSUME Ascending(asked) PROVE Ascending(told) /\ same <=> told = asked
    BY <1>1, <1>7, <1>9, AnswersOneByOne DEF same
  <1>10. ReportErrors(r) = {} <=> Ascending(asked) /\ Passed /\ told = asked /\ Honest
    BY <1>8, <1>9
  <1> QED
    BY <1>10 DEF ExactAccount, told, asked, list

-----------------------------------------------------------------------------
(* The invariant. *)

\* A snapshot of a publication point: finitely many facts, all of them observed,
\* and capabilities of which a pack can be asked.
IsSnapshot(s) ==
    /\ IsFiniteSet(DOMAIN s.candidates)
    /\ \A id \in DOMAIN s.candidates : Observed(s.candidates[id])
    /\ \A id \in DOMAIN s.capabilities :
          LET cap == s.capabilities[id]
          IN  cap = [pack |-> cap.pack, service |-> cap.service, constrained |-> cap.constrained,
                     qualified |-> cap.qualified, availability |-> cap.availability]

SnapshotsAreWhole ==
    /\ points = [k \in Kernel |-> points[k]]
    /\ \A k \in Kernel : points[k] # None => IsSnapshot(points[k])
    /\ shown # None => IsSnapshot(shown)

DraftIsTyped ==
    requested \in Seq(Pairs) /\ dispositions \in Seq(DispositionRecord)

\* What Project has made stays valid for the snapshot it was made from.
ReportIsValid ==
    report # None =>
        ReportErrors(report) \cup SourceResolutionErrors(report.snapshot, report) = {}
        /\ report.revisions = report.snapshot.revisions

\* What DerivePackAvailability has made is made from the view it would itself
\* have computed.
AvailabilityIsDerived ==
    availability # None =>
        LET s == availability.snapshot
            c == availability.view.context
        IN  /\ IsSnapshot(s)
            /\ availability.view = Evaluated(s, c)
            /\ availability.rows = [pack \in Shipped |-> Row(s, availability.view, pack)]

ReaderInv == SnapshotsAreWhole /\ DraftIsTyped /\ ReportIsValid /\ AvailabilityIsDerived

\* Nothing is published and nobody holds anything at first.
LEMMA ReaderInit == Init => ReaderInv
  BY DEF Init, ReaderInv, SnapshotsAreWhole, DraftIsTyped, ReportIsValid, AvailabilityIsDerived

\* The snapshot a commit starts from.
LEMMA BasesAreWhole ==
    ASSUME SnapshotsAreWhole, NEW k \in Kernel
    PROVE  IsSnapshot(Base(k))
  <1>1. CASE points[k] = None
    <2>1. DOMAIN <<>> = {}
      OBVIOUS
    <2>2. IsFiniteSet({})
      BY FS_EmptySet
    <2>3. Base(k).candidates = <<>> /\ Base(k).capabilities = <<>>
      BY <1>1 DEF Base, Empty
    <2> QED
      BY <2>1, <2>2, <2>3 DEF IsSnapshot
  <1>2. CASE points[k] # None
    BY <1>2 DEF Base, SnapshotsAreWhole
  <1> QED
    BY <1>1, <1>2

\* A commit of whole parts publishes a whole snapshot and touches nothing of the
\* caller's.
LEMMA CommitsAreWhole ==
    ASSUME ReaderInv, NEW k \in Kernel, NEW c, NEW cands, NEW history, NEW caps,
           Committed(k, c, cands, history, caps),
           IsFiniteSet(DOMAIN cands), \A id \in DOMAIN cands : Observed(cands[id]),
           \A id \in DOMAIN caps :
              caps[id] = [pack |-> caps[id].pack, service |-> caps[id].service,
                          constrained |-> caps[id].constrained, qualified |-> caps[id].qualified,
                          availability |-> caps[id].availability]
    PROVE  ReaderInv'
  <1>1. UNCHANGED <<shown, view, requested, dispositions, report, availability>>
    BY DEF Committed, reader
  <1>2. PICK new : points' = [points EXCEPT ![k] = new] /\ new.candidates = cands /\ new.capabilities = caps
    <2>1. PICK ret, rs, r : points' = [points EXCEPT ![k] =
              [candidates |-> cands, retained |-> ret, capabilities |-> caps, at |-> c,
               revision   |-> r, revisions  |-> rs]]
      BY Zenon DEF Committed
    <2> DEFINE made == [candidates |-> cands, retained |-> ret, capabilities |-> caps, at |-> c,
                        revision   |-> r, revisions  |-> rs]
    <2>2. made.candidates = cands /\ made.capabilities = caps
      OBVIOUS
    <2>3. points' = [points EXCEPT ![k] = made]
      BY <2>1
    <2> HIDE DEF made
    <2> QED
      BY <2>2, <2>3
  <1>3. IsSnapshot(new)
    BY <1>2 DEF IsSnapshot
  <1>4. SnapshotsAreWhole'
    <2>1. points' = [j \in Kernel |-> IF j = k THEN new ELSE points[j]]
      BY <1>2 DEF ReaderInv, SnapshotsAreWhole
    <2>2. \A j \in Kernel : points'[j] # None => IsSnapshot(points'[j])
      BY <1>3, <2>1 DEF ReaderInv, SnapshotsAreWhole
    <2> QED
      BY <1>1, <2>1, <2>2 DEF ReaderInv, SnapshotsAreWhole
  <1>5. (DraftIsTyped /\ ReportIsValid /\ AvailabilityIsDerived)'
    BY <1>1 DEF ReaderInv, DraftIsTyped, ReportIsValid, AvailabilityIsDerived
  <1> QED
    BY <1>4, <1>5 DEF ReaderInv

\* A point that publishes keeps whole snapshots, and touches no copy of one.
LEMMA PublishKeepsReaders ==
    ASSUME ReaderInv, NEW k \in Kernel, NEW id, NEW key, NEW p, NEW c, Publish(k, id, key, p, c)
    PROVE  ReaderInv'
  <1> DEFINE old == Base(k).candidates
             new == [assertion |-> "observed", key |-> key, policy |-> p,
                     times |-> [receivedAt |-> c.wall, receipt |-> c.mono],
                     revision |-> IF id \in DOMAIN old THEN old[id].revision + 1 ELSE 1]
             cands == [d \in DOMAIN old \cup {id} |-> IF d = id THEN new ELSE old[d]]
  <1>1. IsSnapshot(Base(k))
    BY BasesAreWhole DEF ReaderInv
  <1>2. Committed(k, c, cands, Base(k).retained, Base(k).capabilities)
    BY DEF Publish
  <1>3. Observed(new)
    BY DEF Observed
  <1> HIDE DEF new
  <1>4. IsFiniteSet(DOMAIN cands)
    BY <1>1, FS_AddElement DEF IsSnapshot
  <1>5. \A d \in DOMAIN cands : Observed(cands[d])
    BY <1>1, <1>3 DEF IsSnapshot
  <1> HIDE DEF cands, old
  <1> QED
    BY <1>1, <1>2, <1>4, <1>5, CommitsAreWhole DEF IsSnapshot

\* So does one that offers a capability...
LEMMA OfferKeepsReaders ==
    ASSUME ReaderInv, NEW k \in Kernel, NEW cap \in Capabilities, NEW c, Offer(k, cap, c)
    PROVE  ReaderInv'
  <1> DEFINE caps == [id \in {"cap"} |-> cap]
  <1>1. IsSnapshot(Base(k))
    BY BasesAreWhole DEF ReaderInv
  <1>2. Committed(k, c, Base(k).candidates, Base(k).retained, caps)
    BY DEF Offer
  <1>3. \A id \in DOMAIN caps : caps[id] \in Capabilities
    OBVIOUS
  <1> HIDE DEF caps
  <1>4. \A id \in DOMAIN caps :
           caps[id] = [pack |-> caps[id].pack, service |-> caps[id].service,
                       constrained |-> caps[id].constrained, qualified |-> caps[id].qualified,
                       availability |-> caps[id].availability]
    BY <1>3, ProjectionAssumption, Zenon
  <1> QED
    BY <1>1, <1>2, <1>4, CommitsAreWhole DEF IsSnapshot

\* ... or retires its source...
LEMMA RetireKeepsReaders ==
    ASSUME ReaderInv, NEW k \in Kernel, NEW c, Retire(k, c)
    PROVE  ReaderInv'
  <1> DEFINE s == Base(k)
             caps == [id \in DOMAIN s.capabilities |->
                         [s.capabilities[id] EXCEPT !.availability = "withdrawn"]]
  <1>1. IsSnapshot(s)
    BY BasesAreWhole DEF ReaderInv
  <1>2. PICK history : Committed(k, c, <<>>, history, caps)
    BY DEF Retire
  <1>3. \A id \in DOMAIN caps :
           caps[id] = [pack |-> caps[id].pack, service |-> caps[id].service,
                       constrained |-> caps[id].constrained, qualified |-> caps[id].qualified,
                       availability |-> caps[id].availability]
    BY <1>1 DEF IsSnapshot
  <1>4. IsFiniteSet(DOMAIN <<>>) /\ DOMAIN <<>> = {}
    <2>1. DOMAIN <<>> = {}
      OBVIOUS
    <2> QED
      BY <2>1, FS_EmptySet
  <1> HIDE DEF caps
  <1> QED
    BY <1>2, <1>3, <1>4, CommitsAreWhole

\* ... or is forked.
LEMMA ForkKeepsReaders ==
    ASSUME ReaderInv, NEW k \in Kernel, NEW j \in Kernel, Fork(k, j)
    PROVE  ReaderInv'
  <1>1. UNCHANGED <<shown, view, requested, dispositions, report, availability>>
    BY DEF Fork, reader
  <1>2. points' = [i \in Kernel |-> IF i = j THEN points[k] ELSE points[i]]
    BY DEF Fork, ReaderInv, SnapshotsAreWhole
  <1>3. SnapshotsAreWhole'
    BY <1>1, <1>2 DEF ReaderInv, SnapshotsAreWhole
  <1> QED
    BY <1>1, <1>3 DEF ReaderInv, DraftIsTyped, ReportIsValid, AvailabilityIsDerived

\* A report is put together from items and outcomes of their types.
LEMMA DisposeKeepsReaders ==
    ASSUME ReaderInv, NEW x \in Items, NEW o \in Outcomes, Dispose(x, o)
    PROVE  ReaderInv'
  <1> DEFINE d == [kind |-> x[1], item |-> x[2], outcome |-> o.outcome, keys |-> o.keys,
                   loss |-> o.loss, reason |-> o.reason]
  <1>1. d \in DispositionRecord
    BY ProjectionAssumption DEF DispositionRecord
  <1>2. dispositions' = Append(dispositions, d)
    BY DEF Dispose
  <1> HIDE DEF d
  <1>3. DraftIsTyped'
    BY <1>1, <1>2 DEF ReaderInv, DraftIsTyped, Dispose
  <1> QED
    BY <1>3 DEF Dispose, ReaderInv, SnapshotsAreWhole, ReportIsValid, AvailabilityIsDerived

\* Project returns what ProjectionReport.Validate takes.
LEMMA ProjectKeepsReaders ==
    ASSUME ReaderInv, Project
    PROVE  ReaderInv'
  <1>1. report'.snapshot = shown /\ report'.revisions = shown.revisions
    BY DEF Project, Draft
  <1>2. ReportErrors(report') \cup SourceResolutionErrors(report'.snapshot, report') = {}
    BY <1>1 DEF Project
  <1>3. ReportIsValid'
    BY <1>1, <1>2 DEF ReportIsValid
  <1>4. DraftIsTyped'
    BY DEF Project, DraftIsTyped
  <1> QED
    BY <1>3, <1>4 DEF Project, ReaderInv, SnapshotsAreWhole, AvailabilityIsDerived

\* Whatever view it is given, DerivePackAvailability only goes on with its own.
LEMMA ViewsMustMatch ==
    ASSUME NEW s, NEW v, AvailabilityErrors(s, v) = {}
    PROVE  v = Evaluated(s, v.context) /\ EvaluationErrors(s, v.context) = {}
  <1>1. EvaluationErrors(s, v.context) \cup MatchErrors(s, v) = {}
    BY Zenon DEF AvailabilityErrors
  <1>2. Flag(v # Evaluated(s, v.context), "invalid_value") = {}
    BY <1>1, Zenon DEF MatchErrors
  <1> QED
    BY <1>1, <1>2, Zenon DEF Flag

\* DerivePackAvailability takes no view but the one it would have made.
LEMMA DeriveKeepsReaders ==
    ASSUME ReaderInv, Derive
    PROVE  ReaderInv'
  <1>1. IsSnapshot(shown) /\ view = Evaluated(shown, view.context)
    BY ViewsMustMatch DEF Derive, ReaderInv, SnapshotsAreWhole
  <1>2. /\ availability'.snapshot = shown /\ availability'.view = view
        /\ availability'.rows = [pack \in Shipped |-> Row(shown, view, pack)]
    BY DEF Derive
  <1>3. AvailabilityIsDerived'
    BY <1>1, <1>2 DEF AvailabilityIsDerived
  <1> QED
    BY <1>3 DEF Derive, ReaderInv, SnapshotsAreWhole, ReportIsValid, DraftIsTyped

\* No step of the points or of the caller breaks the invariant.
LEMMA ReaderStep == ReaderInv /\ [Next]_vars => ReaderInv'
  <1> SUFFICES ASSUME ReaderInv, [Next]_vars PROVE ReaderInv'
    OBVIOUS
  <1>1. ASSUME NEW k \in Kernel, NEW c \in Moments, NEW id \in Candidate, NEW key \in FactKey,
               NEW p \in Policy, Publish(k, id, key, p, c)
        PROVE  ReaderInv'
    BY <1>1, PublishKeepsReaders
  <1>2. ASSUME NEW k \in Kernel, NEW c \in Moments, NEW cap \in Capabilities, Offer(k, cap, c)
        PROVE  ReaderInv'
    BY <1>2, OfferKeepsReaders
  <1>3. ASSUME NEW k \in Kernel, NEW c \in Moments, Retire(k, c)
        PROVE  ReaderInv'
    BY <1>3, RetireKeepsReaders
  <1>4. ASSUME NEW k \in Kernel, NEW j \in Kernel, Fork(k, j)
        PROVE  ReaderInv'
    BY <1>4, ForkKeepsReaders
  <1>5. ASSUME NEW k \in Kernel, Fetch(k)
        PROVE  ReaderInv'
    BY <1>5 DEF Fetch, ReaderInv, SnapshotsAreWhole, DraftIsTyped, ReportIsValid,
                AvailabilityIsDerived
  <1>6. ASSUME \/ \E c \in ReadAt : Evaluate(c)
               \/ \E id \in Candidate : Receive(id)
        PROVE  ReaderInv'
    BY <1>6 DEF Evaluate, Receive, ReaderInv, SnapshotsAreWhole, DraftIsTyped, ReportIsValid,
                AvailabilityIsDerived
  <1>7. ASSUME NEW x \in Items, Request(x)
        PROVE  ReaderInv'
    <2>1. x \in Pairs
      BY ProjectionAssumption DEF Pairs
    <2>2. DraftIsTyped'
      BY <1>7, <2>1 DEF Request, ReaderInv, DraftIsTyped
    <2> QED
      BY <1>7, <2>2 DEF Request, ReaderInv, SnapshotsAreWhole, ReportIsValid, AvailabilityIsDerived
  <1>8. CASE UNCHANGED vars
    BY <1>8 DEF vars, ReaderInv, SnapshotsAreWhole, DraftIsTyped, ReportIsValid,
                AvailabilityIsDerived
  <1>9. CASE Next
    BY <1>1, <1>2, <1>3, <1>4, <1>5, <1>6, <1>7, <1>9,
       DisposeKeepsReaders, ProjectKeepsReaders, DeriveKeepsReaders DEF Next
  <1> QED
    BY <1>8, <1>9

\* Snapshots, reports and views stay what they were made to be.
THEOREM ReaderInvHolds == Spec => []ReaderInv
  BY ReaderInit, ReaderStep, PTL DEF Spec

-----------------------------------------------------------------------------
(* Reports. *)

\* AccountIsExact follows: what validates is an exact account, and the other way round.
LEMMA AccountsFollow == ReaderInv => AccountIsExact
  <1> SUFFICES ASSUME ReaderInv PROVE ReportErrors(Draft(shown)) = {} <=> ExactAccount(Draft(shown))
    BY DEF AccountIsExact, ExactAccount, HonestAnswer, Draft
  <1>1. Draft(shown).requested \in Seq(Pairs) /\ Draft(shown).dispositions \in Seq(DispositionRecord)
    BY DEF Draft, ReaderInv, DraftIsTyped
  <1> QED
    BY <1>1, ReportsAreAccounts

\* Every fact a valid report cites is in the snapshot it resolves against.
LEMMA CitationsResolve ==
    ASSUME NEW s, NEW r, ReportErrors(r) \cup SourceResolutionErrors(s, r) = {},
           NEW n \in DOMAIN r.dispositions, NEW m \in DOMAIN r.dispositions[n].keys
    PROVE  \E id \in DOMAIN s.candidates : s.candidates[id].key = r.dispositions[n].keys[m]
  <1> DEFINE key == r.dispositions[n].keys[m]
             d == r.dispositions[n]
             facts == {s.candidates[id].key : id \in DOMAIN s.candidates}
  <1>1. DispositionErrors(d) = {}
    BY DEF ReportErrors
  <1>2. Flag(\E i \in DOMAIN d.keys : d.keys[i] = 0, "invalid_identifier") = {}
    BY <1>1, Zenon DEF DispositionErrors
  <1>3. key # 0
    BY <1>2, Zenon DEF Flag
  <1>4. SourceResolutionErrors(s, r) = {}
    OBVIOUS
  <1>5. key = 0 \/ key \in facts
    BY <1>4, Zenon DEF SourceResolutionErrors, Flag
  <1> QED
    BY <1>3, <1>5

\* ReportsAreBound follows: a report names all of its snapshot.
LEMMA BindingsFollow == ReaderInv => ReportsAreBound
  <1> SUFFICES ASSUME ReaderInv, report # None PROVE ReportsAreBound
    BY DEF ReportsAreBound
  <1>1. /\ ReportErrors(report) \cup SourceResolutionErrors(report.snapshot, report) = {}
        /\ report.revisions = report.snapshot.revisions
    BY DEF ReaderInv, ReportIsValid
  <1>2. ValidateReport(report.snapshot, report) = {}
    BY <1>1 DEF ValidateReport, Flag
  <1>3. \A n \in DOMAIN report.dispositions :
           \A m \in DOMAIN report.dispositions[n].keys :
               \E id \in DOMAIN report.snapshot.candidates :
                   report.snapshot.candidates[id].key = report.dispositions[n].keys[m]
    BY <1>1, CitationsResolve
  <1>4. \A s : ValidateReport(s, report) = {} => s = report.snapshot
    BY DEF ValidateReport
  <1> QED
    BY <1>2, <1>3, <1>4 DEF ReportsAreBound

\* ReportsAreTrue: ProjectionReport.Validate takes exactly the honest accounts
\* without gaps, and a report of Project validates against the snapshot it was
\* made from and no other, however many points and forks there are.
THEOREM ReportsAreAlwaysTrue == Spec => []ReportsAreTrue
  <1>1. ReaderInv => ReportsAreTrue
    BY AccountsFollow, BindingsFollow DEF ReportsAreTrue
  <1> QED
    BY <1>1, ReaderInvHolds, PTL

-----------------------------------------------------------------------------
(* Availability. *)

\* An observation is as old in a view as it is by itself.
LEMMA ObservedAge ==
    ASSUME NEW s, IsSnapshot(s), NEW c, NEW id \in DOMAIN s.candidates
    PROVE  FactFreshness(s, id, c) = Age(s.candidates[id], c)
  <1> DEFINE a == Age(s.candidates[id], c)
  <1>1. Dependencies(s.candidates, id) = {}
    BY ObservedStandsAlone DEF IsSnapshot
  <1>2. {Age(s.candidates[d], c) : d \in {id} \cup Dependencies(s.candidates, id)} = {a}
    BY <1>1
  <1>3. FactFreshness(s, id, c) = CHOOSE f \in {a} : \A g \in {a} : CombineFreshness(f, g) = f
    BY <1>2, Zenon DEF FactFreshness
  <1> HIDE DEF a
  <1>4. CombineFreshness(a, a) = a
    BY DEF CombineFreshness
  <1>5. (CHOOSE f \in {a} : \A g \in {a} : CombineFreshness(f, g) = f) \in {a}
    BY <1>4
  <1> QED
    BY <1>3, <1>5 DEF a

\* The history that is still worth showing.
Lasting(s, c) == {rid \in DOMAIN s.retained : Age(s.retained[rid].candidate, c) # "expired"}

\* What EvaluateSnapshot says of a snapshot of observations.
LEMMA ViewOfFacts ==
    ASSUME NEW s, IsSnapshot(s), NEW c, NEW v, v = Evaluated(s, c)
    PROVE  \A id \in DOMAIN s.candidates :
              /\ v.facts[id].revision = s.candidates[id].revision
              /\ v.facts[id].freshness = Age(s.candidates[id], c)
  <1>1. \A id \in DOMAIN s.candidates :
           /\ v.facts[id].revision = s.candidates[id].revision
           /\ v.facts[id].freshness = FactFreshness(s, id, c)
    BY DEF Evaluated, View
  <1> QED
    BY <1>1, ObservedAge

\* A view lists the history that has not expired...
LEMMA ViewOfLasting ==
    ASSUME NEW s, IsSnapshot(s), NEW c, NEW v, v = Evaluated(s, c)
    PROVE  DOMAIN v.retained = Lasting(s, c)
  BY DEF Evaluated, View, Lasting

\* ... as old as it is.
LEMMA ViewOfHistory ==
    ASSUME NEW s, IsSnapshot(s), NEW c, NEW v, v = Evaluated(s, c)
    PROVE  \A rid \in Lasting(s, c) : v.retained[rid] = Age(s.retained[rid].candidate, c)
  BY DEF Evaluated, View, Lasting

\* A row shows each fact and each observation of its pack as it is.
LEMMA RowsAreTrue ==
    ASSUME NEW s, IsSnapshot(s), NEW c, NEW pack
    PROVE  LET row == Row(s, Evaluated(s, c), pack)
           IN  /\ \A id \in DOMAIN s.candidates :
                     /\ id \in DOMAIN row.facts <=> pack = PackOf[s.candidates[id].key]
                     /\ id \in DOMAIN row.facts =>
                           /\ row.facts[id].revision = s.candidates[id].revision
                           /\ row.facts[id].freshness = Age(s.candidates[id], c)
               /\ \A id \in DOMAIN row.capabilities : row.capabilities[id] = s.capabilities[id]
               /\ \A rid \in DOMAIN row.retained :
                     /\ row.retained[rid] = Age(s.retained[rid].candidate, c)
                     /\ row.retained[rid] # "expired"
  <1> DEFINE v   == Evaluated(s, c)
             row == Row(s, v, pack)
             ofFacts == {d \in DOMAIN s.candidates : PackOf[s.candidates[d].key] = pack}
             ofCaps  == {d \in DOMAIN s.capabilities : s.capabilities[d].pack = pack}
             ofKept  == {r \in DOMAIN v.retained : PackOf[s.retained[r].candidate.key] = pack}
  <1>1. /\ \A id \in DOMAIN s.candidates :
              /\ v.facts[id].revision = s.candidates[id].revision
              /\ v.facts[id].freshness = Age(s.candidates[id], c)
        /\ DOMAIN v.retained = Lasting(s, c)
        /\ \A rid \in DOMAIN v.retained : v.retained[rid] = Age(s.retained[rid].candidate, c)
    <2>1. v = Evaluated(s, c)
      OBVIOUS
    <2> HIDE DEF v, row, ofFacts, ofCaps, ofKept
    <2>2. DOMAIN v.retained = Lasting(s, c)
      BY <2>1, ViewOfLasting
    <2>3. \A id \in DOMAIN s.candidates :
             /\ v.facts[id].revision = s.candidates[id].revision
             /\ v.facts[id].freshness = Age(s.candidates[id], c)
      BY <2>1, ViewOfFacts
    <2>4. \A rid \in DOMAIN v.retained : v.retained[rid] = Age(s.retained[rid].candidate, c)
      BY <2>1, <2>2, ViewOfHistory
    <2> QED
      BY <2>2, <2>3, <2>4
  <1> HIDE DEF v
  <1>2. /\ row.facts = [id \in ofFacts |-> v.facts[id]]
        /\ row.capabilities = [id \in ofCaps |-> s.capabilities[id]]
        /\ row.retained = [rid \in ofKept |-> v.retained[rid]]
    BY DEF Row
  <1> HIDE DEF row
  <1>3. ASSUME NEW id \in DOMAIN s.candidates
        PROVE  /\ id \in DOMAIN row.facts <=> pack = PackOf[s.candidates[id].key]
               /\ id \in DOMAIN row.facts =>
                     /\ row.facts[id].revision = s.candidates[id].revision
                     /\ row.facts[id].freshness = Age(s.candidates[id], c)
    <2>1. DOMAIN row.facts = ofFacts /\ \A d \in ofFacts : row.facts[d] = v.facts[d]
      <3> HIDE DEF ofFacts
      <3> QED
        BY <1>2
    <2>2. id \in ofFacts <=> pack = PackOf[s.candidates[id].key]
      OBVIOUS
    <2> HIDE DEF ofFacts
    <2> QED
      BY <1>1, <2>1, <2>2
  <1>4. \A id \in DOMAIN row.capabilities : row.capabilities[id] = s.capabilities[id]
    <2> HIDE DEF ofCaps
    <2> QED
      BY <1>2
  <1>5. ASSUME NEW rid \in DOMAIN row.retained
        PROVE  /\ row.retained[rid] = Age(s.retained[rid].candidate, c)
               /\ row.retained[rid] # "expired"
    <2>1. rid \in ofKept /\ row.retained[rid] = v.retained[rid]
      <3> HIDE DEF ofKept
      <3> QED
        BY <1>2
    <2>2. rid \in DOMAIN v.retained
      BY <2>1
    <2>3. v.retained[rid] = Age(s.retained[rid].candidate, c)
      BY <1>1, <2>2
    <2>4. Age(s.retained[rid].candidate, c) # "expired"
      BY <1>1, <2>2 DEF Lasting
    <2> QED
      BY <2>1, <2>3, <2>4
  <1> QED
    BY <1>3, <1>4, <1>5, Zenon DEF row, v

\* AvailabilityIsTrue follows, row by row.
LEMMA AvailabilityFollows == ReaderInv => AvailabilityIsTrue
  <1> SUFFICES ASSUME ReaderInv, availability # None PROVE AvailabilityIsTrue
    BY DEF AvailabilityIsTrue
  <1>1. PICK s, v, c :
           /\ s = availability.snapshot /\ v = availability.view /\ c = availability.view.context
           /\ IsSnapshot(s) /\ v = Evaluated(s, c)
           /\ availability.rows = [pack \in Shipped |-> Row(s, Evaluated(s, c), pack)]
    BY DEF ReaderInv, AvailabilityIsDerived
  <1>2. \A pack \in Shipped : availability.rows[pack] = Row(s, Evaluated(s, c), pack)
    BY <1>1
  <1>3. ASSUME NEW pack \in Shipped
        PROVE  LET row == availability.rows[pack]
               IN  /\ \A id \in DOMAIN s.candidates :
                         /\ id \in DOMAIN row.facts <=> pack = PackOf[s.candidates[id].key]
                         /\ id \in DOMAIN row.facts =>
                               /\ row.facts[id].revision = s.candidates[id].revision
                               /\ row.facts[id].freshness = Age(s.candidates[id], c)
                   /\ \A id \in DOMAIN row.capabilities : row.capabilities[id] = s.capabilities[id]
                   /\ \A rid \in DOMAIN row.retained :
                         /\ row.retained[rid] = Age(s.retained[rid].candidate, c)
                         /\ row.retained[rid] # "expired"
    BY <1>1, <1>2, RowsAreTrue
  <1> QED
    BY <1>1, <1>3 DEF AvailabilityIsTrue

\* AvailabilityIsTrue: whatever view the caller got hold of, what is derived
\* from it says of each fact and capability what the snapshot says.
THEOREM AvailabilityIsAlwaysTrue == Spec => []AvailabilityIsTrue
  BY AvailabilityFollows, ReaderInvHolds, PTL

\* The pack's own check of a capability never refuses it for the state it is in.
LEMMA StructureIsEnough ==
    ASSUME NEW cap, cap = [pack |-> cap.pack, service |-> cap.service,
                           constrained |-> cap.constrained, qualified |-> cap.qualified,
                           availability |-> cap.availability],
           cap.constrained
    PROVE  HookErrors(Structural(cap)) = {}
  <1>1. /\ Structural(cap).qualified = TRUE /\ Structural(cap).availability = "available"
        /\ Structural(cap).constrained = cap.constrained
    BY DEF Structural
  <1> QED
    BY <1>1 DEF HookErrors, Flag

\* EverySnapshotIsReadable follows, check by check of DerivePackAvailability.
LEMMA ReadersAreAnswered == ReaderInv => EverySnapshotIsReadable
  <1> SUFFICES ASSUME ReaderInv, NEW k \in Kernel, points[k] # None,
                      NEW c \in ReadAt, EvaluationErrors(points[k], c) = {},
                      Shipped \subseteq Metadata.packs,
                      \A id \in DOMAIN points[k].candidates : FactErrors(points[k].candidates[id]) = {},
                      \A rid \in DOMAIN points[k].retained :
                          FactErrors(points[k].retained[rid].candidate) = {},
                      ServiceErrors(points[k]) = {},
                      \A id \in DOMAIN points[k].capabilities :
                          points[k].capabilities[id].pack \in Shipped =>
                              /\ <<points[k].capabilities[id].service, points[k].capabilities[id].pack>>
                                    \in Metadata.owns
                              /\ points[k].capabilities[id].constrained
               PROVE  AvailabilityErrors(points[k], Evaluated(points[k], c)) = {}
    BY DEF EverySnapshotIsReadable
  <1> DEFINE s == points[k]
             v == Evaluated(s, c)
  <1>1. IsSnapshot(s)
    BY DEF ReaderInv, SnapshotsAreWhole
  <1>2. /\ v.context = c /\ v.snapshot.id = s /\ v.snapshot.revisions = s.revisions
        /\ DOMAIN v.retained \subseteq DOMAIN s.retained
    <2>1. v = Evaluated(s, c)
      OBVIOUS
    <2> HIDE DEF s, v
    <2>2. /\ v.context = c /\ v.snapshot = [id |-> s, revisions |-> s.revisions]
          /\ DOMAIN v.retained = Lasting(s, c)
      BY <2>1 DEF Evaluated, View, Lasting
    <2> QED
      BY <2>2 DEF Lasting
  <1>3. MatchErrors(s, v) = {}
    <2>1. v = Evaluated(s, v.context)
      BY <1>2, Zenon DEF v
    <2> HIDE DEF s, v
    <2> QED
      BY <2>1, Zenon DEF MatchErrors, Flag
  <1>4. CapabilityErrors(s) = {}
    <2>1. ASSUME NEW id \in DOMAIN s.capabilities, s.capabilities[id].pack \in Shipped
          PROVE  Flag(<<s.capabilities[id].service, s.capabilities[id].pack>> \notin Metadata.owns,
                      "definition_owner_missing")
                 \cup HookErrors(Structural(s.capabilities[id])) = {}
      <3>1. HookErrors(Structural(s.capabilities[id])) = {}
        BY <1>1, <2>1, StructureIsEnough DEF IsSnapshot
      <3>2. <<s.capabilities[id].service, s.capabilities[id].pack>> \in Metadata.owns
        BY <2>1
      <3> QED
        BY <3>1, <3>2 DEF Flag
    <2> HIDE DEF s
    <2> QED
      BY <2>1 DEF CapabilityErrors
  <1>5. UNION {FactErrors(s.candidates[id]) : id \in DOMAIN s.candidates} = {}
    OBVIOUS
  <1>6. UNION {FactErrors(s.retained[rid].candidate) : rid \in DOMAIN v.retained} = {}
    <2> HIDE DEF v
    <2> QED
      BY <1>2
  <1>7. Flag(~(Shipped \subseteq Metadata.packs), "definition_owner_missing") = {}
    BY DEF Flag
  <1>8. EvaluationErrors(s, v.context) = {} /\ ServiceErrors(s) = {}
    BY <1>2
  <1> HIDE DEF s, v
  <1>9. AvailabilityErrors(s, v) = {}
    BY <1>2, <1>3, <1>4, <1>5, <1>6, <1>7, <1>8 DEF AvailabilityErrors
  <1> QED
    BY <1>9 DEF s, v

\* EverySnapshotIsReadable: a reader with metadata of the shipped packs is refused
\* no snapshot of known definitions, however degraded its capabilities are.
THEOREM ReadersAreNeverRefused == Spec => []EverySnapshotIsReadable
  BY ReadersAreAnswered, ReaderInvHolds, PTL
=============================================================================
