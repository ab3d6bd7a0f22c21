----------------------------- MODULE Projection ------------------------------
(***************************************************************************)
(* Telling another system what the registry knows (projection): reports    *)
(* that account for every requested item, and the availability view of the *)
(* shipped packs.  Both are made from copies of a snapshot that the caller *)
(* holds, and can be checked against a snapshot later.                     *)
(*                                                                         *)
(* A caller may hold copies from several publication points: Fork splits a *)
(* kernel into two that go on independently, so equal revisions no longer  *)
(* mean equal contents, and only the snapshot id, the digest of all of it, *)
(* does.  Here a snapshot is its own id.                                   *)
(*                                                                         *)
(* The commits are Publication's, reduced to what these readers tell apart.*)
(* Kinds, items, keys and losses are numbers in their canonical order; 0 is*)
(* one that is not well formed.                                            *)
(***************************************************************************)
EXTENDS SnapshotView, Sequences

CONSTANTS Kernel,        \* publication points: the first one and its forks
          Origin,        \* the first one
          Candidate, FactKey,
          PackOf,        \* fact key -> pack
          Shipped,       \* packs with a validator
          ServicePack,   \* service -> pack
          Metadata,      \* [packs, fields, services, owns]: the metadata registry's answers
          Accepted,      \* [dimensions, values, services]: what the packs themselves accept
          Capabilities,  \* [pack, service, constrained, qualified, availability] a driver
                         \* may offer
          Moments,       \* instants of commits
          ReadAt,        \* instants of evaluations
          Policy,
          Items,         \* <<kind, item>> a caller may ask for
          Outcomes,      \* dispositions a mapping may come to, without their tuple
          MaxItems,      \* items in one report
          MaxCommits,    \* commits on one point
          None

\* What a caller may put into a report, and what a driver may offer.
ReportOutcomes == {"exact", "transformed", "withheld", "unrepresentable", "unsupported", "unknown"}

ASSUME ProjectionAssumption ==
    /\ Items \subseteq Nat \X Nat
    /\ Outcomes \subseteq [outcome : ReportOutcomes, keys : Seq(Nat), loss : Seq(Nat), reason : BOOLEAN]
    /\ \A cap \in Capabilities :
          cap = [pack |-> cap.pack, service |-> cap.service, constrained |-> cap.constrained,
                 qualified |-> cap.qualified, availability |-> cap.availability]

VARIABLES
    points,       \* kernel -> its snapshot, or None
    forked,       \* forks taken
    shown,        \* the caller's copy of a snapshot, or None
    view,         \* an evaluation view in the caller's hands, or None
    requested, dispositions,  \* a report being put together
    report,       \* the last report Project returned, or None
    availability  \* the last view DerivePackAvailability returned, or None

vars == <<points, forked, shown, view, requested, dispositions, report, availability>>
reader == <<shown, view, requested, dispositions, report, availability>>

-----------------------------------------------------------------------------
(* Ordered collections. *)

\* orderedValid: members that are not well formed are skipped; those that are
\* must not repeat, and, if none does, must ascend.
Below(x, y) == IF x[1] = y[1] THEN x[2] < y[2] ELSE x[1] < y[1]

WellFormed(x) == x[1] # 0 /\ x[2] # 0

Ordered(list, duplicate) ==
    LET valid == {n \in DOMAIN list : WellFormed(list[n])}
        twice == \E m, n \in valid : m # n /\ list[m] = list[n]
    IN  IF twice THEN {duplicate}
        ELSE Flag(\E m, n \in valid : m < n /\ Below(list[n], list[m]), "noncanonical_order")

\* Keys and losses have no kind of their own.
Single(list) == [n \in DOMAIN list |-> <<1, list[n]>>]

Tuple(d) == <<d.kind, d.item>>
Tuples(list) == [n \in DOMAIN list |-> Tuple(list[n])]

-----------------------------------------------------------------------------
(* Reports. *)

TupleErrors(x) ==
    Flag(x[1] = 0, "invalid_enum") \cup Flag(x[2] = 0, "invalid_identifier")

\* Mutant: an item that is left out needs no reason.
SilentOutcomes == {"withheld", "unrepresentable", "unsupported"}

NeedReason == {"withheld", "unrepresentable", "unsupported", "unknown"}

\* ProjectionDisposition.Validate
DispositionErrors(d) ==
    TupleErrors(Tuple(d))
    \cup Flag(\E n \in DOMAIN d.keys : d.keys[n] = 0, "invalid_identifier")
    \cup Flag(\E n \in DOMAIN d.loss : d.loss[n] = 0, "invalid_enum")
    \cup Ordered(Single(d.keys), "duplicate_key")
    \cup Ordered(Single(d.loss), "duplicate_key")
    \cup Flag(\/ d.outcome = "exact" /\ d.loss # <<>>
              \/ d.outcome = "transformed" /\ d.loss = <<>>
              \/ d.outcome \in NeedReason /\ ~d.reason,
              "projection_incomplete")

\* sameRequestedTuples: strike one requested tuple off for every disposition.
SameTuples(asked, told) ==
    /\ Len(asked) = Len(told)
    /\ \A m, n \in DOMAIN asked : m # n => asked[m] # asked[n]
    /\ \A n \in DOMAIN told : \E m \in DOMAIN asked : asked[m] = told[n]
    /\ \A m, n \in DOMAIN told : m # n => told[m] # told[n]

\* ProjectionReport.Validate
ReportErrors(r) ==
    LET asked == r.requested
        told  == Tuples(r.dispositions)
    IN  (UNION {TupleErrors(asked[n]) : n \in DOMAIN asked})
        \cup (UNION {DispositionErrors(r.dispositions[n]) : n \in DOMAIN r.dispositions})
        \cup Ordered(asked, "projection_incomplete")
        \cup Ordered(told, "projection_incomplete")
        \cup Flag(~SameTuples(asked, told), "projection_incomplete")

\* sourceResolutionError
SourceResolutionErrors(s, r) ==
    LET facts == {s.candidates[id].key : id \in DOMAIN s.candidates}
    IN  Flag(\E n \in DOMAIN r.dispositions : \E m \in DOMAIN r.dispositions[n].keys :
                LET key == r.dispositions[n].keys[m]
                IN  key # 0 /\ key \notin facts,
             "dangling_reference")

Draft(s) == [snapshot |-> s, revisions |-> s.revisions,
             requested |-> requested, dispositions |-> dispositions]

\* Mutant: the revision vector is taken for the snapshot's identity.
ValidateByRevisions(s, r) ==
    ReportErrors(r) \cup Flag(s.revisions # r.revisions, "revision_conflict")
    \cup SourceResolutionErrors(s, r)

\* ValidateReport
ValidateReport(s, r) ==
    ReportErrors(r)
    \cup (IF s # r.snapshot THEN {"dangling_reference"}
          ELSE Flag(s.revisions # r.revisions, "revision_conflict"))
    \cup SourceResolutionErrors(s, r)

-----------------------------------------------------------------------------
(* The availability view. *)

\* EvaluateSnapshot, named by the whole snapshot and its revisions.
Evaluated(s, c) ==
    [View(s, c) EXCEPT !.snapshot = [id |-> s, revisions |-> s.revisions]]

\* Mutant: the freshness a view claims is not compared with the kernel's.
MatchByRevision(s, v) ==
    Flag(DOMAIN v.facts # DOMAIN s.candidates, "dangling_reference")
    \cup Flag(\E id \in DOMAIN v.facts \cap DOMAIN s.candidates :
                 v.facts[id].revision # s.candidates[id].revision, "revision_conflict")

\* availabilityEvaluationMatches
MatchErrors(s, v) ==
    LET expected == Evaluated(s, v.context)
    IN  Flag(DOMAIN v.facts # DOMAIN expected.facts, "dangling_reference")
        \cup Flag(\E id \in DOMAIN v.facts \cap DOMAIN expected.facts :
                     v.facts[id].revision # expected.facts[id].revision, "revision_conflict")
        \cup Flag(v # expected, "invalid_value")

InShipped(key) == PackOf[key] \in Shipped

\* availabilityFactValid, for current and for retained candidates: the field, its one
\* dimension, and the value by the pack's ValidateFact.
FactErrors(c) ==
    IF ~InShipped(c.key) THEN {}
    ELSE IF c.key \notin Metadata.fields THEN {"definition_owner_missing"}
    ELSE Flag(c.key \notin Accepted.dimensions \cap Accepted.values, "invalid_value")

\* The services of a snapshot are those its capabilities belong to.
ServiceErrors(s) ==
    UNION {LET service == s.capabilities[id].service
           IN  IF ServicePack[service] \notin Shipped THEN {}
               ELSE Flag(service \notin Metadata.services, "definition_owner_missing")
                    \cup Flag(service \notin Accepted.services, "invalid_value")
             : id \in DOMAIN s.capabilities}

\* The pack's own check of a capability: current, qualified and available, with the
\* constraints it calls for (constraintsOK).
HookErrors(cap) ==
    Flag(~cap.qualified, "capability_not_qualified")
    \cup Flag(cap.availability # "available", "capability_unavailable")
    \cup Flag(~cap.constrained, "invalid_value")

\* Mutant: a capability is checked as it is.
StructuralAsIs(cap) == cap

\* Whether a capability can act is the reader's to see, not a reason to refuse.
Structural(cap) == [cap EXCEPT !.qualified = TRUE, !.availability = "available"]

CapabilityErrors(s) ==
    UNION {LET cap == s.capabilities[id]
           IN  IF cap.pack \notin Shipped THEN {}
               ELSE Flag(<<cap.service, cap.pack>> \notin Metadata.owns, "definition_owner_missing")
                    \cup HookErrors(Structural(cap))
             : id \in DOMAIN s.capabilities}

\* DerivePackAvailability
AvailabilityErrors(s, v) ==
    IF v.snapshot.id # s \/ v.snapshot.revisions # s.revisions THEN {"revision_conflict"}
    ELSE EvaluationErrors(s, v.context) \cup MatchErrors(s, v)
         \cup Flag(~(Shipped \subseteq Metadata.packs), "definition_owner_missing")
         \cup ServiceErrors(s) \cup CapabilityErrors(s)
         \cup (UNION {FactErrors(s.candidates[id]) : id \in DOMAIN s.candidates})
         \cup (UNION {FactErrors(s.retained[rid].candidate) : rid \in DOMAIN v.retained})

Row(s, v, pack) ==
    [services |-> {s.capabilities[id].service :
                      id \in {d \in DOMAIN s.capabilities :
                                 ServicePack[s.capabilities[d].service] = pack}},
     capabilities |-> [id \in {d \in DOMAIN s.capabilities : s.capabilities[d].pack = pack} |->
                          s.capabilities[id]],
     facts    |-> [id \in {d \in DOMAIN s.candidates : PackOf[s.candidates[d].key] = pack} |->
                      v.facts[id]],
     retained |-> [rid \in {r \in DOMAIN v.retained : PackOf[s.retained[r].candidate.key] = pack} |->
                      v.retained[rid]]]

-----------------------------------------------------------------------------
(* Publication points. *)

Empty == [candidates |-> <<>>, retained |-> <<>>, capabilities |-> <<>>,
          revisions |-> [semantic |-> 0, facts |-> 0, capabilities |-> 0],
          revision |-> 0, at |-> None]

Base(k) == IF points[k] = None THEN Empty ELSE points[k]

\* A commit on k at instant c that moves the named parts; history that has come
\* to its end goes with it, and history from the future prevents it.
Committed(k, c, cands, history, caps) ==
    LET s   == Base(k)
        age(rid) == Age(history[rid].candidate, c)
        ret == [rid \in {r \in DOMAIN history : age(r) # "expired"} |-> history[rid]]
        Bump(changed, r) == IF s.revision = 0 \/ changed THEN r + 1 ELSE r
    IN  /\ s.revision < MaxCommits
        /\ \A rid \in DOMAIN history : age(rid) # "invalid_time"
        /\ points' = [points EXCEPT ![k] =
              [candidates |-> cands, retained |-> ret, capabilities |-> caps, at |-> c,
               revision   |-> s.revision + 1,
               revisions  |-> [semantic |-> s.revision + 1,
                               facts |-> Bump(cands # s.candidates \/ ret # s.retained,
                                              s.revisions.facts),
                               capabilities |-> Bump(caps # s.capabilities,
                                                     s.revisions.capabilities)]]]
        /\ UNCHANGED <<forked, reader>>

Publish(k, id, key, p, c) ==
    LET old == Base(k).candidates
        new == [assertion |-> "observed", key |-> key, policy |-> p,
                times |-> [receivedAt |-> c.wall, receipt |-> c.mono],
                revision |-> IF id \in DOMAIN old THEN old[id].revision + 1 ELSE 1]
    IN  /\ points[k] # None \/ k = Origin
        /\ id \in DOMAIN old => old[id].key = key
        /\ Committed(k, c, [d \in DOMAIN old \cup {id} |-> IF d = id THEN new ELSE old[d]],
                     Base(k).retained, Base(k).capabilities)

\* A capability appears, degrades or comes back.
Offer(k, cap, c) ==
    /\ points[k] # None
    /\ \A id \in DOMAIN Base(k).capabilities :
          LET old == Base(k).capabilities[id]
          IN  /\ old.availability # "withdrawn" /\ old # cap
              /\ old.pack = cap.pack /\ old.service = cap.service
    /\ Committed(k, c, Base(k).candidates, Base(k).retained,
                 [id \in {"cap"} |-> cap])

\* The source is retired: its observations become history, its capabilities
\* tombstones.  The revision in an entry's name stands for its epoch.
Retire(k, c) ==
    LET s   == Base(k)
        new == {<<id, s.revision>> : id \in DOMAIN s.candidates}
        ret == [rid \in new \cup DOMAIN s.retained |->
                   IF rid \in new THEN [candidate |-> s.candidates[rid[1]]] ELSE s.retained[rid]]
    IN  /\ points[k] # None /\ DOMAIN s.candidates # {}
        /\ Committed(k, c, <<>>, ret,
                     [id \in DOMAIN s.capabilities |->
                         [s.capabilities[id] EXCEPT !.availability = "withdrawn"]])

\* Fork: another point at the same instant; from here on they are independent.
Fork(k, j) ==
    /\ points[k] # None
    /\ j \notin forked \cup {Origin}
    /\ points' = [points EXCEPT ![j] = points[k]]
    /\ forked' = forked \cup {j}
    /\ UNCHANGED reader

-----------------------------------------------------------------------------
(* The caller. *)

Fetch(k) ==
    /\ points[k] # None /\ availability = None
    /\ shown' = points[k]
    /\ UNCHANGED <<points, forked, view, requested, dispositions, report, availability>>

Evaluate(c) ==
    /\ shown # None /\ availability = None
    /\ EvaluationErrors(shown, c) = {}
    /\ view' = Evaluated(shown, c)
    /\ UNCHANGED <<points, forked, shown, requested, dispositions, report, availability>>

\* A view that came over the wire: well formed, digest and all, but made by
\* someone who took one fact for fresh.
Receive(id) ==
    /\ view # None /\ availability = None
    /\ id \in DOMAIN view.facts
    /\ view' = [view EXCEPT !.facts[id].freshness = "fresh"]
    /\ UNCHANGED <<points, forked, shown, requested, dispositions, report, availability>>

Request(x) ==
    /\ report = None /\ Len(requested) < MaxItems
    /\ requested' = Append(requested, x)
    /\ UNCHANGED <<points, forked, shown, view, dispositions, report, availability>>

Dispose(x, o) ==
    /\ report = None /\ Len(dispositions) < MaxItems
    /\ dispositions' = Append(dispositions,
            [kind |-> x[1], item |-> x[2], outcome |-> o.outcome, keys |-> o.keys,
             loss |-> o.loss, reason |-> o.reason])
    /\ UNCHANGED <<points, forked, shown, view, requested, report, availability>>

\* One report and one availability view are made in a behaviour.
Project ==
    /\ shown # None /\ report = None
    /\ ReportErrors(Draft(shown)) \cup SourceResolutionErrors(shown, Draft(shown)) = {}
    /\ report' = Draft(shown)
    /\ requested' = <<>> /\ dispositions' = <<>>
    /\ UNCHANGED <<points, forked, shown, view, availability>>

Derive ==
    /\ shown # None /\ view # None /\ availability = None
    /\ AvailabilityErrors(shown, view) = {}
    /\ availability' = [snapshot |-> shown, view |-> view,
                        rows |-> [pack \in Shipped |-> Row(shown, view, pack)]]
    /\ UNCHANGED <<points, forked, shown, view, requested, dispositions, report>>

-----------------------------------------------------------------------------
Init ==
    /\ points = [k \in Kernel |-> None] /\ forked = {}
    /\ shown = None /\ view = None
    /\ requested = <<>> /\ dispositions = <<>>
    /\ report = None /\ availability = None

Next ==
    \/ \E k \in Kernel, c \in Moments :
          \/ \E id \in Candidate, key \in FactKey, p \in Policy : Publish(k, id, key, p, c)
          \/ \E cap \in Capabilities : Offer(k, cap, c)
          \/ Retire(k, c)
    \/ \E k, j \in Kernel : Fork(k, j)
    \/ \E k \in Kernel : Fetch(k)
    \/ \E c \in ReadAt : Evaluate(c)
    \/ \E id \in Candidate : Receive(id)
    \/ \E x \in Items : Request(x)
    \/ \E x \in Items, o \in Outcomes : Dispose(x, o)
    \/ Project \/ Derive

Spec == Init /\ [][Next]_vars

-----------------------------------------------------------------------------
(* Properties. *)

Ascending(list) == \A m, n \in DOMAIN list : m < n => Below(list[m], list[n])

\* An account without gaps: whatever a mapping puts together, a report is valid
\* exactly when it answers the requested items one by one in their order, never
\* one twice, and every answer is honest: nothing lost is called exact, what is
\* transformed says what was lost, what is left out says why
\* (ProjectionReport.Validate, sameRequestedTuples, orderedValid).
AccountIsExact ==
    shown # None =>
        (ReportErrors(Draft(shown)) = {}
         <=> /\ Ascending(requested) /\ \A n \in DOMAIN requested : WellFormed(requested[n])
             /\ Tuples(dispositions) = requested
             /\ \A n \in DOMAIN dispositions :
                   LET d == dispositions[n]
                   IN  /\ \A list \in {d.keys, d.loss} :
                             Ascending(Single(list)) /\ \A m \in DOMAIN list : list[m] # 0
                       /\ d.outcome = "exact" => d.loss = <<>>
                       /\ d.outcome = "transformed" => d.loss # <<>>
                       /\ d.outcome \notin {"exact", "transformed"} => d.reason)

\* A report is about one snapshot: among all points a caller can still reach,
\* forks at the same revisions included, it validates against the very contents
\* it was made from and no others, and every fact it cites is among them
\* (Project, ValidateReport, computedID).
ReportsAreBound ==
    report # None =>
        /\ ValidateReport(report.snapshot, report) = {}
        /\ \A n \in DOMAIN report.dispositions :
              \A m \in DOMAIN report.dispositions[n].keys :
                  \E id \in DOMAIN report.snapshot.candidates :
                      report.snapshot.candidates[id].key = report.dispositions[n].keys[m]
        /\ \A k \in Kernel : points[k] # None /\ ValidateReport(points[k], report) = {} =>
              points[k].candidates = report.snapshot.candidates

\* A report that validates is an exact and honest account, and it is about one
\* snapshot, forks included.
ReportsAreTrue == AccountIsExact /\ ReportsAreBound

\* Nothing is made to look better than it is: whatever view the caller got hold
\* of, from another fork, another instant or another machine, the availability
\* derived from it shows each fact of a shipped pack once, as old as that very
\* revision is, history only as history, and each capability with the state the
\* snapshot gives it (DerivePackAvailability, availabilityEvaluationMatches).
AvailabilityIsTrue ==
    availability # None =>
        LET s    == availability.snapshot
            c    == availability.view.context
            rows == availability.rows
        IN  /\ \A id \in DOMAIN s.candidates : InShipped(s.candidates[id].key) =>
                  \A pack \in Shipped :
                      /\ id \in DOMAIN rows[pack].facts <=> pack = PackOf[s.candidates[id].key]
                      /\ id \in DOMAIN rows[pack].facts =>
                            /\ rows[pack].facts[id].revision = s.candidates[id].revision
                            /\ rows[pack].facts[id].freshness = Age(s.candidates[id], c)
            /\ \A pack \in Shipped :
                  /\ \A id \in DOMAIN rows[pack].capabilities :
                        rows[pack].capabilities[id] = s.capabilities[id]
                  /\ \A rid \in DOMAIN rows[pack].retained :
                        /\ rows[pack].retained[rid] = Age(s.retained[rid].candidate, c)
                        /\ rows[pack].retained[rid] # "expired"

\* A reader is not refused for what it reads: with metadata of every shipped
\* pack, a snapshot in which every fact, service and capability belongs to a known
\* definition and is well formed by it has an availability view at every instant it
\* can be evaluated at, however degraded its capabilities are.
EverySnapshotIsReadable ==
    \A k \in Kernel : points[k] # None =>
        \A c \in ReadAt : EvaluationErrors(points[k], c) = {} =>
            LET s == points[k]
                known == /\ Shipped \subseteq Metadata.packs
                         /\ \A id \in DOMAIN s.candidates : FactErrors(s.candidates[id]) = {}
                         /\ \A rid \in DOMAIN s.retained : FactErrors(s.retained[rid].candidate) = {}
                         /\ ServiceErrors(s) = {}
                         /\ \A id \in DOMAIN s.capabilities :
                               s.capabilities[id].pack \in Shipped =>
                                   /\ <<s.capabilities[id].service, s.capabilities[id].pack>>
                                         \in Metadata.owns
                                   /\ s.capabilities[id].constrained
            IN  known => AvailabilityErrors(s, Evaluated(s, c)) = {}

=============================================================================
