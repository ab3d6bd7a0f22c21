------------------------------- MODULE MCSite --------------------------------
(***************************************************************************)
(* Publishers, callers and a native owner for the model checker.  The      *)
(* drivers of one source bring up a complete route per generation, report  *)
(* observations, take parts of the route out of service and hand over;     *)
(* callers submit intents for what they see, resubmit each other's, and    *)
(* the owner reports every outcome its log could be taken for.            *)
(*                                                                         *)
(* A behaviour plays one of four scenes: callers race for the place of an  *)
(* operation while its route changes; one operation is confirmed under     *)
(* clocks that differ; one intent is let through in time; a fact appears   *)
(* that no pack of the operation kernel owns.                              *)
(***************************************************************************)
EXTENDS Site, FiniteSetsExt, TLC

CONSTANT IdempotencyKey

VARIABLE cast   \* the scene, and who plays in it

\* What a scene calls for: numbers of callers and keys, generations, candidates
\* and the facts they speak of;
\* how publishers change a route (see Offers), the clocks of receipts and how
\* late an observation is published; the error of UTC readings; deadlines of
\* intents and whether they carry preconditions; what the owner reports.
Admission ==
    [callers |-> 2, keys |-> 2, generations |-> {1, 2}, candidates |-> {},
     facts |-> OwnedFacts,
     changes |-> {"route", "link", "service", "capability", "fence"},
     drivers |-> {"site"}, delays |-> {0}, owners |-> {"site"}, unc |-> 0,
     deadlines |-> {1}, conditional |-> FALSE,
     deliveries |-> {"sent", "not_sent"},
     outcomes |-> {"failed_no_contact", "indeterminate", "no_effect"}, acks |-> {},
     time |-> 0, commits |-> 3]

Confirmation ==
    [callers |-> 1, keys |-> 1, generations |-> {1}, candidates |-> {"c1"},
     facts |-> OwnedFacts,
     changes |-> {"route", "fact"},
     drivers |-> {"field"}, delays |-> {0, 1}, owners |-> {"site", "field"}, unc |-> 1,
     deadlines |-> {9}, conditional |-> FALSE,
     deliveries |-> {"sent"},
     outcomes |-> {"applied", "conflict", "acknowledged_unverified"}, acks |-> {"accepted"},
     time |-> 2, commits |-> 2]

Timely ==
    [Confirmation EXCEPT !.candidates = {"c1", "c2"}, !.deadlines = {3, 9}, !.conditional = TRUE,
                         !.deliveries = {}, !.outcomes = {}, !.acks = {},
                         !.time = 3, !.commits = 3]

Unowned ==
    [Confirmation EXCEPT !.facts = FactKey, !.drivers = {"site"}, !.delays = {0},
                         !.owners = {"site"}, !.unc = 0, !.acks = {}, !.time = 1, !.commits = 3]

Scenes == [admission |-> Admission, confirmation |-> Confirmation, timely |-> Timely,
           unowned |-> Unowned]
Scene == Scenes[cast.scene]

Readings(walls) == {w \in walls : w.unc = Scene.unc}
Points(clocks) == {c \in Contexts(clocks) : c.wall.unc = Scene.unc}

TheSource == CHOOSE s \in Source : TRUE
TheEpoch  == CHOOSE e \in Epoch : TRUE
TheOne(S) == CHOOSE x \in S : TRUE
One(k, v) == [x \in {k} |-> v]

\* Generation g has binding, service and capability g.
Header(g) == <<TheSource, TheEpoch, g>>

Bring(g, c) ==
    LET older == {k \in DOMAIN cursors : k[3] < g /\ ~cursors[k].fenced}
    IN  [BareBatch(Header(g), c) EXCEPT
            !.sourceUpserts = IF <<TheSource, TheEpoch>> \in DOMAIN sources THEN <<>>
                              ELSE One(<<TheSource, TheEpoch>>,
                                       [profile |-> TheOne(Profile), registry |-> TheOne(Evidence),
                                        state |-> "current", revision |-> 1]),
            !.fences = [k \in older |-> Evidence],
            !.bindingUpserts = One(g, [source |-> TheSource, epoch |-> TheEpoch, gen |-> g,
                                       resource |-> TheOne(Resource), state |-> "current",
                                       revision |-> 1]),
            !.linkUpserts = One(g, [state |-> "qualified", basis |-> Evidence, revision |-> 1]),
            !.serviceUpserts = One(g, [binding |-> g, epoch |-> TheEpoch, gen |-> g,
                                       qualified |-> TRUE, availability |-> "available",
                                       revision |-> 1]),
            !.capabilityUpserts = One(g, [service |-> g, binding |-> g, epoch |-> TheEpoch,
                                          gen |-> g, qualified |-> TRUE,
                                          availability |-> "available", revision |-> 1])]

\* An observation received `late` ago, by a driver with a clock of its own.
Observations(g, c) ==
    UNION {{[BareBatch(Header(g), c) EXCEPT !.factUpserts =
                One(id, [assertion |-> "observed", key |-> k, value |-> v,
                         source |-> TheSource, binding |-> g, epoch |-> TheEpoch, gen |-> g,
                         times |-> [receivedAt |-> w, receipt |-> MonoAt(e, now - late)],
                         policy |-> TheOne(Policy),
                         revision |-> IF id \in DOMAIN candidates
                                      THEN candidates[id].revision + 1 ELSE 1])] :
               id \in Scene.candidates, k \in Scene.facts, v \in Value, e \in Scene.drivers, w \in Readings(WallAt(now - late))}
             : late \in {d \in Scene.delays : d <= now}}

Moves(map, g, field, values) ==
    {One(g, [map[g] EXCEPT ![field] = v, !.revision = @ + 1]) :
        v \in {v \in values : g \in DOMAIN map /\ v # map[g][field]}}

Offers(c) ==
    UNION {LET bare == BareBatch(Header(g), c)
               Offered(kind, batches) == IF kind \in Scene.changes THEN batches ELSE {}
           IN  Offered("route", {Bring(g, c)})
               \cup Offered("fact", Observations(g, c))
               \cup Offered("link", {[bare EXCEPT !.linkUpserts = u] :
                       u \in Moves(links, g, "state", {"candidate"})})
               \cup Offered("service", {[bare EXCEPT !.serviceUpserts = u] :
                       u \in Moves(services, g, "availability", {"degraded"})
                             \cup Moves(services, g, "qualified", {FALSE})})
               \cup Offered("capability", {[bare EXCEPT !.capabilityUpserts = u] :
                       u \in Moves(capabilities, g, "availability", {"degraded"})})
               \cup Offered("fence", {[bare EXCEPT !.fences = One(Header(g), Evidence)]})
             : g \in Scene.generations}

-----------------------------------------------------------------------------
(* Intents. *)

Judge(target) == [v \in Value |-> IF v = target THEN "confirms" ELSE "contradicts"]

\* What a caller that looks at s may want: the capability of generation g, with
\* or without a condition on a fact it sees there.
Intents(s) ==
    {[key |-> k, malformed |-> {}, hook |-> {}, semantic |-> s.revision,
      capabilities |-> s.revisions.capabilities, epoch |-> TheEpoch, gen |-> g,
      wanted |-> Scene.generations, unmet |-> {}, degraded |-> FALSE,
      capRevision |-> s.capabilities[g].revision, reflected |-> FALSE,
      deadline |-> [clock |-> UTC, ns |-> d, unc |-> 0],
      expires |-> [clock |-> UTC, ns |-> d, unc |-> 0],
      fact |-> TheOne(OwnedFacts), judge |-> Judge(v), preconditions |-> p] :
        k \in cast.keys, g \in DOMAIN s.capabilities, d \in Scene.deadlines,
        v \in {TheOne(Value)},
        p \in IF ~Scene.conditional THEN {{}} ELSE
              {{[cand |-> id, fact |-> s.candidates[id].key,
                 revision |-> s.candidates[id].revision,
                 accepts |-> [x \in Value |-> TRUE]]} : id \in DOMAIN s.candidates}}

\* Intents other callers have already submitted.
Resubmitted ==
    {admissions[k].intent : k \in DOMAIN admissions}
    \cup {calls[x].intent : x \in {y \in cast.callers : calls[y] # None}}

Submitted(x) == IF held[x] = None THEN {} ELSE Intents(held[x]) \cup Resubmitted

Readbacks(key, x) ==
    IF held[x] = None \/ key \notin DOMAIN native THEN {}
    ELSE {ReadbackOf(key, held[x], id, c) :
            id \in DOMAIN held[x].candidates, c \in Points({KernelClock})}

MCNext ==
  /\ UNCHANGED cast
  /\ \/ now < Scene.time /\ Tick
     \/ /\ revisions.semantic < Scene.commits
        /\ \E b \in Offers(TheOne(Points({KernelClock}))) : Publish(b)
     \/ \E x \in cast.callers :
           \/ Fetch(x)
           \/ Finish(x)
           \/ \E c \in Points({KernelClock}), intent \in Submitted(x), granted \in BOOLEAN :
                 Submit(x, c, intent, granted)
           \/ \E intent \in Submitted(x) : Refuse(intent, "authority_missing")
     \/ \E key \in cast.keys :
           \/ \E c \in Points(Scene.owners), d \in Scene.deliveries : Dispatch(key, c, d)
           \/ \E c \in Points(Scene.owners) : Complete(key, c)
           \/ \E outcome \in Scene.outcomes :
                 \/ Report(key, outcome, None, None, None)
                 \/ \E state \in Scene.acks, w \in Readings(WallAt(now)) :
                       Report(key, outcome, [state |-> state, at |-> w], None, None)
                 \/ \E x \in cast.callers : \E readback \in Readbacks(key, x) :
                       Report(key, outcome, None, readback, held[x])

MCInit ==
    /\ SiteInit
    /\ \E s \in DOMAIN Scenes :
          cast \in [scene : {s}, callers : kSubset(Scenes[s].callers, Caller),
                    keys : kSubset(Scenes[s].keys, IdempotencyKey)]

MCSpec == MCInit /\ [][MCNext]_<<siteVars, cast>>

-----------------------------------------------------------------------------
(* Values for the constants. *)

\* The driver's and the owner's clock is not the kernel's.
TwoClocks == [site |-> 0, field |-> -1]

\* Exact readings, and readings off by one either way.
UTCErrors == {[off |-> 0, unc |-> 0], [off |-> -1, unc |-> 1], [off |-> 1, unc |-> 1]}

AnyTime == UNION {WallAt(t) : t \in 0..MaxNow}
AnyMono == {MonoAt(e, t) : e \in DOMAIN ClockStart, t \in 0..MaxNow}

\* Callers and idempotency keys have no order and no role of their own.
Symmetry == Permutations(Caller) \cup Permutations(IdempotencyKey)

Policies == {[fresh |-> 2, retain |-> 4, maxUnc |-> 4]}
WideLimits == [c \in Collections |-> 8]
=============================================================================
