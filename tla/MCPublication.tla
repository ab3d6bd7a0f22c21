---------------------------- MODULE MCPublication ---------------------------
(***************************************************************************)
(* Publishers for the model checker.  In every state they offer, for each  *)
(* (source, epoch, generation) header, a prepared hand-over batch (source  *)
(* known, older epoch retired, older generation fenced) with up to two     *)
(* further operations, the same operations without the preparation, and    *)
(* stale, replayed, corrupted and malformed batches.  All of them are      *)
(* members of Publication!Batch; Spec allows every other batch as well.    *)
(*                                                                         *)
(* A behaviour plays one of the scenes of its run: who is there, what they *)
(* offer, when, and how many commits they make.                            *)
(***************************************************************************)
EXTENDS Publication, FiniteSetsExt, TLC

CONSTANTS Scenes,   \* name -> what the scene calls for
          Instant   \* [wall, mono] points at which batches are published

VARIABLE cast   \* the scene, and who plays in it

ASSUME \A s \in DOMAIN Scenes : Scenes[s].ops \in 1..2 /\ Scenes[s].commits <= MaxUint64
                                  /\ Scenes[s].instants \subseteq Instant

NoOps ==
    [sourceUpserts |-> <<>>, retirements |-> {}, bindingUpserts |-> <<>>, linkUpserts |-> <<>>,
     factUpserts |-> <<>>, factWithdrawals |-> {}, serviceUpserts |-> <<>>,
     serviceWithdrawals |-> {}, capabilityUpserts |-> <<>>, capabilityWithdrawals |-> {},
     fences |-> <<>>]

One(k, v) == [x \in {k} |-> v]

Joined(p, q) ==
    [f \in DOMAIN NoOps |->
        IF f \in {"retirements", "factWithdrawals", "serviceWithdrawals", "capabilityWithdrawals"}
        THEN p[f] \cup q[f] ELSE With(p[f], q[f])]

\* The next revision of an object, or the first one of a new object.
Revisions(map, k) ==
    IF k \in DOMAIN map THEN {r \in {map[k].revision + 1} : r <= MaxUint64}
                        ELSE Scenes[cast.scene].first

NewSources(h) ==
    {One(<<h[1], h[2]>>, [profile |-> p, registry |-> e, state |-> "current", revision |-> r]) :
        p \in Profile, e \in cast.evidence, r \in Revisions(sources, <<h[1], h[2]>>)}

NewBindings(h) ==
    {One(id, [source |-> h[1], epoch |-> h[2], gen |-> h[3], resource |-> x,
              state |-> "current",
              revision |-> IF id \in DOMAIN bindings THEN bindings[id].revision ELSE r]) :
        id \in cast.bindings, x \in Resource, r \in Scenes[cast.scene].first}

NewLinks(h) ==
    UNION {{One(id, [state |-> s, basis |-> {e}, revision |-> r]) :
               s \in {"qualified", "withdrawn"}, e \in cast.evidence, r \in Revisions(links, id)}
             : id \in DOMAIN bindings}

NewServices(h) ==
    UNION {{One(id, [binding |-> x, epoch |-> h[2], gen |-> h[3], qualified |-> TRUE,
                     availability |-> a, revision |-> r]) :
               x \in DOMAIN bindings, a \in {"available", "degraded"},
               r \in Revisions(services, id)}
             : id \in Service}

NewCapabilities(h) ==
    UNION {{One(id, [service |-> v, binding |-> services[v].binding, epoch |-> h[2],
                     gen |-> h[3], qualified |-> TRUE, availability |-> a, revision |-> r]) :
               v \in DOMAIN services, a \in {"available", "degraded"},
               r \in Revisions(capabilities, id)}
             : id \in Capability}

\* Observations of bindings, and facts inferred from one current candidate.
NewObservations(h) ==
    UNION {{One(id, [assertion |-> "observed", key |-> key, value |-> v, source |-> h[1],
                     binding |-> x, epoch |-> h[2], gen |-> h[3],
                     times |-> [receivedAt |-> t.wall, receipt |-> t.mono],
                     policy |-> p, revision |-> r]) :
               key \in FactKey, v \in Value, x \in cast.bindings, t \in Scenes[cast.scene].instants, p \in Policy,
               r \in Revisions(candidates, id)}
             : id \in cast.candidates}

NewInferences(h) ==
    UNION {{One(id, [assertion |-> "inferred", key |-> key, value |-> v,
                     inputs |-> {[cand |-> d, revision |-> candidates[d].revision,
                                  paths |-> SourcePaths(candidates[d])]},
                     times |-> [receivedAt |-> t.wall, receipt |-> t.mono],
                     policy |-> p, revision |-> r]) :
               key \in FactKey, v \in Value, d \in DOMAIN candidates \ {id}, t \in Scenes[cast.scene].instants,
               p \in Policy, r \in Revisions(candidates, id)}
             : id \in cast.candidates}

Ops(h) ==
    LET Offered(kind, ops) == IF kind \in Scenes[cast.scene].kinds THEN ops ELSE {}
        mine == {k \in DOMAIN sources : k[1] = h[1]}
        live == {k \in DOMAIN cursors : k[1] = h[1] /\ k[2] = h[2]}
    IN  Offered("source", {[NoOps EXCEPT !.sourceUpserts = u] : u \in NewSources(h)})
        \cup Offered("retire", {[NoOps EXCEPT !.retirements = {k[2]}] : k \in mine})
        \cup Offered("fence", {[NoOps EXCEPT !.fences = One(k, {e})] : k \in live, e \in cast.evidence})
        \cup Offered("binding", {[NoOps EXCEPT !.bindingUpserts = u] : u \in NewBindings(h)})
        \cup Offered("link", {[NoOps EXCEPT !.linkUpserts = u] : u \in NewLinks(h)})
        \cup Offered("service", {[NoOps EXCEPT !.serviceUpserts = u] : u \in NewServices(h)}
                \cup {[NoOps EXCEPT !.serviceWithdrawals = {id}] : id \in DOMAIN services})
        \cup Offered("capability",
                {[NoOps EXCEPT !.capabilityUpserts = u] : u \in NewCapabilities(h)}
                \cup {[NoOps EXCEPT !.capabilityWithdrawals = {id}] : id \in DOMAIN capabilities})
        \cup Offered("fact",
                {[NoOps EXCEPT !.factUpserts = u] : u \in NewObservations(h) \cup NewInferences(h)}
                \cup {[NoOps EXCEPT !.factWithdrawals = {id}] : id \in cast.candidates})

\* What a driver must say to publish under h at all.
Prepared(h) ==
    LET others == {k \in DOMAIN sources : k[1] = h[1] /\ k[2] # h[2] /\ sources[k].state = "current"}
        older  == {k \in DOMAIN cursors : k[1] = h[1] /\ k[2] = h[2] /\ k[3] < h[3]
                                          /\ ~cursors[k].fenced}
        new    == <<h[1], h[2]>> \notin DOMAIN sources
    IN  {[NoOps EXCEPT !.sourceUpserts = u, !.retirements = {k[2] : k \in others},
                       !.fences = [k \in older |-> {e}]] :
            u \in IF new THEN NewSources(h) ELSE {<<>>}, e \in cast.evidence}

OfferedOps(h) ==
    LET base == Prepared(h)
        ops  == Ops(h)
        one  == {Joined(p, o) : p \in base, o \in ops}
    IN  base \cup ops \cup one
        \cup IF Scenes[cast.scene].ops = 1 THEN {} ELSE {Joined(p, o) : p \in one, o \in ops}

Offer(h, ops, now) ==
    LET bare == BareBatch(h, now)
    IN  [f \in DOMAIN bare |-> IF f \in DOMAIN ops THEN ops[f] ELSE bare[f]]

\* Batches that go wrong on the way: unreadable, computed from an older
\* snapshot, resent, resent with other bytes, out of sequence, damaged, refused
\* by a pack.
Faulty(b) ==
    {[b EXCEPT !.sealed = FALSE], [b EXCEPT !.malformed = {"dangling_reference"}],
     [b EXCEPT !.hook = {"invalid_value"}]}
    \cup {[b EXCEPT !.expected = x] : x \in {y \in {b.expected - 1} : y >= 0}}
    \cup {[b EXCEPT !.seq = x] : x \in {y \in {b.seq - 2, b.seq - 1, b.seq + 1} : y \in Revision}}
    \cup {[b EXCEPT !.seq = x, !.digest = d] : x \in {b.seq - 1} \cap Revision, d \in Digest}
    \cup {[b EXCEPT !.digest = d] : d \in Digest}

Offers(h, now) ==
    {b \in {Offer(h, ops, now) : ops \in OfferedOps(h)} : b.seq \in Revision}

FaultOffers(h, now) ==
    IF ~Scenes[cast.scene].faults THEN {} ELSE
    {b \in UNION {Faulty(Offer(h, ops, now)) : ops \in Prepared(h)} :
        b.seq \in Revision}

Unreadable(h, now) ==
    {[Offer(h, ops, now) EXCEPT !.seq = 1, !.malformed = {"invalid_contract"}] : ops \in Prepared(h)}

Headers == cast.sources \X cast.epochs \X Generation

\* The first two lines of a commit only keep TLC from staging batches that
\* CommitErrors refuses anyway.
MCNext ==
    /\ UNCHANGED cast
    /\ \E h \in Headers, now \in Scenes[cast.scene].instants :
          \/ \E b \in Offers(h, now) \cup FaultOffers(h, now) :
                /\ revisions.semantic < Scenes[cast.scene].commits /\ Advances(b)
                /\ OrderErrors(b) \cup EpochErrors(b) \cup GenerationErrors(b) \cup FenceErrors(b) = {}
                /\ Commit(b, now.mono)
          \/ \E b \in FaultOffers(h, now) : Replay(b, now.mono)
          \/ \E b \in Unreadable(h, now) : Reject(b, now.mono)

\* As many of each as the scene calls for, whichever they are.
MCInit ==
    /\ Init
    /\ \E s \in DOMAIN Scenes :
          cast \in [scene : {s}, sources : kSubset(Scenes[s].sources, Source),
                        epochs : kSubset(Scenes[s].epochs, Epoch),
                        bindings : kSubset(Scenes[s].bindings, Binding),
                        candidates : kSubset(Scenes[s].candidates, Candidate),
                        evidence : kSubset(Scenes[s].evidence, Evidence)]

MCSpec == MCInit /\ [][MCNext]_<<vars, cast>>

-----------------------------------------------------------------------------
(* Values for the constants. *)

Wall(ns) == [clock |-> UTC, ns |-> ns, unc |-> 0]
Mono(e, ns) == [epoch |-> e, ns |-> ns]
At(e, ns) == [wall |-> Wall(ns), mono |-> Mono(e, ns)]

OneInstant == {At("boot1", 0)}

\* Two readings of one boot, the second past every retention deadline...
Later == {At("boot1", 0), At("boot1", 2)}

\* ... and one shortly after a restart, which only the wall clock can relate to them.
Restart == Later \cup {[wall |-> Wall(1), mono |-> Mono("boot2", 0)]}

Walls == {i.wall : i \in Instant}
Monos == {i.mono : i \in Instant}

Policies == {[fresh |-> 1, retain |-> 2, maxUnc |-> 0]}
\* None of these has an order or a role of its own.
Symmetry == UNION {Permutations(S) : S \in {Source, Epoch, Binding, Candidate, Evidence}}

-----------------------------------------------------------------------------
(* Scenes. *)

Tree == {"retire", "fence", "binding", "link", "service", "capability"}

\* All operations on one object of each kind, two epochs, with faults.
Lifecycle ==
    [sources |-> 1, epochs |-> 2, bindings |-> 1, candidates |-> 0, evidence |-> 1,
     instants |-> OneInstant, kinds |-> Tree \cup {"source"}, faults |-> TRUE, ops |-> 2,
     first |-> {1}, commits |-> 4]

\* Generations that take over each other's candidates.
Handover ==
    [Lifecycle EXCEPT !.epochs = 1, !.bindings = 2, !.candidates = 2, !.faults = FALSE,
                      !.kinds = {"fence", "retire", "binding", "fact"}, !.commits = 5]

\* New objects at the first or at the last revision; two pieces of evidence.
Closing ==
    [Lifecycle EXCEPT !.evidence = 2, !.kinds = Tree, !.faults = FALSE, !.ops = 1,
                      !.first = {1, MaxUint64}, !.commits = 3]

\* Derivations and history, within and past the retention deadline.
Retention == [Handover EXCEPT !.instants = Later, !.ops = 1]

\* Two sources that use the same names.
Neighbours ==
    [Lifecycle EXCEPT !.sources = 2, !.bindings = 2, !.candidates = 1, !.faults = FALSE, !.ops = 1,
                      !.kinds = {"retire", "fence", "binding", "link", "service", "fact"}]

\* The history of two sources, over a restart.
History ==
    [Neighbours EXCEPT !.epochs = 1, !.bindings = 1, !.instants = Restart,
                       !.kinds = {"fence", "binding", "fact"}]

LifecycleScenes == [lifecycle |-> Lifecycle, handover |-> Handover]
ClosingScenes == [closing |-> Closing, retention |-> Retention]
SourceScenes == [neighbours |-> Neighbours, history |-> History]

WideLimits == [c \in Collections |-> 8]
NarrowLimits == [WideLimits EXCEPT !["fences"] = 1, !["retained"] = 1]
=============================================================================
