--------------------------- MODULE CandidateGraph ---------------------------
(***************************************************************************)
(* The derivation graph of fact candidates: which candidates of a staged   *)
(* map resolve against the post-state's bindings, and how the map is       *)
(* closed (closeCandidateGraph and candidateGraphResolver,                 *)
(* publication.go).                                                        *)
(*                                                                         *)
(* An observed candidate names one native path; an inferred candidate      *)
(* names inputs [cand, revision, paths], each pinned to an exact revision  *)
(* and to the exact source paths that input rests on.                      *)
(***************************************************************************)
EXTENDS Errors, FiniteSets

CONSTANTS MaxNodes,    \* maxDerivationNodes (maxStagedDerivationNodes is twice that)
          MaxDepth,    \* maxDerivationDepth
          MaxPaths     \* source paths one candidate may rest on

ASSUME GraphAssumption == /\ MaxNodes \in Nat
                          /\ MaxDepth \in Nat \ {0}
                          /\ MaxPaths \in Nat

Observed(c) == c.assertion = "observed"

PathOf(c) == <<c.binding, c.source, c.epoch, c.gen>>

\* The paths a resolved candidate rests on.  An input only resolves with
\* exactly the paths its dependant declares, so the declaration is enough.
SourcePaths(c) ==
    IF Observed(c) THEN {PathOf(c)} ELSE UNION {i.paths : i \in c.inputs}

Inputs(c) == IF Observed(c) THEN {} ELSE c.inputs

\* Mutant: any revision of the input will do.
PresentByName(cands, i) == i.cand \in DOMAIN cands

\* An input pins the revision it was computed from.
Present(cands, i) ==
    i.cand \in DOMAIN cands /\ cands[i.cand].revision = i.revision

LifecycleError(binding) ==
    IF binding.state = "retired" THEN "stale_source_epoch"
                                 ELSE "stale_driver_generation"

\* Mutant: a tombstoned binding still carries its observations.
PathWithoutLifecycle(c, bindings) ==
    IF c.binding \notin DOMAIN bindings THEN {"dangling_reference"}
    ELSE Flag(<<bindings[c.binding].source, bindings[c.binding].epoch,
                bindings[c.binding].gen>> # <<c.source, c.epoch, c.gen>>,
              "dangling_reference")

\* What is wrong with an observed candidate by itself.
PathErrors(c, bindings) ==
    IF c.binding \notin DOMAIN bindings THEN {"dangling_reference"}
    ELSE IF bindings[c.binding].state # "current"
         THEN {LifecycleError(bindings[c.binding])}
    ELSE Flag(<<bindings[c.binding].source, bindings[c.binding].epoch,
                bindings[c.binding].gen>> # <<c.source, c.epoch, c.gen>>,
              "dangling_reference")

\* The candidates that resolve with a derivation at most depth long.
Resolved(cands, bindings, depth) ==
    LET level[n \in 0..depth] ==
          IF n = 0 THEN {}
          ELSE {id \in DOMAIN cands :
                  /\ Observed(cands[id]) => PathErrors(cands[id], bindings) = {}
                  /\ Cardinality(SourcePaths(cands[id])) <= MaxPaths
                  /\ \A i \in Inputs(cands[id]) :
                        /\ Present(cands, i)
                        /\ i.cand \in level[n - 1]
                        /\ SourcePaths(cands[i.cand]) = i.paths}
    IN  level[depth]

\* The candidates an id rests on directly, along inputs that are present.
Direct(cands, id) == {i.cand : i \in {j \in Inputs(cands[id]) : Present(cands, j)}}

\* ... and through any number of steps.
Dependencies(cands, id) ==
    LET reach[n \in 0..Cardinality(DOMAIN cands)] ==
            IF n = 0 THEN Direct(cands, id)
            ELSE reach[n - 1] \cup UNION {Direct(cands, d) : d \in reach[n - 1]}
    IN  reach[Cardinality(DOMAIN cands)]

\* resolve / resolveCycle: what the node itself contributes to its failure.
LocalErrors(cands, bindings, id) ==
    LET c        == cands[id]
        resolved == Resolved(cands, bindings, MaxDepth)
        deepest  == resolved \ Resolved(cands, bindings, MaxDepth - 1)
        present  == {i \in Inputs(c) : Present(cands, i)}
        usable   == {i \in present : i.cand \in resolved}
        cyclic   == id \in Dependencies(cands, id)
    IN  IF Observed(c) THEN PathErrors(c, bindings)
        ELSE Flag(present # Inputs(c), "dangling_reference")
             \cup Flag(\E i \in usable : SourcePaths(cands[i.cand]) # i.paths,
                       "dangling_reference")
             \cup Flag(cyclic \/ \E i \in usable : i.cand \in deepest, "derivation_cycle")
             \cup Flag(~cyclic /\ Cardinality(UNION {SourcePaths(cands[i.cand]) : i \in usable})
                                    > MaxPaths,
                       "bounds_exceeded")

\* A failure is inherited by everything that depends on it.
NodeErrors(cands, bindings, id) ==
    UNION {LocalErrors(cands, bindings, d) : d \in {id} \cup Dependencies(cands, id)}

\* Mutant: only the node whose own path is gone is dropped.
ClosedWithoutCascade(cands, upserted, bindings) ==
    [id \in {d \in DOMAIN cands : d \in upserted \/ ~Observed(cands[d])
                                    \/ PathErrors(cands[d], bindings) = {}}
        |-> cands[id]]

\* closeCandidateGraph: a node this batch did not supply and that no longer
\* resolves is dropped with everything resting on it...
Closed(cands, upserted, bindings) ==
    [id \in {d \in DOMAIN cands : d \in upserted \/ NodeErrors(cands, bindings, d) = {}}
        |-> cands[id]]

\* ... but a node the batch supplies must resolve.
CloseErrors(cands, upserted, bindings) ==
    Flag(Cardinality(DOMAIN cands) > 2 * MaxNodes, "bounds_exceeded")
    \cup (UNION {NodeErrors(cands, bindings, id) : id \in upserted \cap DOMAIN cands})
    \cup Flag(Cardinality(DOMAIN Closed(cands, upserted, bindings)) > MaxNodes,
              "bounds_exceeded")
=============================================================================
