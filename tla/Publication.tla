---------------------------- MODULE Publication -----------------------------
(***************************************************************************)
(* The publication kernel of one asset (publication.go): the point where   *)
(* the drivers of several native sources publish batches against one       *)
(* immutable snapshot.                                                     *)
(*                                                                         *)
(* A driver publishes as (source, epoch, generation).  Replacing a driver  *)
(* fences its generation; replacing the sequencing domain of a source      *)
(* retires its epoch.  Either turns the bindings below it into tombstones  *)
(* and moves their observations into retained history.  A batch carries    *)
(* the semantic revision it was computed from and a sequence number of its *)
(* own cursor; Apply either commits the whole batch or changes nothing.    *)
(*                                                                         *)
(* The snapshot's collections are finite maps (functions), as they are in  *)
(* applyTo.  Member validation that needs no state (JSON shape, enums,     *)
(* ordering, digests of members, pack hooks) is the batch's own `malformed`*)
(* and `hook` sets: the identifiers those checks report for it.            *)
(*                                                                         *)
(* applyTo goes on after a failed operation to collect further errors.     *)
(* Here the verdict is empty exactly when the code's is; for a batch with  *)
(* several errors the set may differ in members that stem from an operation*)
(* the code had already skipped, so which of them ranks first (BestError)  *)
(* is not something this module speaks about.                              *)
(***************************************************************************)
EXTENDS Freshness, CandidateGraph

CONSTANTS Source, Epoch, Generation,          \* publisher identities
          Binding, Service, Capability,       \* object identities
          Candidate, FactKey, Value,
          Profile, Evidence, Resource,
          Digest,                             \* digests of batch bytes
          TimePoint, MonotonicPoint, Policy,
          Limit,                              \* maxSnapshot... by collection
          MaxEvidence,                        \* evidence references in one basis
          Never                               \* no snapshot yet

Collections == {"sources", "bindings", "links", "envelopes", "retained",
                "services", "capabilities", "fences", "cursors"}

ASSUME PublicationAssumption ==
    /\ Generation \subseteq 1..MaxUint64
    /\ Limit \in [Collections -> Nat]
    /\ MaxEvidence \in Nat
    /\ IsFiniteSet(Candidate)      \* an identifier has at most 128 bytes

VARIABLES
    sources,       \* <<source, epoch>> -> source descriptor
    bindings,      \* binding id        -> native binding
    links,         \* binding id        -> identity link
    services,      \* service id        -> service instance
    capabilities,  \* capability id     -> capability instance
    candidates,    \* candidate id      -> current fact candidate
    envelopes,     \* fact key          -> envelope revision
    retained,      \* retained identity -> retained observation
    fences,        \* cursor key        -> evidence of the generation fence
    cursors,       \* cursor key        -> publication cursor
    revisions,     \* the revision vector; all zero while there is no snapshot
    evaluatedAt,   \* [wall, mono] of the last commit, or Never
    replays        \* cursor key        -> semantic revision its last batch produced

vars == <<sources, bindings, links, services, capabilities, candidates, envelopes,
          retained, fences, cursors, revisions, evaluatedAt, replays>>

-----------------------------------------------------------------------------
(* Records. *)

Revision == 1..MaxUint64
Map(D, R) == UNION {[S -> R] : S \in SUBSET D}

SourceKey == Source \X Epoch
CursorKey == Source \X Epoch \X Generation

SourceRecord  == [profile : Profile, registry : Evidence,
                  state : {"current", "retired"}, revision : Revision]
BindingRecord == [source : Source, epoch : Epoch, gen : Generation, resource : Resource,
                  state : {"current", "fenced", "retired"}, revision : Revision]
LinkRecord    == [state : {"candidate", "qualified", "withdrawn"},
                  basis : SUBSET Evidence, revision : Revision]
Availability  == {"available", "degraded", "unavailable", "withdrawn"}
ServiceRecord == [binding : Binding, epoch : Epoch, gen : Generation, qualified : BOOLEAN,
                  availability : Availability, revision : Revision]
CapabilityRecord == [service : Service, binding : Binding, epoch : Epoch, gen : Generation,
                     qualified : BOOLEAN, availability : Availability, revision : Revision]
Times         == [receivedAt : TimePoint, receipt : MonotonicPoint]
ObservedRecord == [assertion : {"observed"}, key : FactKey, value : Value, source : Source,
                   binding : Binding, epoch : Epoch, gen : Generation,
                   times : Times, policy : Policy, revision : Revision]
SourcePathRef == Binding \X Source \X Epoch \X Generation
InputRecord   == [cand : Candidate, revision : Revision, paths : SUBSET SourcePathRef]
InferredRecord == [assertion : {"inferred"}, key : FactKey, value : Value,
                   inputs : SUBSET InputRecord,
                   times : Times, policy : Policy, revision : Revision]
CandidateRecord == ObservedRecord \cup InferredRecord
CursorRecord  == [seq : Revision, digest : Digest, fenced : BOOLEAN]
RetainedIdentity == Candidate \X Revision \X FactKey \X Binding \X Epoch \X Generation
RetainedRecord == [cand : Candidate, candidate : ObservedRecord,
                   removal : {"generation_fence", "source_retirement"}]
RevisionVector == [semantic : Nat, identity : Nat, facts : Nat, services : Nat,
                   capabilities : Nat]

Batch ==
    [source : Source, epoch : Epoch, gen : Generation, seq : Revision,
     expected : 0..MaxUint64, digest : Digest, sealed : BOOLEAN, observedAt : TimePoint,
     malformed : SUBSET ErrorID, hook : SUBSET ErrorID,
     sourceUpserts : Map(SourceKey, SourceRecord), retirements : SUBSET Epoch,
     bindingUpserts : Map(Binding, BindingRecord), linkUpserts : Map(Binding, LinkRecord),
     factUpserts : Map(Candidate, CandidateRecord), factWithdrawals : SUBSET Candidate,
     serviceUpserts : Map(Service, ServiceRecord), serviceWithdrawals : SUBSET Service,
     capabilityUpserts : Map(Capability, CapabilityRecord),
     capabilityWithdrawals : SUBSET Capability,
     fences : Map(CursorKey, SUBSET Evidence)]

\* The map m with the entries of u put into it.
With(m, u) == [k \in DOMAIN m \cup DOMAIN u |-> IF k \in DOMAIN u THEN u[k] ELSE m[k]]
Without(m, S) == [k \in DOMAIN m \ S |-> m[k]]

Key(b) == <<b.source, b.epoch, b.gen>>
KeyOf(r) == <<r.source, r.epoch, r.gen>>

\* increment: one past the largest Uint64 is caught by the record's validation.
Bumped(r) == [r EXCEPT !.revision = @ + 1]
SameContent(old, new) == [old EXCEPT !.revision = 0] = [new EXCEPT !.revision = 0]

\* validateRevisionedUpsert: an identical record is a no-op, any other one must
\* change something and be the next revision.
UpsertErrors(old, new) ==
    Flag(old # new /\ (SameContent(old, new) \/ new.revision # old.revision + 1),
         "revision_conflict")

\* Mutant: no normalisation, so a batch that composes transitions skips revisions.
NormalizedNever(before, after) == after

\* normalizeObjectRevisions: however many transitions one batch composes, an
\* object that changed moves exactly one revision and one that did not, none.
Normalized(before, after) ==
    [k \in DOMAIN after |->
        IF k \notin DOMAIN before THEN after[k]
        ELSE [after[k] EXCEPT !.revision =
                IF SameContent(before[k], after[k]) THEN before[k].revision
                                                    ELSE before[k].revision + 1]]

-----------------------------------------------------------------------------
(* The staged post-state of a batch (applyTo). *)

\* Fences of cursors that exist; the others are reported and have no effect.
FencedKeys(b) == DOMAIN b.fences \cap DOMAIN cursors

\* Mutant: the epoch of every source of that name is retired.
RetiringByName(b, k) == k[2] \in b.retirements

Retiring(b, k) == k[1] = b.source /\ k[2] \in b.retirements

StagedSources(b) ==
    LET staged == With(sources, b.sourceUpserts)
    IN  [k \in DOMAIN staged |->
            IF Retiring(b, k) THEN Bumped([staged[k] EXCEPT !.state = "retired"])
                              ELSE staged[k]]

PostSources(b) == Normalized(sources, StagedSources(b))

\* The epochs that are retired: those the source has.
RetiredBy(b, r) == /\ Retiring(b, <<r.source, r.epoch>>)
                   /\ <<r.source, r.epoch>> \in DOMAIN StagedSources(b)
FencedBy(b, r)  == KeyOf(r) \in FencedKeys(b)

\* transitionBinding, for the binding itself: fence first, then retire; the
\* stronger tombstone is the last one.
Transitioned(b, r) ==
    LET fenced  == IF FencedBy(b, r) /\ r.state # "fenced"
                   THEN Bumped([r EXCEPT !.state = "fenced"]) ELSE r
    IN  IF RetiredBy(b, r) /\ fenced.state # "retired"
        THEN Bumped([fenced EXCEPT !.state = "retired"]) ELSE fenced

TransitionedBindings(b) == [id \in DOMAIN bindings |-> Transitioned(b, bindings[id])]

StagedBindings(b) == With(TransitionedBindings(b), b.bindingUpserts)
PostBindings(b)   == Normalized(bindings, StagedBindings(b))

\* Mutant: a retirement forgets what hangs off the binding.
TouchedByFence(b, id) == id \in DOMAIN bindings /\ FencedBy(b, bindings[id])

\* The binding exists before the batch and the batch takes it out of service.
Touched(b, id) == /\ id \in DOMAIN bindings
                  /\ FencedBy(b, bindings[id]) \/ RetiredBy(b, bindings[id])

\* transitionBinding, for what hangs off the binding.
FenceEvidence(b, id) ==
    IF FencedBy(b, bindings[id]) THEN b.fences[KeyOf(bindings[id])] ELSE {}

WithdrawnLink(l, evidence) ==
    IF l.state = "withdrawn" /\ evidence \subseteq l.basis THEN l
    ELSE Bumped([l EXCEPT !.state = "withdrawn", !.basis = @ \cup evidence])

Withdrawn(o) ==
    IF o.availability = "withdrawn" THEN o
    ELSE Bumped([o EXCEPT !.availability = "withdrawn"])

TransitionedLinks(b) ==
    [id \in DOMAIN links |->
        IF Touched(b, id) THEN WithdrawnLink(links[id], FenceEvidence(b, id)) ELSE links[id]]

PostLinks(b) == Normalized(links, With(TransitionedLinks(b), b.linkUpserts))

\* Services and capabilities alike: the transition, the upserts, and then the
\* withdrawals of objects the snapshot already had.
StagedObjects(b, objects, upserts, withdrawals) ==
    LET moved  == [id \in DOMAIN objects |->
                      IF Touched(b, objects[id].binding) THEN Withdrawn(objects[id])
                                                         ELSE objects[id]]
        staged == With(moved, upserts)
    IN  [id \in DOMAIN staged |->
            IF id \in withdrawals \cap DOMAIN objects THEN Withdrawn(staged[id])
                                                      ELSE staged[id]]

StagedServices(b) == StagedObjects(b, services, b.serviceUpserts, b.serviceWithdrawals)
StagedCapabilities(b) ==
    StagedObjects(b, capabilities, b.capabilityUpserts, b.capabilityWithdrawals)
PostServices(b)     == Normalized(services, StagedServices(b))
PostCapabilities(b) == Normalized(capabilities, StagedCapabilities(b))

\* Facts: upserts, withdrawals, and the cascade over everything that rested on
\* a candidate or a binding that is gone.
StagedCandidates(b) == Without(With(candidates, b.factUpserts), b.factWithdrawals)

PostCandidates(b) ==
    Closed(StagedCandidates(b), DOMAIN b.factUpserts, StagedBindings(b))

Group(cands, key) ==
    [id \in {d \in DOMAIN cands : cands[d].key = key} |-> cands[id]]

\* rebuildEnvelopes: an envelope moves one revision when its candidates change
\* (conflicts are a function of them) and starts over when it reappears.
PostEnvelopes(b) ==
    LET post == PostCandidates(b)
    IN  [key \in {post[id].key : id \in DOMAIN post} |->
            IF key \notin DOMAIN envelopes THEN 1
            ELSE IF Group(candidates, key) = Group(post, key) THEN envelopes[key]
            ELSE envelopes[key] + 1]

\* retainedObservationIdentity
RetainedID(id, c) == <<id, c.revision, c.key, c.binding, c.epoch, c.gen>>

Removal(r) == IF r.state = "retired" THEN "source_retirement" ELSE "generation_fence"

\* The retained observations of the given candidate ids.
Retaining(ids, after) ==
    [rid \in {RetainedID(id, candidates[id]) : id \in ids} |->
        [cand      |-> rid[1],
         candidate |-> candidates[rid[1]],
         removal   |-> Removal(after[rid[4]])]]

\* The observations of the given ids whose own binding leaves service.
Leaving(ids, after) ==
    {id \in ids : /\ Observed(candidates[id])
                  /\ candidates[id].binding \in DOMAIN after
                  /\ after[candidates[id].binding].state # "current"}

\* Mutant: a candidate id that is observed again loses its history.
RetainedUnlessReplaced(b) ==
    LET ids == DOMAIN candidates \ (b.factWithdrawals \cup DOMAIN b.factUpserts)
    IN  Retaining(Leaving(ids, StagedBindings(b)), StagedBindings(b))

\* Every observation whose own binding leaves service is kept as it was, even
\* when the batch gives its candidate id a new observation.
NewlyRetained(b) ==
    LET after == StagedBindings(b)
    IN  Retaining(Leaving(DOMAIN candidates \ b.factWithdrawals, after), after)

StagedRetained(b) ==
    With(Without(retained, {rid \in DOMAIN retained : retained[rid].cand \in b.factWithdrawals}),
         NewlyRetained(b))

\* Retention ends at the observation's own deadline, judged at the instant of
\* the publication.
Context(b, m) == [wall |-> b.observedAt, mono |-> m]
RetainedFreshness(record, context) ==
    EvaluateFreshness(record.candidate.times, record.candidate.policy, context)

\* Mutant: history ends when it is stale.
RetainedWhileFresh(b, m) ==
    LET staged == StagedRetained(b)
    IN  Without(staged, {rid \in DOMAIN staged :
                            RetainedFreshness(staged[rid], Context(b, m)) \in {"stale", "expired"}})

PostRetained(b, m) ==
    LET staged == StagedRetained(b)
    IN  Without(staged, {rid \in DOMAIN staged :
                            RetainedFreshness(staged[rid], Context(b, m)) = "expired"})

RetentionErrors(b, m) ==
    LET staged == StagedRetained(b)
    IN  Flag(\E rid \in DOMAIN staged :
                RetainedFreshness(staged[rid], Context(b, m)) = "invalid_time",
             "invalid_time")
        \cup Flag(Cardinality(DOMAIN PostRetained(b, m)) > Limit["retained"],
                  "bounds_exceeded")

PostFences(b) == With(fences, [k \in FencedKeys(b) |-> b.fences[k]])

\* Mutant: a cursor keeps the digest of its first batch.
CursorsKeepDigest(b) ==
    LET fenced == [k \in DOMAIN cursors |->
                      IF k \in FencedKeys(b) THEN [cursors[k] EXCEPT !.fenced = TRUE]
                                             ELSE cursors[k]]
    IN  With(fenced, [k \in {Key(b)} |->
                        [seq |-> b.seq, fenced |-> k \in DOMAIN b.fences,
                         digest |-> IF k \in DOMAIN cursors THEN cursors[k].digest
                                                            ELSE b.digest]])

PostCursors(b) ==
    LET fenced == [k \in DOMAIN cursors |->
                      IF k \in FencedKeys(b) THEN [cursors[k] EXCEPT !.fenced = TRUE]
                                             ELSE cursors[k]]
    IN  With(fenced, [k \in {Key(b)} |->
                        [seq |-> b.seq, digest |-> b.digest, fenced |-> k \in DOMAIN b.fences]])

\* nextRevisionVector
NextRevision(changed, r) == IF changed THEN r + 1 ELSE r

PostRevisions(b, m) ==
    IF revisions.semantic = 0
    THEN [semantic |-> 1, identity |-> 1, facts |-> 1, services |-> 1, capabilities |-> 1]
    ELSE [semantic |-> revisions.semantic + 1,
          identity |-> NextRevision(\/ PostSources(b) # sources \/ PostBindings(b) # bindings
                             \/ PostLinks(b) # links \/ PostFences(b) # fences,
                             revisions.identity),
          facts    |-> NextRevision(\/ PostCandidates(b) # candidates \/ PostEnvelopes(b) # envelopes
                             \/ PostRetained(b, m) # retained,
                             revisions.facts),
          services |-> NextRevision(PostServices(b) # services, revisions.services),
          capabilities |-> NextRevision(PostCapabilities(b) # capabilities, revisions.capabilities)]

-----------------------------------------------------------------------------
(* What is wrong with a batch before any state is looked at. *)

\* validateStructure: tombstones are the kernel's to write, never a publisher's.
PublisherTombstones(b) ==
    Flag(\/ \E k \in DOMAIN b.sourceUpserts : b.sourceUpserts[k].state = "retired"
         \/ \E id \in DOMAIN b.bindingUpserts : b.bindingUpserts[id].state = "retired",
         "stale_source_epoch")
    \cup Flag(\E id \in DOMAIN b.bindingUpserts : b.bindingUpserts[id].state = "fenced",
              "stale_driver_generation")

\* publicationHeaderOwnershipError
HeaderOwnershipErrors(b) ==
    Flag(\/ \E k \in DOMAIN b.sourceUpserts : k[1] # b.source
         \/ \E id \in DOMAIN b.bindingUpserts : KeyOf(b.bindingUpserts[id]) # Key(b)
         \/ \E k \in DOMAIN b.fences : k[1] # b.source \/ k[2] # b.epoch
         \/ \E id \in DOMAIN b.factUpserts :
               Observed(b.factUpserts[id]) /\ KeyOf(b.factUpserts[id]) # Key(b)
         \/ \E id \in DOMAIN b.serviceUpserts :
               \/ b.serviceUpserts[id].epoch # b.epoch
               \/ b.serviceUpserts[id].gen # b.gen
         \/ \E id \in DOMAIN b.capabilityUpserts :
               \/ b.capabilityUpserts[id].epoch # b.epoch
               \/ b.capabilityUpserts[id].gen # b.gen,
         "invalid_value")

StructureErrors(b) == b.malformed \cup PublisherTombstones(b) \cup HeaderOwnershipErrors(b)

\* publicationRetainedSourceOwnershipError: an object the snapshot already
\* holds stays with the source of its binding, whatever its lifecycle.
ForeignBinding(b, id) == id \in DOMAIN bindings /\ bindings[id].source # b.source

ForeignObjects(b, objects, upserts, withdrawals) ==
    \/ \E id \in DOMAIN upserts : ForeignBinding(b, upserts[id].binding)
    \/ \E id \in (DOMAIN upserts \cup withdrawals) \cap DOMAIN objects :
          ForeignBinding(b, objects[id].binding)

RetainedOwnershipErrors(b) ==
    Flag(\/ \E id \in DOMAIN b.linkUpserts : ForeignBinding(b, id)
         \/ \E id \in DOMAIN b.factUpserts :
               Observed(b.factUpserts[id]) /\ ForeignBinding(b, b.factUpserts[id].binding)
         \/ \E id \in (DOMAIN b.factUpserts \cup b.factWithdrawals) \cap DOMAIN candidates :
               Observed(candidates[id]) /\ ForeignBinding(b, candidates[id].binding)
         \/ ForeignObjects(b, services, b.serviceUpserts, b.serviceWithdrawals)
         \/ ForeignObjects(b, capabilities, b.capabilityUpserts, b.capabilityWithdrawals),
         "invalid_value")

-----------------------------------------------------------------------------
(* Order: cursors, generations, the semantic revision. *)

KnownCursor(b) == Key(b) \in DOMAIN cursors

\* Mutant: an accepted sequence number is accepted again.
AdvancesOrRepeats(b) == KnownCursor(b) => b.seq >= cursors[Key(b)].seq

Advances(b) == KnownCursor(b) => b.seq > cursors[Key(b)].seq

\* Mutant: only live generations are compared with the batch's.
OrderWithoutRegression(b) ==
    Flag(KnownCursor(b) /\ cursors[Key(b)].fenced, "stale_driver_generation")
    \cup Flag(~KnownCursor(b) /\ b.seq # 1, "sequence_conflict")
    \cup Flag(~b.sealed, "digest_mismatch")
    \cup Flag(b.expected # revisions.semantic, "revision_conflict")

OrderErrors(b) ==
    Flag(KnownCursor(b) /\ cursors[Key(b)].fenced, "stale_driver_generation")
    \cup Flag(~KnownCursor(b) /\ b.seq # 1, "sequence_conflict")
    \cup Flag(\E k \in DOMAIN cursors : k[1] = b.source /\ k[2] = b.epoch /\ b.gen < k[3],
              "stale_driver_generation")
    \cup Flag(~b.sealed, "digest_mismatch")
    \cup Flag(b.expected # revisions.semantic, "revision_conflict")

-----------------------------------------------------------------------------
(* What applyTo reports, operation by operation, in the code's order. *)

\* Mutant: a retired epoch may publish again.
EpochWithoutRetired(b) ==
    Flag(\E e \in b.retirements :
            \/ <<b.source, e>> \notin DOMAIN sources
            \/ sources[<<b.source, e>>].state # "current",
         "stale_source_epoch")
    \cup Flag(\E k \in DOMAIN sources :
                 /\ k[1] = b.source /\ sources[k].state = "current"
                 /\ k[2] # b.epoch /\ k[2] \notin b.retirements,
              "stale_source_epoch")

\* Mutant: the other epochs of the source are judged before the retirements.
EpochBeforeRetirement(b) ==
    Flag(\E k \in DOMAIN sources :
            k[1] = b.source /\ k[2] # b.epoch /\ sources[k].state = "current",
         "stale_source_epoch")
    \cup Flag(/\ <<b.source, b.epoch>> \in DOMAIN sources
              /\ sources[<<b.source, b.epoch>>].state # "current",
              "stale_source_epoch")

\* Mutant: a current epoch of any source stands in the way.
EpochOfAnySource(b) ==
    Flag(\E k \in DOMAIN sources :
            k[2] # b.epoch /\ k[2] \notin b.retirements /\ sources[k].state = "current",
         "stale_source_epoch")

EpochErrors(b) ==
    Flag(\E e \in b.retirements :
            \/ <<b.source, e>> \notin DOMAIN sources
            \/ sources[<<b.source, e>>].state # "current",
         "stale_source_epoch")
    \cup Flag(\E k \in DOMAIN sources :
                 /\ k[1] = b.source /\ sources[k].state = "current"
                 /\ k[2] # b.epoch /\ k[2] \notin b.retirements,
              "stale_source_epoch")
    \cup Flag(/\ <<b.source, b.epoch>> \in DOMAIN sources
              /\ sources[<<b.source, b.epoch>>].state # "current",
              "stale_source_epoch")

\* A new profile needs a new sequencing domain, so only an epoch this batch
\* also retires, and does not publish under, may change it.
KnownSourceErrors(b, k) ==
    UpsertErrors(sources[k], b.sourceUpserts[k])
    \cup Flag(sources[k].state # "current", "stale_source_epoch")
    \cup Flag(/\ sources[k].profile # b.sourceUpserts[k].profile
              /\ k[2] \notin b.retirements \/ k[2] = b.epoch,
              "stale_source_epoch")

SourceErrors(b) ==
    (UNION {KnownSourceErrors(b, k) : k \in DOMAIN b.sourceUpserts \cap DOMAIN sources})
    \cup Flag(<<b.source, b.epoch>> \notin DOMAIN sources \cup DOMAIN b.sourceUpserts,
              "dangling_reference")

\* Mutant: a fenced generation must be fenced again.
AllKeys(b) == {k \in DOMAIN cursors : k[1] = b.source /\ k[2] = b.epoch}

\* The cursors of the header epoch that no fence has closed.
LiveKeys(b) == {k \in DOMAIN cursors : k[1] = b.source /\ k[2] = b.epoch /\ ~cursors[k].fenced}

GenerationErrors(b) ==
    Flag(\E k \in LiveKeys(b) : b.gen < k[3], "stale_driver_generation")
    \cup Flag(\E k \in LiveKeys(b) : b.gen > k[3] /\ k \notin DOMAIN b.fences,
              "generation_transition_incomplete")

FenceErrors(b) ==
    Flag(\E k \in DOMAIN b.fences : k \notin DOMAIN cursors, "dangling_reference")
    \cup Flag(\E k \in FencedKeys(b) : cursors[k].fenced \/ k \in DOMAIN fences \/ k[3] > b.gen,
              "stale_driver_generation")
    \cup Flag(/\ Key(b) \in DOMAIN b.fences
              /\ \/ DOMAIN b.bindingUpserts # {} \/ DOMAIN b.linkUpserts # {}
                 \/ DOMAIN b.serviceUpserts # {} \/ DOMAIN b.capabilityUpserts # {},
              "stale_driver_generation")

\* unionEvidence: a fence adds its evidence to every link it withdraws.
TransitionErrors(b) ==
    Flag(\E id \in DOMAIN links :
            /\ Touched(b, id)
            /\ Cardinality(links[id].basis \cup FenceEvidence(b, id)) > MaxEvidence,
         "bounds_exceeded")

OwnerErrors(b, r) ==
    LET after == StagedSources(b)
        owner == <<r.source, r.epoch>>
    IN  IF owner \notin DOMAIN after THEN {"dangling_reference"}
        ELSE Flag(after[owner].state # "current", "stale_source_epoch")

KnownBindingErrors(before, r) ==
    Flag(before.state # "current", LifecycleError(before))
    \cup Flag(KeyOf(before) # KeyOf(r) \/ before.resource # r.resource, "identity_not_qualified")
    \cup UpsertErrors(before, r)

BindingErrors(b) ==
    (UNION {OwnerErrors(b, b.bindingUpserts[id]) : id \in DOMAIN b.bindingUpserts})
    \cup (UNION {KnownBindingErrors(TransitionedBindings(b)[id], b.bindingUpserts[id])
                   : id \in DOMAIN b.bindingUpserts \cap DOMAIN bindings})

LifecycleOrValue(r) ==
    IF r.state # "current" THEN LifecycleError(r) ELSE "invalid_value"

\* validatePriorBindingForBatch: an object keeps to the generation it was
\* published under.
PriorBindingErrors(b, id) ==
    LET before == TransitionedBindings(b)
    IN  IF id \notin DOMAIN before THEN {"dangling_reference"}
        ELSE IF before[id].source # b.source THEN {"invalid_value"}
        ELSE IF before[id].state # "current" THEN {LifecycleError(before[id])}
        ELSE Flag(KeyOf(before[id]) # Key(b), "invalid_value")

LinkUpsertErrors(b, id) ==
    LET after == StagedBindings(b)
        prior == TransitionedLinks(b)
    IN  (IF id \in DOMAIN bindings THEN PriorBindingErrors(b, id) ELSE {})
        \cup (IF id \notin DOMAIN after THEN {"dangling_reference"}
              ELSE Flag(KeyOf(after[id]) # Key(b) \/ after[id].state # "current",
                        LifecycleOrValue(after[id]))
                   \cup (IF id \notin DOMAIN prior THEN {}
                         ELSE Flag(prior[id].state = "withdrawn", LifecycleError(after[id]))
                              \cup UpsertErrors(prior[id], b.linkUpserts[id])))

LinkErrors(b) == UNION {LinkUpsertErrors(b, id) : id \in DOMAIN b.linkUpserts}

\* validateObservedForBatch
ObservedErrors(b, c) ==
    LET after == StagedBindings(b)
    IN  Flag(KeyOf(c) # Key(b), "invalid_value")
        \cup (IF c.binding \notin DOMAIN after THEN {"dangling_reference"}
              ELSE Flag(KeyOf(after[c.binding]) # Key(b), "invalid_value")
                   \cup Flag(after[c.binding].state # "current",
                             LifecycleError(after[c.binding])))

KnownFactErrors(b, id) ==
    Flag(Observed(candidates[id]) /\ bindings[candidates[id].binding].source # b.source,
         "invalid_value")
    \cup UpsertErrors(candidates[id], b.factUpserts[id])

FactUpsertErrors(b) ==
    b.hook
    \cup (UNION {ObservedErrors(b, b.factUpserts[id])
                   : id \in {d \in DOMAIN b.factUpserts : Observed(b.factUpserts[d])}})
    \cup (UNION {KnownFactErrors(b, id) : id \in DOMAIN b.factUpserts \cap DOMAIN candidates})
    \cup Flag(Cardinality(DOMAIN candidates \cup DOMAIN b.factUpserts) > 2 * MaxNodes,
              "bounds_exceeded")

\* withdrawalCovered: the publisher owns the path, or is closing it.
Covered(b, r) ==
    /\ r.source = b.source
    /\ \/ KeyOf(r) = Key(b)
       \/ KeyOf(r) \in DOMAIN b.fences
       \/ r.epoch \in b.retirements

\* Mutant: history is withdrawn by whoever knows the candidate's id.
HistoryOfAnySource(b, id) ==
    LET after   == StagedBindings(b)
        history == {rid \in DOMAIN retained : retained[rid].cand = id}
    IN  Flag(id \notin DOMAIN candidates /\ history = {}, "dangling_reference")
        \cup Flag(\E rid \in history :
                     LET old == retained[rid].candidate.binding
                     IN  old \notin DOMAIN after \/ after[old].state = "current",
                  "invalid_value")

HistoryWithdrawalErrors(b, id) ==
    LET after   == StagedBindings(b)
        history == {rid \in DOMAIN retained : retained[rid].cand = id}
    IN  Flag(id \notin DOMAIN candidates /\ history = {}, "dangling_reference")
        \cup Flag(\E rid \in history :
                     LET old == retained[rid].candidate.binding
                     IN  \/ old \notin DOMAIN after
                         \/ after[old].source # b.source
                         \/ after[old].state = "current",
                  "invalid_value")

ObservedWithdrawalErrors(b, c) ==
    Flag(\/ <<b.source, c.epoch, c.gen>> \in DOMAIN b.fences
         \/ c.epoch \in b.retirements
         \/ ~Covered(b, bindings[c.binding]),
         "invalid_value")

FactWithdrawalErrors(b) ==
    (UNION {HistoryWithdrawalErrors(b, id) : id \in b.factWithdrawals})
    \cup (UNION {ObservedWithdrawalErrors(b, candidates[id])
                   : id \in {d \in b.factWithdrawals \cap DOMAIN candidates :
                                Observed(candidates[d])}})

WithdrawalErrors(b, objects, withdrawals) ==
    UNION {IF id \notin DOMAIN objects THEN {"dangling_reference"}
           ELSE Flag(~Covered(b, bindings[objects[id].binding]), "invalid_value")
             : id \in withdrawals}

\* Mutant: an instance that was withdrawn on a live binding comes back.
PriorWithoutTombstone(b, old, new) ==
    PriorBindingErrors(b, old.binding) \cup UpsertErrors(old, new)

PriorObjectErrors(b, old, new) ==
    PriorBindingErrors(b, old.binding)
    \cup Flag(old.availability = "withdrawn",
              LifecycleError(TransitionedBindings(b)[old.binding]))
    \cup UpsertErrors(old, new)

ServiceUpsertErrors(b, id) ==
    LET after == StagedBindings(b)
        new   == b.serviceUpserts[id]
    IN  (IF id \in DOMAIN services THEN PriorObjectErrors(b, services[id], new) ELSE {})
        \cup (IF new.binding \notin DOMAIN after THEN {"dangling_reference"}
              ELSE Flag(\/ after[new.binding].epoch # new.epoch
                        \/ after[new.binding].gen # new.gen,
                        "dangling_reference")
                   \cup Flag(\/ after[new.binding].source # b.source
                             \/ <<b.source, new.epoch, new.gen>> # Key(b)
                             \/ after[new.binding].state # "current",
                             LifecycleOrValue(after[new.binding])))

ServiceErrors(b) ==
    (UNION {ServiceUpsertErrors(b, id) : id \in DOMAIN b.serviceUpserts})
    \cup WithdrawalErrors(b, services, b.serviceWithdrawals)

CapabilityUpsertErrors(b, id) ==
    LET after == StagedBindings(b)
        svcs  == StagedServices(b)
        new   == b.capabilityUpserts[id]
        \* availability is judged on the service the snapshot had, if it had it
        judged == IF new.service \in DOMAIN services THEN services[new.service]
                                                     ELSE svcs[new.service]
    IN  (IF id \in DOMAIN capabilities THEN PriorObjectErrors(b, capabilities[id], new) ELSE {})
        \cup (IF new.binding \notin DOMAIN after \/ new.service \notin DOMAIN svcs
              THEN {"dangling_reference"}
              ELSE Flag(\/ after[new.binding].epoch # new.epoch
                        \/ after[new.binding].gen # new.gen
                        \/ svcs[new.service].binding # new.binding,
                        "dangling_reference")
                   \cup Flag(after[new.binding].source # b.source, "invalid_value")
                   \cup Flag(\/ after[new.binding].source # b.source
                             \/ <<b.source, new.epoch, new.gen>> # Key(b)
                             \/ after[new.binding].state # "current"
                             \/ judged.availability = "withdrawn",
                             LifecycleOrValue(after[new.binding])))

CapabilityErrors(b) ==
    (UNION {CapabilityUpsertErrors(b, id) : id \in DOMAIN b.capabilityUpserts})
    \cup WithdrawalErrors(b, capabilities, b.capabilityWithdrawals)

\* publicationContentErrors, the Validate methods of incremented records: a
\* revision past the end of Uint64 is no identifier.
Overflows(map) == \E k \in DOMAIN map : map[k].revision > MaxUint64

\* Mutant: binding revisions may leave their width.
WidthWithoutBindings(b) ==
    LET env == PostEnvelopes(b)
    IN  Flag(\/ Overflows(PostSources(b)) \/ Overflows(PostLinks(b))
             \/ Overflows(PostServices(b)) \/ Overflows(PostCapabilities(b))
             \/ \E key \in DOMAIN env : env[key] > MaxUint64,
             "invalid_identifier")

WidthErrors(b) ==
    LET env == PostEnvelopes(b)
    IN  Flag(\/ Overflows(PostSources(b)) \/ Overflows(PostBindings(b)) \/ Overflows(PostLinks(b))
             \/ Overflows(PostServices(b)) \/ Overflows(PostCapabilities(b))
             \/ \E key \in DOMAIN env : env[key] > MaxUint64,
             "invalid_identifier")

\* publicationContentErrors: bounds, width, and the two relations every
\* committed snapshot needs.
ContentErrors(b, m) ==
    LET src == PostSources(b)
        svc == PostServices(b)
        cap == PostCapabilities(b)
        TooMany(map, name) == Cardinality(DOMAIN map) > Limit[name]
    IN  WidthErrors(b)
        \cup Flag(\/ TooMany(src, "sources") \/ TooMany(PostBindings(b), "bindings")
                  \/ TooMany(PostLinks(b), "links") \/ TooMany(PostEnvelopes(b), "envelopes")
                  \/ TooMany(PostRetained(b, m), "retained")
                  \/ TooMany(svc, "services") \/ TooMany(cap, "capabilities")
                  \/ TooMany(PostFences(b), "fences") \/ TooMany(PostCursors(b), "cursors"),
                  "bounds_exceeded")
        \cup Flag(\E j, k \in DOMAIN src :
                     /\ j # k /\ j[1] = k[1]
                     /\ src[j].state = "current" /\ src[k].state = "current",
                  "stale_source_epoch")
        \cup Flag(\E id \in DOMAIN cap :
                     \/ cap[id].service \notin DOMAIN svc
                     \/ svc[cap[id].service].binding # cap[id].binding
                     \/ /\ cap[id].availability # "withdrawn"
                        /\ svc[cap[id].service].availability = "withdrawn",
                  "dangling_reference")

ApplyToErrors(b, m) ==
    EpochErrors(b) \cup SourceErrors(b) \cup GenerationErrors(b) \cup FenceErrors(b)
    \cup TransitionErrors(b) \cup BindingErrors(b) \cup LinkErrors(b)
    \cup FactUpsertErrors(b) \cup FactWithdrawalErrors(b)
    \cup ServiceErrors(b) \cup CapabilityErrors(b)
    \cup CloseErrors(StagedCandidates(b), DOMAIN b.factUpserts, StagedBindings(b))
    \cup RetentionErrors(b, m) \cup ContentErrors(b, m)

\* Snapshot.Validate, the lifecycle part: every current object hangs off a
\* current path, and cursors, fences and sources agree.
LifecycleErrors(src, fen, cur, bnd, lnk, svc, cap) ==
    Flag(\E k \in DOMAIN fen : k \notin DOMAIN cur \/ ~cur[k].fenced, "dangling_reference")
    \cup Flag(\E k \in DOMAIN cur : <<k[1], k[2]>> \notin DOMAIN src \/ cur[k].fenced # (k \in DOMAIN fen),
              "dangling_reference")
    \cup Flag(\E j, k \in DOMAIN cur :
                 /\ j # k /\ j[1] = k[1] /\ j[2] = k[2]
                 /\ ~cur[j].fenced /\ ~cur[k].fenced
                 /\ src[<<k[1], k[2]>>].state = "current",
              "stale_driver_generation")
    \cup Flag(\E s \in DOMAIN src : \A k \in DOMAIN cur : <<k[1], k[2]>> # s,
              "dangling_reference")
    \cup Flag(\E id \in DOMAIN bnd :
                 LET r == bnd[id]
                     s == <<r.source, r.epoch>>
                 IN  \/ s \notin DOMAIN src \/ KeyOf(r) \notin DOMAIN cur
                     \/ r.state = "current" /\ (src[s].state # "current" \/ cur[KeyOf(r)].fenced)
                     \/ r.state = "fenced"  /\ KeyOf(r) \notin DOMAIN fen
                     \/ r.state = "retired" /\ src[s].state # "retired",
              "dangling_reference")
    \cup Flag(\E id \in DOMAIN lnk :
                 \/ id \notin DOMAIN bnd
                 \/ lnk[id].state # "withdrawn" /\ bnd[id].state # "current",
              "dangling_reference")
    \cup Flag(\E objects \in {svc, cap} : \E id \in DOMAIN objects :
                 LET o == objects[id]
                 IN  \/ o.binding \notin DOMAIN bnd
                     \/ bnd[o.binding].epoch # o.epoch \/ bnd[o.binding].gen # o.gen
                     \/ o.availability # "withdrawn" /\ bnd[o.binding].state # "current",
              "dangling_reference")

\* Snapshot.Validate, the retained observations.
HistoryErrors(src, fen, bnd, ret) ==
    Flag(\E rid \in DOMAIN ret :
            LET c == ret[rid].candidate
            IN  \/ c.binding \notin DOMAIN bnd
                \/ LET r == bnd[c.binding]
                   IN  \/ r.state = "current" \/ KeyOf(r) # KeyOf(c)
                       \/ ret[rid].removal = "generation_fence" /\ KeyOf(r) \notin DOMAIN fen
                       \/ /\ ret[rid].removal = "source_retirement" \/ r.state = "retired"
                          /\ \/ <<r.source, r.epoch>> \notin DOMAIN src
                             \/ src[<<r.source, r.epoch>>].state # "retired"
                       \/ ret[rid].removal = "source_retirement" /\ r.state # "retired",
         "dangling_reference")

SnapshotErrors(src, fen, cur, bnd, lnk, svc, cap, cands, ret) ==
    LifecycleErrors(src, fen, cur, bnd, lnk, svc, cap)
    \cup HistoryErrors(src, fen, bnd, ret)
    \cup CloseErrors(cands, DOMAIN cands, bnd)

ValidateErrors(b, m) ==
    SnapshotErrors(PostSources(b), PostFences(b), PostCursors(b), PostBindings(b), PostLinks(b),
                   PostServices(b), PostCapabilities(b), PostCandidates(b), PostRetained(b, m))

RevisionErrors(b, m) ==
    LET next == PostRevisions(b, m)
    IN  Flag(\E f \in DOMAIN next : next[f] > MaxUint64, "invalid_identifier")

-----------------------------------------------------------------------------
(* Apply. *)

\* Errors that need no new post-state.  Member errors that rank before
\* invalid_value stop everything; an ownership error of the snapshot's own
\* objects is only looked for when the batch is not a replay.
EntryErrors(b) ==
    LET structure == StructureErrors(b)
    IN  IF RankedBefore(structure, "invalid_value") # {} \/ ~Advances(b) THEN structure
        ELSE structure \cup RetainedOwnershipErrors(b)

Malformed(b) == RankedBefore(EntryErrors(b), "dangling_reference") # {}

\* The batch is at or behind its cursor: only the accepted bytes are answered.
ReplayErrors(b) ==
    IF EntryErrors(b) # {} THEN EntryErrors(b)
    ELSE Flag(\/ b.seq < cursors[Key(b)].seq
              \/ ~b.sealed \/ b.digest # cursors[Key(b)].digest,
              "sequence_conflict")

\* The batch asks for a new snapshot.
CommitErrors(b, m) ==
    LET staged == EntryErrors(b) \cup OrderErrors(b) \cup ApplyToErrors(b, m)
                  \cup RevisionErrors(b, m)
    IN  IF staged # {} THEN staged ELSE ValidateErrors(b, m)

Verdict(b, m) ==
    IF Malformed(b) THEN EntryErrors(b)
    ELSE IF Advances(b) THEN CommitErrors(b, m)
    ELSE ReplayErrors(b)

\* Apply accepts a new batch: the working copy replaces the snapshot.
Commit(b, m) ==
    /\ Advances(b)
    /\ Verdict(b, m) = {}
    /\ sources' = PostSources(b)
    /\ bindings' = PostBindings(b)
    /\ links' = PostLinks(b)
    /\ services' = PostServices(b)
    /\ capabilities' = PostCapabilities(b)
    /\ candidates' = PostCandidates(b)
    /\ envelopes' = PostEnvelopes(b)
    /\ retained' = PostRetained(b, m)
    /\ fences' = PostFences(b)
    /\ cursors' = PostCursors(b)
    /\ revisions' = PostRevisions(b, m)
    /\ evaluatedAt' = Context(b, m)
    /\ replays' = With(replays, [k \in {Key(b)} |-> PostRevisions(b, m).semantic])

\* Apply answers a retry of the last accepted batch of a cursor.
Replay(b, m) ==
    /\ ~Advances(b)
    /\ Verdict(b, m) = {}
    /\ UNCHANGED vars

\* Apply reports BestError(Verdict(b, m)) and keeps the snapshot.
Reject(b, m) ==
    /\ Verdict(b, m) # {}
    /\ UNCHANGED vars

Apply(b, m) == Commit(b, m) \/ Replay(b, m) \/ Reject(b, m)

\* NewPublicationKernel
Init ==
    /\ sources = <<>> /\ bindings = <<>> /\ links = <<>>
    /\ services = <<>> /\ capabilities = <<>>
    /\ candidates = <<>> /\ envelopes = <<>> /\ retained = <<>>
    /\ fences = <<>> /\ cursors = <<>> /\ replays = <<>>
    /\ revisions = [semantic |-> 0, identity |-> 0, facts |-> 0, services |-> 0,
                    capabilities |-> 0]
    /\ evaluatedAt = Never

Next == \E b \in Batch, m \in MonotonicPoint : Apply(b, m)

Spec == Init /\ [][Next]_vars

-----------------------------------------------------------------------------
(* Properties. *)

IsMap(f, D, R) == DOMAIN f \subseteq D /\ f \in [DOMAIN f -> R]

\* Every collection holds records of its kind; no Uint64 member of a committed
\* snapshot is outside its width.
TypeOK ==
    /\ IsMap(sources, SourceKey, SourceRecord)
    /\ IsMap(bindings, Binding, BindingRecord)
    /\ IsMap(links, Binding, LinkRecord)
    /\ IsMap(services, Service, ServiceRecord)
    /\ IsMap(capabilities, Capability, CapabilityRecord)
    /\ IsMap(candidates, Candidate, CandidateRecord)
    /\ IsMap(envelopes, FactKey, Revision)
    /\ IsMap(retained, RetainedIdentity, RetainedRecord)
    /\ IsMap(fences, CursorKey, SUBSET Evidence)
    /\ IsMap(cursors, CursorKey, CursorRecord)
    /\ IsMap(replays, CursorKey, Revision)
    /\ revisions \in [DOMAIN revisions -> 0..MaxUint64]
    /\ DOMAIN revisions = {"semantic", "identity", "facts", "services", "capabilities"}
    /\ evaluatedAt \in [wall : TimePoint, mono : MonotonicPoint] \cup {Never}

\* Driver generations of an epoch take turns: once a later generation has
\* published, an earlier one never publishes again, and the same for the epochs
\* of a source.  A cursor's last commit is dated by the semantic revision that
\* replaying it answers with (the regression checks of Apply and applyTo, and
\* the replays map).
GenerationsTakeTurns ==
    /\ DOMAIN replays = DOMAIN cursors
    /\ \A j, k \in DOMAIN cursors :
          /\ replays[j] \in 1..revisions.semantic
          /\ j # k => replays[j] # replays[k]
          /\ j[1] = k[1] /\ j[2] = k[2] /\ j[3] < k[3] => replays[j] < replays[k]
          /\ (/\ j[1] = k[1] /\ j[2] # k[2]
              /\ sources[<<j[1], j[2]>>].state = "retired"
              /\ sources[<<k[1], k[2]>>].state = "current") => replays[j] < replays[k]

\* History and authority are disjoint: an observation that was retained is not
\* also a current fact, however its candidate id is reused (the retention loop
\* and the cascade of applyTo).
HistoryIsNotAuthority ==
    \A id \in DOMAIN candidates :
        Observed(candidates[id]) =>
            /\ RetainedID(id, candidates[id]) \notin DOMAIN retained
            /\ \A rid \in DOMAIN retained : rid[4] # candidates[id].binding

\* The cursors that can still publish.
Live(k) == ~cursors[k].fenced /\ sources[<<k[1], k[2]>>].state = "current"

\* The rights to publish that a kernel state stands for.
Rights == INSTANCE Authority WITH
    live   <- {k \in DOMAIN cursors : Live(k)},
    closed <- {k \in DOMAIN cursors : ~Live(k)},
    ended  <- {s \in DOMAIN sources : sources[s].state = "retired"}

\* The kernel hands the right to publish from driver to driver as Authority
\* says: one writer per source, closed keys and ended epochs stay so, and no
\* publication touches the writer of another source.
ImplementsAuthority == Rights!AuthoritySpec

\* The next batch of key k, without operations, with one that only closes the
\* generation, and with one that retires the epoch.
BareBatch(k, now) ==
    [source |-> k[1], epoch |-> k[2], gen |-> k[3],
     seq |-> IF k \in DOMAIN cursors THEN cursors[k].seq + 1 ELSE 1,
     expected |-> revisions.semantic, digest |-> CHOOSE d \in Digest : TRUE, sealed |-> TRUE,
     observedAt |-> now.wall, malformed |-> {}, hook |-> {},
     sourceUpserts |-> <<>>, retirements |-> {}, bindingUpserts |-> <<>>, linkUpserts |-> <<>>,
     factUpserts |-> <<>>, factWithdrawals |-> {}, serviceUpserts |-> <<>>,
     serviceWithdrawals |-> {}, capabilityUpserts |-> <<>>, capabilityWithdrawals |-> {},
     fences |-> <<>>]

FenceBatch(k, evidence, now) ==
    [BareBatch(k, now) EXCEPT !.fences = [j \in {k} |-> evidence]]

RetireBatch(k, now) == [BareBatch(k, now) EXCEPT !.retirements = {k[2]}]

\* Everything that can stand in the way of closing a path: a counter at the end
\* of its width, a full collection of tombstones or history, a full evidence
\* basis, a clock behind a receipt.  A retirement also rewrites the bindings
\* that earlier fences of its epoch left behind, so their counters count too.
Headroom(k, mine, evidence, now) ==
    LET left == {id \in DOMAIN candidates : Observed(candidates[id]) /\ candidates[id].binding \in mine}
        ages == [id \in left |-> EvaluateFreshness(candidates[id].times, candidates[id].policy, now)]
        old  == [rid \in DOMAIN retained |-> RetainedFreshness(retained[rid], now)]
        Below(map, S) == \A x \in S \cap DOMAIN map : map[x].revision < MaxUint64
    IN  /\ cursors[k].seq < MaxUint64
        /\ \A f \in DOMAIN revisions : revisions[f] < MaxUint64
        /\ \A key \in DOMAIN envelopes : envelopes[key] < MaxUint64
        /\ Below(sources, {<<k[1], k[2]>>}) /\ Below(bindings, mine) /\ Below(links, mine)
        /\ Below(services, {id \in DOMAIN services : services[id].binding \in mine})
        /\ Below(capabilities, {id \in DOMAIN capabilities : capabilities[id].binding \in mine})
        /\ Cardinality(DOMAIN fences) < Limit["fences"]
        /\ \A id \in mine \cap DOMAIN links : ~(Cardinality(links[id].basis \cup evidence) > MaxEvidence)
        /\ \A id \in left : ages[id] # "invalid_time"
        /\ \A rid \in DOMAIN retained : old[rid] # "invalid_time"
        /\ Cardinality({id \in left : ages[id] # "expired"})
              + Cardinality({rid \in DOMAIN retained : old[rid] # "expired"}) <= Limit["retained"]

\* A path can always be closed: no sequence of accepted batches leads to a
\* snapshot in which the live publisher of a source could not fence its own
\* generation or retire its epoch, unless one of the named limits is reached.
\* Apply would otherwise refuse, for good, the batch every replacement of a
\* driver needs (transitionBinding, the cascade and Snapshot.Validate agree).
PathsCanBeClosed ==
    \A k \in DOMAIN cursors, e \in Evidence :
        Live(k) => \A wall \in TimePoint, mono \in MonotonicPoint :
            LET now  == [wall |-> wall, mono |-> mono]
                mine == {id \in DOMAIN bindings : KeyOf(bindings[id]) = k}
                all  == {id \in DOMAIN bindings : <<bindings[id].source, bindings[id].epoch>>
                                                   = <<k[1], k[2]>>}
            IN  /\ Headroom(k, mine, {e}, now) => Verdict(FenceBatch(k, {e}, now), mono) = {}
                /\ Headroom(k, all, {}, now) => Verdict(RetireBatch(k, now), mono) = {}

\* Tombstones are permanent: nothing a later batch says brings back a retired
\* epoch, a fenced generation or its cursor, a tombstoned binding, or a
\* withdrawn link, service or capability (transitionBinding and the lifecycle
\* checks of applyTo).
TombstonesStay ==
    /\ \A k \in DOMAIN sources :
          /\ k \in DOMAIN sources'
          /\ sources[k].state = "retired" => sources'[k].state = "retired"
    /\ \A id \in DOMAIN bindings :
          /\ id \in DOMAIN bindings'
          /\ KeyOf(bindings'[id]) = KeyOf(bindings[id])
          /\ bindings[id].state = "fenced" => bindings'[id].state # "current"
          /\ bindings[id].state = "retired" => bindings'[id].state = "retired"
    /\ \A id \in DOMAIN links :
          id \in DOMAIN links' /\ (links[id].state = "withdrawn" => links'[id].state = "withdrawn")
    /\ \A id \in DOMAIN services :
          /\ id \in DOMAIN services'
          /\ services[id].availability = "withdrawn" => services'[id].availability = "withdrawn"
    /\ \A id \in DOMAIN capabilities :
          /\ id \in DOMAIN capabilities'
          /\ capabilities[id].availability = "withdrawn"
                => capabilities'[id].availability = "withdrawn"
    /\ \A k \in DOMAIN fences : k \in DOMAIN fences' /\ fences'[k] = fences[k]
    /\ \A k \in DOMAIN cursors :
          k \in DOMAIN cursors' /\ (cursors[k].fenced => cursors'[k] = cursors[k])

\* The cursors a step moves.
Moved == {k \in DOMAIN cursors' : k \notin DOMAIN cursors \/ cursors'[k].seq # cursors[k].seq}

\* Exactly once: a step that changes anything is one commit; it moves exactly
\* one cursor, forward, and never one whose generation is fenced or whose epoch
\* is retired, so no accepted sequence number is ever applied twice.
CursorsMove ==
    /\ revisions'.semantic = revisions.semantic + 1
    /\ \E k \in DOMAIN cursors' :
          /\ Moved = {k}
          /\ replays' = With(replays, [j \in {k} |-> revisions'.semantic])
          /\ k \in DOMAIN cursors => cursors'[k].seq > cursors[k].seq /\ ~cursors[k].fenced
          /\ <<k[1], k[2]>> \in DOMAIN sources => sources[<<k[1], k[2]>>].state = "current"

\* Neither what was taken out of service nor a sequence number that was used ever
\* comes back (applyTo and the cursor checks of Apply).
NothingComesBack == [][TombstonesStay /\ CursorsMove]_vars

\* The binding belongs to source s.
OwnedBy(s, id) == id \in DOMAIN bindings /\ bindings[id].source = s

\* Objects of another source are out of a publisher's reach: a commit under one
\* source leaves the epochs, cursors, fences, bindings, links, services,
\* capabilities and observations of every other source exactly as they were, and
\* of its history it drops what has expired and adds nothing to it (the two
\* ownership checks, and the one a withdrawal of history has of its own).
SourcesAreIsolated ==
    [][\A s \in Source \ {k[1] : k \in Moved} :
          /\ \A k \in DOMAIN sources \cup DOMAIN sources' :
                k[1] = s => k \in DOMAIN sources \cap DOMAIN sources' /\ sources'[k] = sources[k]
          /\ \A k \in DOMAIN cursors : k[1] = s => cursors'[k] = cursors[k]
          /\ \A k \in DOMAIN fences' : k[1] = s => k \in DOMAIN fences
          /\ \A id \in DOMAIN bindings : OwnedBy(s, id) => bindings'[id] = bindings[id]
          /\ \A id \in DOMAIN links : OwnedBy(s, id) => links'[id] = links[id]
          /\ \A id \in DOMAIN services :
                OwnedBy(s, services[id].binding) => services'[id] = services[id]
          /\ \A id \in DOMAIN capabilities :
                OwnedBy(s, capabilities[id].binding) => capabilities'[id] = capabilities[id]
          /\ \A id \in DOMAIN candidates :
                Observed(candidates[id]) /\ candidates[id].source = s =>
                   id \in DOMAIN candidates' /\ candidates'[id] = candidates[id]
          /\ \A rid \in DOMAIN retained : retained[rid].candidate.source = s =>
                IF rid \in DOMAIN retained' THEN retained'[rid] = retained[rid]
                ELSE RetainedFreshness(retained[rid], evaluatedAt') = "expired"
          /\ \A rid \in DOMAIN retained' :
                retained'[rid].candidate.source = s => rid \in DOMAIN retained]_vars

\* Records kept from one map to the next carry the next revision iff they differ.
Exact(old, new) ==
    \A k \in DOMAIN old \cap DOMAIN new :
        new[k].revision = old[k].revision + (IF SameContent(old[k], new[k]) THEN 0 ELSE 1)

\* One revision per change: an object that survives a commit moves exactly one
\* revision if anything about it changed and none if not, even when an upsert, a
\* fence and a retirement meet in one batch (normalizeObjectRevisions,
\* validateRevisionedUpsert).
RevisionsAreExact ==
    [][/\ Exact(sources, sources') /\ Exact(bindings, bindings') /\ Exact(links, links')
       /\ Exact(services, services') /\ Exact(capabilities, capabilities')
       /\ Exact(candidates, candidates')]_vars

\* No observation is lost with its path: when a commit takes the binding of a
\* current observation out of service, that observation, unchanged, is retained
\* unless its own policy says it has expired by then (the retention loop).
ObservationsAreKept ==
    [][\A id \in DOMAIN candidates :
          /\ Observed(candidates[id])
          /\ bindings'[candidates[id].binding].state # "current"
          => LET rid == RetainedID(id, candidates[id])
             IN  \/ EvaluateFreshness(candidates[id].times, candidates[id].policy, evaluatedAt')
                       = "expired"
                 \/ rid \in DOMAIN retained' /\ retained'[rid].candidate = candidates[id]]_vars

\* History is immutable and outlives everything but its own deadline and its
\* own source: a retained observation is never rewritten, and it disappears only
\* once expired or in a commit of the source it came from.
HistoryIsImmutable ==
    [][\A rid \in DOMAIN retained :
          IF rid \in DOMAIN retained' THEN retained'[rid] = retained[rid]
          ELSE \/ RetainedFreshness(retained[rid], evaluatedAt') = "expired"
               \/ \E k \in Moved : k[1] = retained[rid].candidate.source]_vars

\* An inferred fact never outlives what it was inferred from: while it stays in
\* the snapshot, each input is the very record it pinned, value included (the
\* dependency cascade).
InferencesRestOnWhatTheySaw ==
    [][\A id \in DOMAIN candidates \cap DOMAIN candidates' :
          /\ ~Observed(candidates[id])
          /\ candidates'[id] = candidates[id]
          => \A i \in candidates[id].inputs :
                i.cand \in DOMAIN candidates' /\ candidates'[i.cand] = candidates[i.cand]]_vars
=============================================================================
