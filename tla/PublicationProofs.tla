-------------------------- MODULE PublicationProofs --------------------------
(***************************************************************************)
(* Machine-checked facts about the publication kernel, for any number of   *)
(* sources, epochs, generations, objects and values, and any width of the  *)
(* counters: it implements Authority, and no sequence of publications can  *)
(* bring back what was taken out of service, reach into another source,    *)
(* skip or repeat a revision, lose or rewrite history, or leave an         *)
(* inference standing on something it never saw.                           *)
(***************************************************************************)
EXTENDS Publication, ReadingProofs

-----------------------------------------------------------------------------
(* Maps. *)

\* Overlaying a map of the same kind keeps the kind.
LEMMA WithIsMap ==
    ASSUME NEW D, NEW R, NEW f, NEW g, IsMap(f, D, R), IsMap(g, D, R)
    PROVE  IsMap(With(f, g), D, R)
  BY DEF IsMap, With

\* Taking entries away keeps the kind.
LEMMA WithoutIsMap ==
    ASSUME NEW D, NEW R, NEW f, NEW S, IsMap(f, D, R)
    PROVE  IsMap(Without(f, S), D, R)
  BY DEF IsMap, Without

\* The members of Map(D, R) are the maps of that kind.
LEMMA MapIsMap ==
    ASSUME NEW D, NEW R, NEW f \in Map(D, R)
    PROVE  IsMap(f, D, R)
  BY DEF IsMap, Map

\* A map that is of a kind is one of the maps of that kind.
LEMMA IsMapInMap ==
    ASSUME NEW f, NEW D, NEW R, IsMap(f, D, R)
    PROVE  f \in Map(D, R)
  BY DEF IsMap, Map

\* The empty map is a map of every kind.
LEMMA EmptyIsMap ==
    ASSUME NEW D, NEW R
    PROVE  IsMap(<<>>, D, R)
  BY DEF IsMap

\* One entry is a map.
LEMMA SingletonIsMap ==
    ASSUME NEW D, NEW R, NEW k \in D, NEW v \in R
    PROVE  IsMap([j \in {k} |-> v], D, R)
  BY DEF IsMap

\* An accepted batch passed every stage of Apply.
LEMMA AcceptedBatch ==
    ASSUME NEW b, NEW m, Advances(b), Verdict(b, m) = {}
    PROVE  /\ EntryErrors(b) = {}
           /\ OrderErrors(b) = {}
           /\ ApplyToErrors(b, m) = {}
           /\ RevisionErrors(b, m) = {}
           /\ ValidateErrors(b, m) = {}
  <1>1. ~Malformed(b)
    <2>1. SUFFICES ASSUME Malformed(b) PROVE FALSE
      OBVIOUS
    <2>2. EntryErrors(b) = {}
      BY <2>1 DEF Verdict
    <2> QED
      BY <2>1, <2>2 DEF Malformed, RankedBefore
  <1>2. CommitErrors(b, m) = {}
    BY <1>1 DEF Verdict
  <1>3. EntryErrors(b) \cup OrderErrors(b) \cup ApplyToErrors(b, m) \cup RevisionErrors(b, m) = {}
    BY <1>2 DEF CommitErrors
  <1> QED
    BY <1>2, <1>3 DEF CommitErrors

\* The members of an accepted batch are maps of their kinds.
LEMMA BatchMaps ==
    ASSUME NEW b \in Batch
    PROVE  /\ IsMap(b.sourceUpserts, SourceKey, SourceRecord)
           /\ IsMap(b.bindingUpserts, Binding, BindingRecord)
           /\ IsMap(b.linkUpserts, Binding, LinkRecord)
           /\ IsMap(b.factUpserts, Candidate, CandidateRecord)
           /\ IsMap(b.serviceUpserts, Service, ServiceRecord)
           /\ IsMap(b.capabilityUpserts, Capability, CapabilityRecord)
           /\ IsMap(b.fences, CursorKey, SUBSET Evidence)
  <1>1. /\ b.sourceUpserts \in Map(SourceKey, SourceRecord)
        /\ b.bindingUpserts \in Map(Binding, BindingRecord)
        /\ b.linkUpserts \in Map(Binding, LinkRecord)
        /\ b.factUpserts \in Map(Candidate, CandidateRecord)
        /\ b.serviceUpserts \in Map(Service, ServiceRecord)
        /\ b.capabilityUpserts \in Map(Capability, CapabilityRecord)
        /\ b.fences \in Map(CursorKey, SUBSET Evidence)
    BY DEF Batch
  <1> QED
    BY <1>1, MapIsMap

-----------------------------------------------------------------------------
(* Revisioned records.  A staged record may have left the width of Uint64;  *)
(* WidthErrors refuses it afterwards.                                       *)

Count == Nat \ {0}
WideSource     == [profile : Profile, registry : Evidence,
                   state : {"current", "retired"}, revision : Count]
WideBinding    == [source : Source, epoch : Epoch, gen : Generation, resource : Resource,
                   state : {"current", "fenced", "retired"}, revision : Count]
WideLink       == [state : {"candidate", "qualified", "withdrawn"},
                   basis : SUBSET Evidence, revision : Count]
WideService    == [binding : Binding, epoch : Epoch, gen : Generation, qualified : BOOLEAN,
                   availability : Availability, revision : Count]
WideCapability == [service : Service, binding : Binding, epoch : Epoch, gen : Generation,
                   qualified : BOOLEAN, availability : Availability, revision : Count]

\* A record within the width is also a wide one.
LEMMA RecordsAreWide ==
    /\ SourceRecord \subseteq WideSource
    /\ BindingRecord \subseteq WideBinding
    /\ LinkRecord \subseteq WideLink
    /\ ServiceRecord \subseteq WideService
    /\ CapabilityRecord \subseteq WideCapability
  BY MaxUint64Assumption
     DEF SourceRecord, BindingRecord, LinkRecord, ServiceRecord, CapabilityRecord,
         WideSource, WideBinding, WideLink, WideService, WideCapability, Count, Revision

\* One more revision keeps the kind.
LEMMA BumpedIsWide ==
    /\ \A r \in WideSource : Bumped(r) \in WideSource
    /\ \A r \in WideBinding : Bumped(r) \in WideBinding
    /\ \A r \in WideLink : Bumped(r) \in WideLink
    /\ \A r \in WideService : Bumped(r) \in WideService
    /\ \A r \in WideCapability : Bumped(r) \in WideCapability
  BY DEF Bumped, WideSource, WideBinding, WideLink, WideService, WideCapability, Count

\* The transitions of a record keep its kind.
LEMMA SteppedIsWide ==
    /\ \A r \in WideSource : [r EXCEPT !.state = "retired"] \in WideSource
    /\ \A r \in WideBinding : /\ [r EXCEPT !.state = "fenced"] \in WideBinding
                              /\ [r EXCEPT !.state = "retired"] \in WideBinding
    /\ \A r \in WideService : [r EXCEPT !.availability = "withdrawn"] \in WideService
    /\ \A r \in WideCapability : [r EXCEPT !.availability = "withdrawn"] \in WideCapability
  BY DEF WideSource, WideBinding, WideService, WideCapability, Availability

\* A larger set of values is still a kind.
LEMMA WiderIsMap ==
    ASSUME NEW D, NEW R, NEW W, NEW f, R \subseteq W, IsMap(f, D, R)
    PROVE  IsMap(f, D, W)
  BY DEF IsMap

\* normalizeObjectRevisions keeps the kind of the map: it only rewrites the
\* revision, to the old one or its successor.
LEMMA NormalizedSources ==
    ASSUME NEW f, NEW g, IsMap(f, SourceKey, WideSource), IsMap(g, SourceKey, WideSource)
    PROVE  IsMap(Normalized(f, g), SourceKey, WideSource)
  BY DEF IsMap, Normalized, WideSource, Count

\* The same for bindings.
LEMMA NormalizedBindings ==
    ASSUME NEW f, NEW g, IsMap(f, Binding, WideBinding), IsMap(g, Binding, WideBinding)
    PROVE  IsMap(Normalized(f, g), Binding, WideBinding)
  BY DEF IsMap, Normalized, WideBinding, Count

\* The same for identity links.
LEMMA NormalizedLinks ==
    ASSUME NEW f, NEW g, IsMap(f, Binding, WideLink), IsMap(g, Binding, WideLink)
    PROVE  IsMap(Normalized(f, g), Binding, WideLink)
  BY DEF IsMap, Normalized, WideLink, Count

\* The same for services.
LEMMA NormalizedServices ==
    ASSUME NEW f, NEW g, IsMap(f, Service, WideService), IsMap(g, Service, WideService)
    PROVE  IsMap(Normalized(f, g), Service, WideService)
  BY DEF IsMap, Normalized, WideService, Count

\* The same for capabilities.
LEMMA NormalizedCapabilities ==
    ASSUME NEW f, NEW g, IsMap(f, Capability, WideCapability), IsMap(g, Capability, WideCapability)
    PROVE  IsMap(Normalized(f, g), Capability, WideCapability)
  BY DEF IsMap, Normalized, WideCapability, Count

-----------------------------------------------------------------------------
(* The staged post-state has the right kinds. *)

\* Source descriptors after upserts and retirements, within the width the
\* content check allows.
LEMMA PostSourcesKind ==
    ASSUME TypeOK, NEW b \in Batch, WidthErrors(b) = {}
    PROVE  IsMap(PostSources(b), SourceKey, SourceRecord)
  <1> DEFINE put == With(sources, b.sourceUpserts)
  <1>1. IsMap(put, SourceKey, SourceRecord)
    BY WithIsMap, BatchMaps DEF TypeOK
  <1>2. IsMap(put, SourceKey, WideSource)
    BY <1>1, RecordsAreWide, WiderIsMap
  <1>3. IsMap(StagedSources(b), SourceKey, WideSource)
    <2> HIDE DEF put
    <2>1. StagedSources(b) = [k \in DOMAIN put |->
            IF Retiring(b, k) THEN Bumped([put[k] EXCEPT !.state = "retired"]) ELSE put[k]]
      BY DEF StagedSources, put
    <2> QED
      BY <1>2, <2>1, BumpedIsWide, SteppedIsWide DEF IsMap
  <1>4. IsMap(sources, SourceKey, WideSource)
    BY RecordsAreWide, WiderIsMap DEF TypeOK
  <1>5. IsMap(PostSources(b), SourceKey, WideSource)
    BY <1>3, <1>4, NormalizedSources DEF PostSources
  <1>6. \A k \in DOMAIN PostSources(b) : ~(PostSources(b)[k].revision > MaxUint64)
    BY DEF WidthErrors, Overflows, Flag
  <1> QED
    BY <1>5, <1>6, MaxUint64Assumption DEF IsMap, WideSource, SourceRecord, Count, Revision

\* Bindings after fences, retirements and upserts, before normalisation.
LEMMA StagedBindingsKind ==
    ASSUME TypeOK, NEW b \in Batch
    PROVE  /\ IsMap(TransitionedBindings(b), Binding, WideBinding)
           /\ IsMap(StagedBindings(b), Binding, WideBinding)
  <1>1. IsMap(bindings, Binding, WideBinding) /\ IsMap(b.bindingUpserts, Binding, WideBinding)
    BY RecordsAreWide, WiderIsMap, BatchMaps DEF TypeOK
  <1>2. ASSUME NEW r \in WideBinding PROVE Transitioned(b, r) \in WideBinding
    BY BumpedIsWide, SteppedIsWide DEF Transitioned
  <1>3. IsMap(TransitionedBindings(b), Binding, WideBinding)
    BY <1>1, <1>2 DEF TransitionedBindings, IsMap
  <1> QED
    BY <1>1, <1>3, WithIsMap DEF StagedBindings

\* Bindings of a committed snapshot.
LEMMA PostBindingsKind ==
    ASSUME TypeOK, NEW b \in Batch, WidthErrors(b) = {}
    PROVE  IsMap(PostBindings(b), Binding, BindingRecord)
  <1>1. IsMap(bindings, Binding, WideBinding)
    BY RecordsAreWide, WiderIsMap DEF TypeOK
  <1>2. IsMap(PostBindings(b), Binding, WideBinding)
    BY <1>1, StagedBindingsKind, NormalizedBindings DEF PostBindings
  <1>3. \A k \in DOMAIN PostBindings(b) : ~(PostBindings(b)[k].revision > MaxUint64)
    BY DEF WidthErrors, Overflows, Flag
  <1> QED
    BY <1>2, <1>3, MaxUint64Assumption DEF IsMap, WideBinding, BindingRecord, Count, Revision

\* Identity links of a committed snapshot, the withdrawn ones included.
LEMMA PostLinksKind ==
    ASSUME TypeOK, NEW b \in Batch, WidthErrors(b) = {}
    PROVE  IsMap(PostLinks(b), Binding, LinkRecord)
  <1>1. IsMap(links, Binding, WideLink) /\ IsMap(b.linkUpserts, Binding, WideLink)
    BY RecordsAreWide, WiderIsMap, BatchMaps DEF TypeOK
  <1>2. ASSUME NEW l \in WideLink, NEW evidence \in SUBSET Evidence
        PROVE  WithdrawnLink(l, evidence) \in WideLink
    <2>1. [l EXCEPT !.state = "withdrawn"] \in WideLink
      BY DEF WideLink
    <2>2. [l EXCEPT !.state = "withdrawn", !.basis = @ \cup evidence] \in WideLink
      BY <2>1 DEF WideLink
    <2> QED
      BY <2>2, BumpedIsWide DEF WithdrawnLink
  <1>3. ASSUME NEW id \in DOMAIN bindings
        PROVE  FenceEvidence(b, id) \in SUBSET Evidence
    BY BatchMaps DEF FenceEvidence, FencedBy, FencedKeys, IsMap
  <1>4. IsMap(TransitionedLinks(b), Binding, WideLink)
    BY <1>1, <1>2, <1>3 DEF TransitionedLinks, Touched, IsMap
  <1>5. IsMap(PostLinks(b), Binding, WideLink)
    BY <1>1, <1>4, WithIsMap, NormalizedLinks DEF PostLinks
  <1>6. \A k \in DOMAIN PostLinks(b) : ~(PostLinks(b)[k].revision > MaxUint64)
    BY DEF WidthErrors, Overflows, Flag
  <1> QED
    BY <1>5, <1>6, MaxUint64Assumption DEF IsMap, WideLink, LinkRecord, Count, Revision

\* Services of a committed snapshot.
LEMMA PostServicesKind ==
    ASSUME TypeOK, NEW b \in Batch, WidthErrors(b) = {}
    PROVE  IsMap(PostServices(b), Service, ServiceRecord)
  <1>1. IsMap(services, Service, WideService) /\ IsMap(b.serviceUpserts, Service, WideService)
    BY RecordsAreWide, WiderIsMap, BatchMaps DEF TypeOK
  <1>2. ASSUME NEW o \in WideService PROVE Withdrawn(o) \in WideService
    BY BumpedIsWide, SteppedIsWide DEF Withdrawn
  <1> DEFINE moved == [id \in DOMAIN services |->
                        IF Touched(b, services[id].binding) THEN Withdrawn(services[id])
                                                            ELSE services[id]]
             put   == With(moved, b.serviceUpserts)
  <1>3. IsMap(moved, Service, WideService)
    BY <1>1, <1>2 DEF IsMap
  <1>4. IsMap(put, Service, WideService)
    <2> HIDE DEF moved
    <2> QED BY <1>1, <1>3, WithIsMap
  <1>5. IsMap(StagedServices(b), Service, WideService)
    <2>1. StagedServices(b) = [id \in DOMAIN put |->
            IF id \in b.serviceWithdrawals \cap DOMAIN services THEN Withdrawn(put[id]) ELSE put[id]]
      BY DEF StagedServices, StagedObjects
    <2> HIDE DEF put
    <2> QED BY <1>2, <1>4, <2>1 DEF IsMap
  <1>6. IsMap(PostServices(b), Service, WideService)
    BY <1>1, <1>5, NormalizedServices DEF PostServices
  <1>7. \A k \in DOMAIN PostServices(b) : ~(PostServices(b)[k].revision > MaxUint64)
    BY DEF WidthErrors, Overflows, Flag
  <1> QED
    BY <1>6, <1>7, MaxUint64Assumption DEF IsMap, WideService, ServiceRecord, Count, Revision

\* Capabilities of a committed snapshot.
LEMMA PostCapabilitiesKind ==
    ASSUME TypeOK, NEW b \in Batch, WidthErrors(b) = {}
    PROVE  IsMap(PostCapabilities(b), Capability, CapabilityRecord)
  <1>1. /\ IsMap(capabilities, Capability, WideCapability)
        /\ IsMap(b.capabilityUpserts, Capability, WideCapability)
    BY RecordsAreWide, WiderIsMap, BatchMaps DEF TypeOK
  <1>2. ASSUME NEW o \in WideCapability PROVE Withdrawn(o) \in WideCapability
    BY BumpedIsWide, SteppedIsWide DEF Withdrawn
  <1> DEFINE moved == [id \in DOMAIN capabilities |->
                        IF Touched(b, capabilities[id].binding) THEN Withdrawn(capabilities[id])
                                                                ELSE capabilities[id]]
             put   == With(moved, b.capabilityUpserts)
  <1>3. IsMap(moved, Capability, WideCapability)
    BY <1>1, <1>2 DEF IsMap
  <1>4. IsMap(put, Capability, WideCapability)
    <2> HIDE DEF moved
    <2> QED BY <1>1, <1>3, WithIsMap
  <1>5. IsMap(StagedCapabilities(b), Capability, WideCapability)
    <2>1. StagedCapabilities(b) = [id \in DOMAIN put |->
            IF id \in b.capabilityWithdrawals \cap DOMAIN capabilities
            THEN Withdrawn(put[id]) ELSE put[id]]
      BY DEF StagedCapabilities, StagedObjects
    <2> HIDE DEF put
    <2> QED BY <1>2, <1>4, <2>1 DEF IsMap
  <1>6. IsMap(PostCapabilities(b), Capability, WideCapability)
    BY <1>1, <1>5, NormalizedCapabilities DEF PostCapabilities
  <1>7. \A k \in DOMAIN PostCapabilities(b) : ~(PostCapabilities(b)[k].revision > MaxUint64)
    BY DEF WidthErrors, Overflows, Flag
  <1> QED
    BY <1>6, <1>7, MaxUint64Assumption DEF IsMap, WideCapability, CapabilityRecord, Count, Revision

\* Candidates after upserts and withdrawals.
LEMMA StagedCandidatesKind ==
    ASSUME TypeOK, NEW b \in Batch
    PROVE  IsMap(StagedCandidates(b), Candidate, CandidateRecord)
  BY WithIsMap, WithoutIsMap, BatchMaps DEF TypeOK, StagedCandidates

\* The cascade only takes candidates away.
LEMMA PostCandidatesKind ==
    ASSUME TypeOK, NEW b \in Batch
    PROVE  IsMap(PostCandidates(b), Candidate, CandidateRecord)
  BY StagedCandidatesKind DEF PostCandidates, Closed, IsMap

\* Envelope revisions of a committed snapshot.
LEMMA PostEnvelopesKind ==
    ASSUME TypeOK, NEW b \in Batch, WidthErrors(b) = {}
    PROVE  IsMap(PostEnvelopes(b), FactKey, Revision)
  <1> DEFINE post == PostCandidates(b)
  <1>1. \A id \in DOMAIN post : post[id].key \in FactKey
    BY PostCandidatesKind DEF IsMap, CandidateRecord, ObservedRecord, InferredRecord
  <1>2. DOMAIN PostEnvelopes(b) = {post[id].key : id \in DOMAIN post}
    BY DEF PostEnvelopes
  <1>3. DOMAIN PostEnvelopes(b) \subseteq FactKey
    BY <1>1, <1>2
  <1>4. \A key \in DOMAIN PostEnvelopes(b) : ~(PostEnvelopes(b)[key] > MaxUint64)
    BY DEF WidthErrors, Flag
  <1>5. \A key \in DOMAIN envelopes : envelopes[key] \in Nat /\ envelopes[key] >= 1
    BY MaxUint64Assumption DEF TypeOK, IsMap, Revision
  <1>6. \A key \in DOMAIN PostEnvelopes(b) :
            PostEnvelopes(b)[key] \in Nat /\ PostEnvelopes(b)[key] >= 1
    <2> SUFFICES ASSUME NEW key \in DOMAIN PostEnvelopes(b)
                 PROVE  PostEnvelopes(b)[key] \in Nat /\ PostEnvelopes(b)[key] >= 1
      OBVIOUS
    <2>1. PostEnvelopes(b)[key] = IF key \notin DOMAIN envelopes THEN 1
                                  ELSE IF Group(candidates, key) = Group(post, key)
                                       THEN envelopes[key] ELSE envelopes[key] + 1
      BY <1>2 DEF PostEnvelopes
    <2> HIDE DEF post
    <2> QED
      BY <1>5, <2>1
  <1>7. PostEnvelopes(b) = [key \in DOMAIN PostEnvelopes(b) |-> PostEnvelopes(b)[key]]
    BY DEF PostEnvelopes
  <1> QED
    BY <1>3, <1>4, <1>6, <1>7, MaxUint64Assumption DEF IsMap, Revision

\* What the retention loop adds are retained observations, filed under their
\* own identities.
LEMMA RetainingKind ==
    ASSUME TypeOK, NEW ids \in SUBSET DOMAIN candidates, NEW after,
           \A id \in ids : Observed(candidates[id])
    PROVE  IsMap(Retaining(ids, after), RetainedIdentity, RetainedRecord)
  <1>1. ASSUME NEW id \in ids
        PROVE  /\ id \in Candidate
               /\ candidates[id] \in ObservedRecord
               /\ RetainedID(id, candidates[id]) \in RetainedIdentity
               /\ RetainedID(id, candidates[id])[1] = id
    <2>1. id \in Candidate /\ candidates[id] \in CandidateRecord /\ Observed(candidates[id])
      BY DEF TypeOK, IsMap
    <2>2. candidates[id] \in ObservedRecord
      BY <2>1 DEF CandidateRecord, ObservedRecord, InferredRecord, Observed
    <2>3. /\ candidates[id].revision \in Revision
          /\ candidates[id].key \in FactKey
          /\ candidates[id].binding \in Binding
          /\ candidates[id].epoch \in Epoch
          /\ candidates[id].gen \in Generation
      BY <2>2 DEF ObservedRecord
    <2> QED
      BY <2>1, <2>2, <2>3 DEF RetainedID, RetainedIdentity
  <1>2. \A r : Removal(r) \in {"generation_fence", "source_retirement"}
    BY DEF Removal
  <1> DEFINE kept == {RetainedID(id, candidates[id]) : id \in ids}
             Record(rid) == [cand |-> rid[1], candidate |-> candidates[rid[1]],
                             removal |-> Removal(after[rid[4]])]
  <1>3. \A rid \in kept : rid \in RetainedIdentity /\ Record(rid) \in RetainedRecord
    <2> SUFFICES ASSUME NEW id \in ids, NEW rid, rid = RetainedID(id, candidates[id])
                 PROVE  rid \in RetainedIdentity /\ Record(rid) \in RetainedRecord
      OBVIOUS
    <2>1. rid[1] = id /\ rid \in RetainedIdentity
      BY <1>1
    <2> QED
      BY <1>1, <1>2, <2>1 DEF RetainedRecord
  <1>4. Retaining(ids, after) = [rid \in kept |-> Record(rid)]
    BY DEF Retaining
  <1> HIDE DEF kept, Record
  <1> QED
    BY <1>3, <1>4 DEF IsMap

\* Retained observations of a committed snapshot.
LEMMA PostRetainedKind ==
    ASSUME TypeOK, NEW b \in Batch, NEW m
    PROVE  IsMap(PostRetained(b, m), RetainedIdentity, RetainedRecord)
  <1>1. IsMap(NewlyRetained(b), RetainedIdentity, RetainedRecord)
    <2> DEFINE ids == Leaving(DOMAIN candidates \ b.factWithdrawals, StagedBindings(b))
    <2>1. ids \in SUBSET DOMAIN candidates /\ \A id \in ids : Observed(candidates[id])
      BY DEF Leaving
    <2>2. NewlyRetained(b) = Retaining(ids, StagedBindings(b))
      BY DEF NewlyRetained
    <2> HIDE DEF ids
    <2> QED
      BY <2>1, <2>2, RetainingKind
  <1>2. IsMap(retained, RetainedIdentity, RetainedRecord)
    BY DEF TypeOK
  <1>3. IsMap(StagedRetained(b), RetainedIdentity, RetainedRecord)
    BY <1>1, <1>2, WithIsMap, WithoutIsMap DEF StagedRetained
  <1> QED
    BY <1>3, WithoutIsMap DEF PostRetained

\* Fences of a committed snapshot.
LEMMA PostFencesKind ==
    ASSUME TypeOK, NEW b \in Batch
    PROVE  IsMap(PostFences(b), CursorKey, SUBSET Evidence)
  <1>1. IsMap([k \in FencedKeys(b) |-> b.fences[k]], CursorKey, SUBSET Evidence)
    BY BatchMaps DEF FencedKeys, IsMap
  <1> QED
    BY <1>1, WithIsMap DEF PostFences, TypeOK

\* Cursors of a committed snapshot.
LEMMA PostCursorsKind ==
    ASSUME TypeOK, NEW b \in Batch
    PROVE  IsMap(PostCursors(b), CursorKey, CursorRecord)
  <1> DEFINE fenced == [k \in DOMAIN cursors |->
                          IF k \in FencedKeys(b) THEN [cursors[k] EXCEPT !.fenced = TRUE]
                                                 ELSE cursors[k]]
             mine   == [k \in {Key(b)} |->
                          [seq |-> b.seq, digest |-> b.digest, fenced |-> k \in DOMAIN b.fences]]
  <1>1. \A r \in CursorRecord : [r EXCEPT !.fenced = TRUE] \in CursorRecord
    BY DEF CursorRecord
  <1>2. IsMap(fenced, CursorKey, CursorRecord)
    BY <1>1 DEF TypeOK, IsMap
  <1>3. Key(b) \in CursorKey /\ b.seq \in Revision /\ b.digest \in Digest
    BY DEF Batch, Key, CursorKey
  <1>4. IsMap(mine, CursorKey, CursorRecord)
    BY <1>3 DEF IsMap, CursorRecord
  <1>5. PostCursors(b) = With(fenced, mine)
    BY DEF PostCursors
  <1> HIDE DEF fenced, mine
  <1> QED
    BY <1>2, <1>4, <1>5, WithIsMap

\* The semantic revision moves by one and every component by at most one.
LEMMA PostRevisionsKind ==
    ASSUME TypeOK, NEW b \in Batch, NEW m, RevisionErrors(b, m) = {}
    PROVE  /\ PostRevisions(b, m) \in [DOMAIN revisions -> 0..MaxUint64]
           /\ PostRevisions(b, m).semantic \in Revision
           /\ PostRevisions(b, m).semantic = revisions.semantic + 1
  <1> DEFINE post == PostRevisions(b, m)
             F == {"semantic", "identity", "facts", "services", "capabilities"}
  <1>1. /\ DOMAIN revisions = F
        /\ \A f \in F : revisions[f] \in Nat
    BY MaxUint64Assumption DEF TypeOK
  <1>2. \A changed, r : r \in Nat => NextRevision(changed, r) \in Nat
    BY DEF NextRevision
  <1>3. post = [f \in F |-> post[f]] /\ \A f \in F : post[f] \in Nat
    <2>1. CASE revisions.semantic = 0
      BY <2>1 DEF PostRevisions
    <2>2. CASE revisions.semantic # 0
      <3>1. PICK c1, c2, c3, c4 :
               post = [semantic |-> revisions.semantic + 1,
                       identity |-> NextRevision(c1, revisions.identity),
                       facts |-> NextRevision(c2, revisions.facts),
                       services |-> NextRevision(c3, revisions.services),
                       capabilities |-> NextRevision(c4, revisions.capabilities)]
        BY <2>2, Zenon DEF PostRevisions
      <3> HIDE DEF post
      <3> QED
        BY <1>1, <1>2, <3>1
    <2> QED
      BY <2>1, <2>2
  <1>4. post.semantic = revisions.semantic + 1 /\ post.semantic >= 1
    BY <1>1 DEF PostRevisions
  <1> HIDE DEF post
  <1>5. \A f \in DOMAIN post : ~(post[f] > MaxUint64)
    BY DEF RevisionErrors, Flag, post
  <1>6. \A f \in F : post[f] \in 0..MaxUint64
    BY <1>3, <1>5, MaxUint64Assumption
  <1>7. post \in [F -> 0..MaxUint64]
    BY <1>3, <1>6
  <1>8. post.semantic \in Revision
    BY <1>4, <1>6, MaxUint64Assumption DEF Revision
  <1> QED
    BY <1>1, <1>4, <1>7, <1>8 DEF post

-----------------------------------------------------------------------------
(* Type correctness. *)

\* Every commit leaves every collection with records of its kind and every
\* counter within Uint64.
LEMMA CommitKeepsTypes ==
    ASSUME TypeOK, NEW b \in Batch, NEW m \in MonotonicPoint, Commit(b, m)
    PROVE  TypeOK'
  <1>1. /\ ApplyToErrors(b, m) = {}
        /\ RevisionErrors(b, m) = {}
    BY AcceptedBatch DEF Commit
  <1>2. WidthErrors(b) = {}
    <2>1. ContentErrors(b, m) = {}
      BY <1>1 DEF ApplyToErrors
    <2> QED
      BY <2>1 DEF ContentErrors
  <1>3. IsMap(sources', SourceKey, SourceRecord)
    BY <1>2, PostSourcesKind DEF Commit
  <1>4. IsMap(bindings', Binding, BindingRecord)
    BY <1>2, PostBindingsKind DEF Commit
  <1>5. IsMap(links', Binding, LinkRecord)
    BY <1>2, PostLinksKind DEF Commit
  <1>6. IsMap(services', Service, ServiceRecord)
    BY <1>2, PostServicesKind DEF Commit
  <1>7. IsMap(capabilities', Capability, CapabilityRecord)
    BY <1>2, PostCapabilitiesKind DEF Commit
  <1>8. IsMap(candidates', Candidate, CandidateRecord)
    BY PostCandidatesKind DEF Commit
  <1>9. IsMap(envelopes', FactKey, Revision)
    BY <1>2, PostEnvelopesKind DEF Commit
  <1>10. IsMap(retained', RetainedIdentity, RetainedRecord)
    BY PostRetainedKind DEF Commit
  <1>11. IsMap(fences', CursorKey, SUBSET Evidence)
    BY PostFencesKind DEF Commit
  <1>12. IsMap(cursors', CursorKey, CursorRecord)
    BY PostCursorsKind DEF Commit
  <1>13. /\ revisions' \in [DOMAIN revisions -> 0..MaxUint64]
         /\ PostRevisions(b, m).semantic \in Revision
    BY <1>1, PostRevisionsKind DEF Commit
  <1>14. /\ revisions' \in [DOMAIN revisions' -> 0..MaxUint64]
         /\ DOMAIN revisions' = {"semantic", "identity", "facts", "services", "capabilities"}
    BY <1>13 DEF TypeOK
  <1>15. IsMap(replays', CursorKey, Revision)
    <2> DEFINE mine == [k \in {Key(b)} |-> PostRevisions(b, m).semantic]
    <2>1. Key(b) \in CursorKey
      BY DEF Batch, Key, CursorKey
    <2>2. IsMap(mine, CursorKey, Revision)
      BY <1>13, <2>1, SingletonIsMap
    <2>3. replays' = With(replays, mine) /\ IsMap(replays, CursorKey, Revision)
      BY DEF Commit, TypeOK
    <2> HIDE DEF mine
    <2> QED
      BY <2>2, <2>3, WithIsMap
  <1>16. evaluatedAt' \in [wall : TimePoint, mono : MonotonicPoint] \cup {Never}
    BY DEF Commit, Context, Batch
  <1> QED
    BY <1>3, <1>4, <1>5, <1>6, <1>7, <1>8, <1>9, <1>10, <1>11, <1>12, <1>14, <1>15, <1>16
       DEF TypeOK

\* An empty kernel is well formed.
LEMMA InitIsTyped == Init => TypeOK
  <1> SUFFICES ASSUME Init PROVE TypeOK
    OBVIOUS
  <1>1. revisions \in [DOMAIN revisions -> 0..MaxUint64]
    BY MaxUint64Assumption DEF Init
  <1>2. DOMAIN revisions = {"semantic", "identity", "facts", "services", "capabilities"}
    BY DEF Init
  <1> QED
    BY <1>1, <1>2, EmptyIsMap DEF Init, TypeOK

\* Whatever batches the publishers send, the kernel's state is well formed
\* and no Uint64 of a committed snapshot has left its width.
THEOREM TypeCorrect == Spec => []TypeOK
  <1>1. Init => TypeOK
    BY InitIsTyped
  <1>2. TypeOK /\ [Next]_vars => TypeOK'
    <2> SUFFICES ASSUME TypeOK, [Next]_vars PROVE TypeOK'
      OBVIOUS
    <2>1. CASE UNCHANGED vars
      BY <2>1 DEF vars, TypeOK, IsMap
    <2>2. ASSUME NEW b \in Batch, NEW m \in MonotonicPoint, Apply(b, m) PROVE TypeOK'
      <3>1. CASE Commit(b, m)
        BY <3>1, CommitKeepsTypes
      <3>2. CASE Replay(b, m) \/ Reject(b, m)
        BY <3>2 DEF Replay, Reject, vars, TypeOK, IsMap
      <3> QED
        BY <2>2, <3>1, <3>2 DEF Apply
    <2> QED
      BY <2>1, <2>2 DEF Next
  <1> QED
    BY <1>1, <1>2, PTL DEF Spec

-----------------------------------------------------------------------------
(* The kernel implements Authority. *)

\* What an accepted batch has been checked for, as far as identities go.
LEMMA AcceptedIdentity ==
    ASSUME NEW b, NEW m, Advances(b), Verdict(b, m) = {}
    PROVE  /\ PublisherTombstones(b) = {} /\ HeaderOwnershipErrors(b) = {}
           /\ OrderErrors(b) = {}
           /\ EpochErrors(b) = {} /\ SourceErrors(b) = {}
           /\ GenerationErrors(b) = {} /\ FenceErrors(b) = {}
           /\ LifecycleErrors(PostSources(b), PostFences(b), PostCursors(b), PostBindings(b),
                              PostLinks(b), PostServices(b), PostCapabilities(b)) = {}
  <1>1. /\ EntryErrors(b) = {} /\ OrderErrors(b) = {} /\ ApplyToErrors(b, m) = {}
        /\ ValidateErrors(b, m) = {}
    BY AcceptedBatch
  <1>2. StructureErrors(b) = {}
    BY <1>1 DEF EntryErrors
  <1>3. PublisherTombstones(b) = {} /\ HeaderOwnershipErrors(b) = {}
    BY <1>2 DEF StructureErrors
  <1>4. /\ EpochErrors(b) = {} /\ SourceErrors(b) = {}
        /\ GenerationErrors(b) = {} /\ FenceErrors(b) = {}
    BY <1>1 DEF ApplyToErrors
  <1> QED
    BY <1>1, <1>3, <1>4 DEF ValidateErrors, SnapshotErrors

\* A source epoch is retired after the commit if it was before or the batch
\* retires it, and in no other case.
LEMMA SourceStates ==
    ASSUME TypeOK, NEW b \in Batch, NEW m, Advances(b), Verdict(b, m) = {}
    PROVE  /\ DOMAIN PostSources(b) = DOMAIN sources \cup DOMAIN b.sourceUpserts
           /\ \A s \in DOMAIN PostSources(b) :
                 PostSources(b)[s].state = "retired" <=>
                    \/ s \in DOMAIN sources /\ sources[s].state = "retired"
                    \/ s[1] = b.source /\ s[2] \in b.retirements
           /\ \A s \in DOMAIN PostSources(b) : PostSources(b)[s].state \in {"current", "retired"}
  <1> DEFINE put == With(sources, b.sourceUpserts)
  <1>1. IsMap(put, SourceKey, WideSource)
    BY WithIsMap, BatchMaps, RecordsAreWide, WiderIsMap DEF TypeOK
  <1>2. DOMAIN put = DOMAIN sources \cup DOMAIN b.sourceUpserts
    BY DEF With
  <1>3. ASSUME NEW s \in DOMAIN put
        PROVE  put[s].state = "retired" <=> s \in DOMAIN sources /\ sources[s].state = "retired"
    <2>1. CASE s \in DOMAIN b.sourceUpserts
      <3>1. put[s] = b.sourceUpserts[s]
        BY <2>1 DEF With
      <3>2. b.sourceUpserts[s].state # "retired"
        BY <2>1, AcceptedIdentity DEF PublisherTombstones, Flag
      <3>3. s \in DOMAIN sources => sources[s].state = "current"
        <4> SUFFICES ASSUME s \in DOMAIN sources PROVE sources[s].state = "current"
          OBVIOUS
        <4>1. KnownSourceErrors(b, s) = {}
          BY <2>1, AcceptedIdentity DEF SourceErrors
        <4> QED
          BY <4>1 DEF KnownSourceErrors, Flag
      <3> QED
        BY <3>1, <3>2, <3>3
    <2>2. CASE s \notin DOMAIN b.sourceUpserts
      BY <2>2 DEF With
    <2> QED
      BY <2>1, <2>2
  <1> HIDE DEF put
  <1>4. /\ DOMAIN StagedSources(b) = DOMAIN put
        /\ \A s \in DOMAIN put : StagedSources(b)[s] =
              IF Retiring(b, s) THEN Bumped([put[s] EXCEPT !.state = "retired"]) ELSE put[s]
    BY DEF StagedSources, put
  <1>5. ASSUME NEW s \in DOMAIN put
        PROVE  /\ StagedSources(b)[s] \in WideSource
               /\ StagedSources(b)[s].state =
                     IF Retiring(b, s) THEN "retired" ELSE put[s].state
    <2>1. put[s] \in WideSource
      BY <1>1 DEF IsMap
    <2>2. /\ [put[s] EXCEPT !.state = "retired"] \in WideSource
          /\ [put[s] EXCEPT !.state = "retired"].state = "retired"
      BY <2>1 DEF WideSource
    <2>3. \A r \in WideSource : Bumped(r).state = r.state /\ Bumped(r) \in WideSource
      BY BumpedIsWide DEF Bumped, WideSource
    <2> QED
      BY <1>4, <2>1, <2>2, <2>3
  <1>6. /\ DOMAIN PostSources(b) = DOMAIN put
        /\ \A s \in DOMAIN put : PostSources(b)[s].state = StagedSources(b)[s].state
    <2>1. DOMAIN PostSources(b) = DOMAIN put
      BY <1>4 DEF PostSources, Normalized
    <2>2. ASSUME NEW s \in DOMAIN put
          PROVE  PostSources(b)[s].state = StagedSources(b)[s].state
      <3>1. StagedSources(b)[s] \in WideSource
        BY <1>5
      <3>2. \A v : [StagedSources(b)[s] EXCEPT !.revision = v].state = StagedSources(b)[s].state
        BY <3>1 DEF WideSource
      <3> QED
        BY <1>4, <3>2 DEF PostSources, Normalized
    <2> QED
      BY <2>1, <2>2
  <1>7. \A s \in DOMAIN put : StagedSources(b)[s].state \in {"current", "retired"}
    BY <1>5 DEF WideSource
  <1> QED
    BY <1>2, <1>3, <1>5, <1>6, <1>7 DEF Retiring

\* Which cursors are fenced after the commit.
LEMMA CursorStates ==
    ASSUME TypeOK, NEW b \in Batch
    PROVE  /\ DOMAIN PostCursors(b) = DOMAIN cursors \cup {Key(b)}
           /\ \A k \in DOMAIN PostCursors(b) :
                 PostCursors(b)[k].fenced <=>
                    k \in DOMAIN b.fences \/ (k # Key(b) /\ cursors[k].fenced)
  <1> DEFINE fenced == [k \in DOMAIN cursors |->
                          IF k \in FencedKeys(b) THEN [cursors[k] EXCEPT !.fenced = TRUE]
                                                 ELSE cursors[k]]
             mine   == [k \in {Key(b)} |->
                          [seq |-> b.seq, digest |-> b.digest, fenced |-> k \in DOMAIN b.fences]]
  <1>1. PostCursors(b) = With(fenced, mine)
    BY DEF PostCursors
  <1>2. DOMAIN fenced = DOMAIN cursors /\ DOMAIN mine = {Key(b)}
    OBVIOUS
  <1>3. mine[Key(b)].fenced <=> Key(b) \in DOMAIN b.fences
    OBVIOUS
  <1>4. \A k \in DOMAIN cursors : fenced[k].fenced <=> k \in DOMAIN b.fences \/ cursors[k].fenced
    BY DEF TypeOK, IsMap, CursorRecord, FencedKeys
  <1> HIDE DEF fenced, mine
  <1> QED
    BY <1>1, <1>2, <1>3, <1>4 DEF With

\* Cursors and source epochs belong together: neither exists without the other.
\* Snapshot.Validate establishes this for every committed snapshot.
Anchored ==
    /\ \A k \in DOMAIN cursors : <<k[1], k[2]>> \in DOMAIN sources
    /\ \A s \in DOMAIN sources : \E k \in DOMAIN cursors : <<k[1], k[2]>> = s

\* Anchored survives a commit: Snapshot.Validate requires a cursor for every
\* source epoch and a source epoch for every cursor.
LEMMA CommitAnchors ==
    ASSUME NEW b, NEW m, Commit(b, m)
    PROVE  Anchored'
  <1>1. sources' = PostSources(b) /\ cursors' = PostCursors(b)
    BY DEF Commit
  <1>2. LifecycleErrors(PostSources(b), PostFences(b), PostCursors(b), PostBindings(b),
                        PostLinks(b), PostServices(b), PostCapabilities(b)) = {}
    BY AcceptedIdentity DEF Commit
  <1>3. \A k \in DOMAIN PostCursors(b) : <<k[1], k[2]>> \in DOMAIN PostSources(b)
    BY <1>2 DEF LifecycleErrors, Flag
  <1>4. \A s \in DOMAIN PostSources(b) : \E k \in DOMAIN PostCursors(b) : <<k[1], k[2]>> = s
    BY <1>2 DEF LifecycleErrors, Flag
  <1> QED
    BY <1>1, <1>3, <1>4 DEF Anchored

\* The cursors that may publish, as Authority sees them.
LiveSet == {k \in DOMAIN cursors : Live(k)}
EndedSet == {s \in DOMAIN sources : sources[s].state = "retired"}

\* The publisher's own key may publish: it is new or live, and no later
\* generation of its epoch has a cursor.
LEMMA PublisherIsLive ==
    ASSUME TypeOK, Anchored, NEW b \in Batch, NEW m, Advances(b), Verdict(b, m) = {}
    PROVE  /\ Key(b) \in DOMAIN cursors => Live(Key(b))
           /\ <<b.source, b.epoch>> \notin EndedSet
           /\ \A j \in DOMAIN cursors : j[1] = b.source /\ j[2] = b.epoch => j[3] <= b.gen
  <1>1. <<b.source, b.epoch>> \in DOMAIN sources => sources[<<b.source, b.epoch>>].state = "current"
    BY AcceptedIdentity DEF EpochErrors, Flag
  <1>2. Key(b) \in DOMAIN cursors => ~cursors[Key(b)].fenced
    BY AcceptedIdentity DEF OrderErrors, KnownCursor, Flag
  <1>3. ASSUME NEW j \in DOMAIN cursors, j[1] = b.source, j[2] = b.epoch PROVE j[3] <= b.gen
    <2>1. ~(b.gen < j[3])
      BY <1>3, AcceptedIdentity DEF OrderErrors, Flag
    <2>2. j[3] \in Int /\ b.gen \in Int
      BY PublicationAssumption, MaxUint64Assumption DEF TypeOK, IsMap, CursorKey, Batch
    <2> QED
      BY <2>1, <2>2
  <1>4. Key(b)[1] = b.source /\ Key(b)[2] = b.epoch
    BY DEF Key
  <1>5. Key(b) \in DOMAIN cursors => <<b.source, b.epoch>> \in DOMAIN sources
    BY <1>4 DEF Anchored
  <1> QED
    BY <1>1, <1>2, <1>3, <1>4, <1>5 DEF Live, EndedSet

\* Every other live key of the source is closed by the commit, every other
\* epoch of the source is ended, and nothing of another source is touched.
LEMMA CommitHandsOver ==
    ASSUME TypeOK, Anchored, NEW b \in Batch, NEW m, Commit(b, m)
    PROVE  /\ DOMAIN cursors' = DOMAIN cursors \cup {Key(b)}
           /\ LiveSet' \subseteq LiveSet \cup {Key(b)}
           /\ \A j \in LiveSet \cup {Key(b)} :
                 j[1] = b.source /\ (j # Key(b) \/ <<j[1], j[2]>> \in EndedSet') => j \notin LiveSet'
           /\ \A j \in LiveSet : j[1] # b.source => j \in LiveSet'
           /\ EndedSet \subseteq EndedSet'
           /\ \A s \in EndedSet' \ EndedSet : s \in DOMAIN sources /\ s[1] = b.source
           /\ \A s \in DOMAIN sources :
                 s[1] = b.source /\ s # <<b.source, b.epoch>> => s \in EndedSet'
  <1>1. sources' = PostSources(b) /\ cursors' = PostCursors(b) /\ Advances(b) /\ Verdict(b, m) = {}
    BY DEF Commit
  <1> DEFINE Retires(s) == s[1] = b.source /\ s[2] \in b.retirements
  <1>2. /\ DOMAIN sources' = DOMAIN sources \cup DOMAIN b.sourceUpserts
        /\ \A s \in DOMAIN sources' :
              sources'[s].state = "retired" <=>
                 (s \in DOMAIN sources /\ sources[s].state = "retired") \/ Retires(s)
        /\ \A s \in DOMAIN sources' : sources'[s].state \in {"current", "retired"}
    BY <1>1, SourceStates
  <1>3. /\ DOMAIN cursors' = DOMAIN cursors \cup {Key(b)}
        /\ \A k \in DOMAIN cursors' :
              cursors'[k].fenced <=> k \in DOMAIN b.fences \/ (k # Key(b) /\ cursors[k].fenced)
    BY <1>1, CursorStates
  <1>4. \A s \in DOMAIN sources : sources[s].state \in {"current", "retired"}
    BY DEF TypeOK, IsMap, SourceRecord
  <1>5. Key(b)[1] = b.source /\ Key(b)[2] = b.epoch /\ Key(b)[3] = b.gen
    BY DEF Key
  <1>6. \A k \in DOMAIN b.fences : k[1] = b.source /\ k[2] = b.epoch
    BY <1>1, AcceptedIdentity DEF HeaderOwnershipErrors, Flag
  <1>7. \A e \in b.retirements : <<b.source, e>> \in DOMAIN sources
    BY <1>1, AcceptedIdentity DEF EpochErrors, Flag
  <1>8. \A s \in DOMAIN sources :
           s[1] = b.source /\ sources[s].state = "current" /\ s[2] # b.epoch => s[2] \in b.retirements
    BY <1>1, AcceptedIdentity DEF EpochErrors, Flag
  <1>10. \A s \in DOMAIN sources' : s = <<s[1], s[2]>>
    BY <1>2, BatchMaps DEF TypeOK, IsMap, SourceKey
  <1>11. \A k \in DOMAIN cursors : k = <<k[1], k[2], k[3]>> /\ k[3] \in Int /\ b.gen \in Int
    BY PublicationAssumption, MaxUint64Assumption DEF TypeOK, IsMap, CursorKey, Batch
  <1>12. \A s \in DOMAIN sources : s \in EndedSet' <=> s \in EndedSet \/ Retires(s)
    BY <1>2 DEF EndedSet
  <1>13. EndedSet \subseteq EndedSet'
    BY <1>12 DEF EndedSet
  <1>14. \A s \in EndedSet' \ EndedSet : s \in DOMAIN sources /\ s[1] = b.source
    <2> SUFFICES ASSUME NEW s \in EndedSet', s \notin EndedSet
                 PROVE  s \in DOMAIN sources /\ s[1] = b.source
      OBVIOUS
    <2>1. s \in DOMAIN sources' /\ Retires(s)
      BY <1>2 DEF EndedSet
    <2> QED
      BY <1>7, <1>10, <2>1
  <1>15. \A s \in DOMAIN sources :
            s[1] = b.source /\ s # <<b.source, b.epoch>> => s \in EndedSet'
    <2> SUFFICES ASSUME NEW s \in DOMAIN sources, s[1] = b.source, s # <<b.source, b.epoch>>
                 PROVE  s \in EndedSet'
      OBVIOUS
    <2>1. s[2] # b.epoch
      BY <1>2, <1>10
    <2> QED
      BY <1>4, <1>8, <1>12, <2>1 DEF EndedSet
  <1>16. LiveSet' \subseteq LiveSet \cup {Key(b)}
    <2> SUFFICES ASSUME NEW k \in LiveSet', k # Key(b) PROVE k \in LiveSet
      OBVIOUS
    <2>1. k \in DOMAIN cursors /\ ~cursors'[k].fenced /\ sources'[<<k[1], k[2]>>].state = "current"
      BY <1>3 DEF LiveSet, Live
    <2>2. ~cursors[k].fenced /\ <<k[1], k[2]>> \in DOMAIN sources
      BY <1>3, <2>1 DEF Anchored
    <2>3. sources[<<k[1], k[2]>>].state = "current"
      BY <1>2, <1>4, <2>1, <2>2
    <2> QED
      BY <2>1, <2>2, <2>3 DEF LiveSet, Live
  <1>17. \A j \in LiveSet \cup {Key(b)} :
            j[1] = b.source /\ (j # Key(b) \/ <<j[1], j[2]>> \in EndedSet') => j \notin LiveSet'
    <2> SUFFICES ASSUME NEW j \in LiveSet \cup {Key(b)}, j[1] = b.source,
                        j # Key(b) \/ <<j[1], j[2]>> \in EndedSet'
                 PROVE  j \notin LiveSet'
      OBVIOUS
    <2>1. CASE <<j[1], j[2]>> \in EndedSet'
      BY <2>1 DEF EndedSet, LiveSet, Live
    <2>2. CASE j # Key(b) /\ j[2] # b.epoch
      <3>1. <<j[1], j[2]>> \in DOMAIN sources
        BY <2>2 DEF LiveSet, Anchored
      <3> QED
        BY <1>15, <2>1, <2>2, <3>1
    <2>3. CASE j # Key(b) /\ j[2] = b.epoch
      <3>1. j \in DOMAIN cursors /\ ~cursors[j].fenced
        BY <2>3 DEF LiveSet, Live
      <3>2. j \in LiveKeys(b)
        BY <2>3, <3>1 DEF LiveKeys
      <3>3. ~(b.gen < j[3]) /\ (b.gen > j[3] => j \in DOMAIN b.fences)
        BY <1>1, <3>2, AcceptedIdentity DEF GenerationErrors, Flag
      <3>4. b.gen # j[3]
        BY <1>11, <2>3, <3>1 DEF Key
      <3>5. j \in DOMAIN b.fences
        BY <1>11, <3>1, <3>3, <3>4
      <3> QED
        BY <1>3, <3>1, <3>5 DEF LiveSet, Live
    <2> QED
      BY <2>1, <2>2, <2>3
  <1>18. \A j \in LiveSet : j[1] # b.source => j \in LiveSet'
    <2> SUFFICES ASSUME NEW j \in LiveSet, j[1] # b.source PROVE j \in LiveSet'
      OBVIOUS
    <2>1. j \in DOMAIN cursors /\ ~cursors[j].fenced /\ sources[<<j[1], j[2]>>].state = "current"
      BY DEF LiveSet, Live
    <2>2. <<j[1], j[2]>> \in DOMAIN sources
      BY <2>1 DEF Anchored
    <2>3. ~cursors'[j].fenced
      BY <1>3, <1>5, <1>6, <2>1
    <2>4. sources'[<<j[1], j[2]>>].state = "current"
      BY <1>2, <2>1, <2>2
    <2> QED
      BY <1>3, <2>1, <2>3, <2>4 DEF LiveSet, Live
  <1> QED
    BY <1>3, <1>13, <1>14, <1>15, <1>16, <1>17, <1>18

\* A commit is one publication of the abstract specification.
LEMMA CommitIsPublish ==
    ASSUME TypeOK, Anchored, NEW b \in Batch, NEW m, Commit(b, m)
    PROVE  Rights!AuthorityNext
  <1> DEFINE k == Key(b)
             closing == {j \in LiveSet \cup {k} : j[1] = k[1] /\ j \notin LiveSet'}
             ending  == EndedSet' \ EndedSet
             closed  == {j \in DOMAIN cursors : ~Live(j)}
  <1>1. k[1] = b.source /\ k[2] = b.epoch /\ k[3] = b.gen /\ k \in Rights!AuthorityKey
    BY DEF Key, Batch, Rights!AuthorityKey
  <1>2. Advances(b) /\ Verdict(b, m) = {}
    BY DEF Commit
  <1>3. LiveSet \cup closed = DOMAIN cursors /\ LiveSet \cap closed = {}
    BY DEF LiveSet
  <1>4. k \notin closed
    BY <1>2, PublisherIsLive
  <1>5. Rights!EpochOf(k) \notin EndedSet
    BY <1>1, <1>2, PublisherIsLive DEF Rights!EpochOf
  <1>6. \A j \in DOMAIN cursors : Rights!EpochOf(j) = Rights!EpochOf(k) => j[3] <= k[3]
    BY <1>1, <1>2, PublisherIsLive DEF Rights!EpochOf
  <1> HIDE DEF k
  <1>7. Rights!Known = DOMAIN cursors
    BY DEF Rights!Known
  <1>8. Rights!EpochsOf(k[1]) = {s \in DOMAIN sources : s[1] = k[1]}
    <2>1. \A s \in DOMAIN sources : s = <<s[1], s[2]>>
      BY DEF TypeOK, IsMap, SourceKey
    <2> QED
      BY <1>7, <2>1 DEF Rights!EpochsOf, Rights!EpochOf, Anchored
  <1>9. Rights!EpochsOf(k[1]) \ (EndedSet \cup {Rights!EpochOf(k)}) \subseteq ending
    BY <1>1, <1>8, CommitHandsOver DEF Rights!EpochOf
  <1>10. ending \subseteq Rights!EpochsOf(k[1]) \cup {Rights!EpochOf(k)}
    BY <1>1, <1>8, CommitHandsOver
  <1>11. \A j \in LiveSet \cup {k} :
            j[1] = k[1] /\ (j # k \/ Rights!EpochOf(j) \in ending) => j \in closing
    BY <1>1, CommitHandsOver DEF Rights!EpochOf, k
  <1>12. LiveSet' = (LiveSet \cup {k}) \ closing
    BY <1>1, CommitHandsOver DEF k
  <1>13. closed' = closed \cup closing
    <2>1. DOMAIN cursors' = DOMAIN cursors \cup {k}
      BY CommitHandsOver DEF k
    <2>2. closed' = DOMAIN cursors' \ LiveSet'
      BY DEF LiveSet
    <2> QED
      BY <1>3, <1>4, <1>12, <2>1, <2>2
  <1>14. EndedSet' = EndedSet \cup ending
    BY CommitHandsOver
  <1>15. closing \in SUBSET {j \in LiveSet \cup {k} : j[1] = k[1]}
    OBVIOUS
  <1> HIDE DEF closing, ending, closed
  <1>16. PICK c, e : c = closing /\ e = ending
    OBVIOUS
  <1>17. Rights!Publish(k, c, e)
    BY <1>4, <1>5, <1>6, <1>7, <1>9, <1>11, <1>12, <1>13, <1>14, <1>16
       DEF Rights!Publish, LiveSet, EndedSet, closed
  <1>18. c \in SUBSET {j \in {i \in DOMAIN cursors : Live(i)} \cup {k} : j[1] = k[1]}
    BY <1>15, <1>16 DEF LiveSet
  <1>19. e \in SUBSET (Rights!EpochsOf(k[1]) \cup {Rights!EpochOf(k)})
    BY <1>10, <1>16
  <1> QED
    BY <1>1, <1>17, <1>18, <1>19, Zenon DEF Rights!AuthorityNext

\* The publication kernel implements Authority: whatever batches arrive, the
\* right to publish is handed on exactly as Authority says.
THEOREM AuthorityImplemented == Spec => ImplementsAuthority
  <1>1. Init => Rights!AuthorityInit /\ Anchored
    BY DEF Init, Rights!AuthorityInit, Anchored
  <1>2. TypeOK /\ Anchored /\ [Next]_vars => Anchored' /\ [Rights!AuthorityNext]_(Rights!authority)
    <2> SUFFICES ASSUME TypeOK, Anchored, [Next]_vars
                 PROVE  Anchored' /\ [Rights!AuthorityNext]_(Rights!authority)
      OBVIOUS
    <2>1. UNCHANGED vars => Anchored' /\ UNCHANGED Rights!authority
      BY DEF vars, Anchored, Rights!authority, Live
    <2>2. ASSUME NEW b \in Batch, NEW m \in MonotonicPoint, Apply(b, m)
          PROVE  Anchored' /\ [Rights!AuthorityNext]_(Rights!authority)
      <3>1. CASE Commit(b, m)
        BY <3>1, CommitAnchors, CommitIsPublish
      <3>2. CASE Replay(b, m) \/ Reject(b, m)
        BY <2>1, <3>2 DEF Replay, Reject
      <3> QED
        BY <2>2, <3>1, <3>2 DEF Apply
    <2> QED
      BY <2>1, <2>2 DEF Next
  <1> QED
    BY <1>1, <1>2, TypeCorrect, PTL DEF Spec, ImplementsAuthority, Rights!AuthoritySpec

-----------------------------------------------------------------------------
(* The rights a kernel state stands for are handed on one writer at a time. *)

\* By Authority alone, a source never has two writers, a closed key is never a
\* writer and no writer belongs to an epoch that is over.
THEOREM OneWriterHolds == Rights!AuthoritySpec => []Rights!OneWriter
  <1> DEFINE ClosedSet == {k \in DOMAIN cursors : ~Live(k)}
             One == /\ LiveSet \cap ClosedSet = {}
                    /\ \A i, j \in LiveSet : i[1] = j[1] => i = j
                    /\ \A j \in LiveSet : <<j[1], j[2]>> \notin EndedSet
  <1>1. Rights!OneWriter <=> One
    BY DEF Rights!OneWriter, Rights!EpochOf, LiveSet, EndedSet
  <1>2. Rights!OneWriter' <=> One'
    BY DEF Rights!OneWriter, Rights!EpochOf, LiveSet, EndedSet, Live
  <1>3. Rights!AuthorityInit => One
    BY DEF Rights!AuthorityInit, LiveSet, EndedSet
  <1>4. UNCHANGED Rights!authority
           => LiveSet' = LiveSet /\ ClosedSet' = ClosedSet /\ EndedSet' = EndedSet
    BY DEF Rights!authority, LiveSet, EndedSet, Live
  <1>5. ASSUME One, NEW k, NEW closing,
               NEW ending \in SUBSET (Rights!EpochsOf(k[1]) \cup {Rights!EpochOf(k)}),
               Rights!Publish(k, closing, ending)
        PROVE  One'
    <2>1. /\ k \notin ClosedSet /\ <<k[1], k[2]>> \notin EndedSet
          /\ \A j \in LiveSet \cup {k} :
                j[1] = k[1] /\ (j # k \/ <<j[1], j[2]>> \in ending) => j \in closing
      BY <1>5 DEF Rights!Publish, Rights!EpochOf, LiveSet, EndedSet
    <2>2. /\ LiveSet' = (LiveSet \cup {k}) \ closing
          /\ ClosedSet' = ClosedSet \cup closing
          /\ EndedSet' = EndedSet \cup ending
      BY <1>5 DEF Rights!Publish, LiveSet, EndedSet, Live
    <2>3. \A s \in ending : s[1] = k[1]
      BY DEF Rights!EpochsOf, Rights!EpochOf
    <2> HIDE DEF ClosedSet
    <2>4. /\ ((LiveSet \cup {k}) \ closing) \cap (ClosedSet \cup closing) = {}
          /\ \A i, j \in (LiveSet \cup {k}) \ closing : i[1] = j[1] => i = j
          /\ \A j \in (LiveSet \cup {k}) \ closing : <<j[1], j[2]>> \notin EndedSet \cup ending
      BY <1>5, <2>1, <2>3
    <2> QED
      BY <2>2, <2>4
  <1>6. One /\ [Rights!AuthorityNext]_(Rights!authority) => One'
    BY <1>4, <1>5 DEF Rights!AuthorityNext
  <1>7. Rights!OneWriter /\ [Rights!AuthorityNext]_(Rights!authority) => Rights!OneWriter'
    BY <1>1, <1>2, <1>6
  <1> QED
    BY <1>1, <1>3, <1>7, PTL DEF Rights!AuthoritySpec

\* However many drivers of however many generations and epochs send batches, a
\* source never has two that can publish, neither two generations of one epoch
\* nor two epochs (the epoch, generation and fence rules of applyTo together).
THEOREM OneWriterPerSource == Spec => []Rights!OneWriter
  BY AuthorityImplemented, OneWriterHolds, PTL DEF ImplementsAuthority

-----------------------------------------------------------------------------
(* Records and their revisions. *)

\* A record that is a function with a revision among its members.
IsRecord(r) == r = [x \in DOMAIN r |-> r[x]] /\ "revision" \in DOMAIN r

\* The records of every revisioned collection are such records.
LEMMA KindsAreRecords ==
    /\ \A r \in WideSource : IsRecord(r) /\ "state" \in DOMAIN r
    /\ \A r \in WideBinding : /\ IsRecord(r)
                              /\ {"source", "epoch", "gen", "resource", "state"} \subseteq DOMAIN r
    /\ \A r \in WideLink : IsRecord(r) /\ "state" \in DOMAIN r
    /\ \A r \in WideService : IsRecord(r) /\ {"binding", "epoch", "gen", "availability"} \subseteq DOMAIN r
    /\ \A r \in WideCapability : IsRecord(r) /\ {"binding", "epoch", "gen", "availability"} \subseteq DOMAIN r
    /\ \A r \in CandidateRecord : IsRecord(r)
  <1>1. /\ \A r \in WideSource : IsRecord(r) /\ "state" \in DOMAIN r
        /\ \A r \in WideLink : IsRecord(r) /\ "state" \in DOMAIN r
    BY DEF IsRecord, WideSource, WideLink
  <1>2. \A r \in WideBinding : /\ IsRecord(r)
                               /\ {"source", "epoch", "gen", "resource", "state"} \subseteq DOMAIN r
    BY DEF IsRecord, WideBinding
  <1>3. \A r \in WideService : IsRecord(r) /\ {"binding", "epoch", "gen", "availability"} \subseteq DOMAIN r
    BY DEF IsRecord, WideService
  <1>4. \A r \in WideCapability : IsRecord(r) /\ {"binding", "epoch", "gen", "availability"} \subseteq DOMAIN r
    BY DEF IsRecord, WideCapability
  <1>5. \A r \in CandidateRecord : IsRecord(r)
    BY DEF IsRecord, CandidateRecord, ObservedRecord, InferredRecord
  <1> QED
    BY <1>1, <1>2, <1>3, <1>4, <1>5

\* The record with another revision.
Revised(r, v) == [r EXCEPT !.revision = v]

\* Giving a record another revision changes nothing else about it.
LEMMA RevisionOnly ==
    ASSUME NEW r, NEW v, IsRecord(r)
    PROVE  /\ IsRecord(Revised(r, v))
           /\ DOMAIN Revised(r, v) = DOMAIN r
           /\ Revised(r, v).revision = v
           /\ \A f \in DOMAIN r : f # "revision" => Revised(r, v)[f] = r[f]
           /\ Revised(r, r.revision) = r
           /\ Revised(Revised(r, v), 0) = Revised(r, 0)
  BY DEF IsRecord, Revised

\* Two records with the same content and the same revision are the same record.
LEMMA SameRecord ==
    ASSUME NEW old, NEW new, IsRecord(old), IsRecord(new),
           SameContent(old, new), old.revision = new.revision
    PROVE  old = new
  <1>1. Revised(old, 0) = Revised(new, 0)
    BY DEF SameContent, Revised
  <1>2. \A r, v : IsRecord(r) => Revised(Revised(r, 0), r.revision) = r
    BY DEF IsRecord, Revised
  <1> QED
    BY <1>1, <1>2

\* normalizeObjectRevisions writes revisions and nothing else: the one the object
\* had if its content is the same, the next one if it is not, and so an object
\* that was staged as it was stays as it was.
LEMMA NormalizedIsExact ==
    ASSUME NEW before, NEW after,
           \A k \in DOMAIN before : IsRecord(before[k]) /\ before[k].revision \in Nat,
           \A k \in DOMAIN after : IsRecord(after[k])
    PROVE  /\ DOMAIN Normalized(before, after) = DOMAIN after
           /\ \A k \in DOMAIN after : \A f \in DOMAIN after[k] :
                 f # "revision" => Normalized(before, after)[k][f] = after[k][f]
           /\ \A k \in DOMAIN after \cap DOMAIN before :
                 after[k] = before[k] => Normalized(before, after)[k] = before[k]
           /\ Exact(before, Normalized(before, after))
  <1> DEFINE new == Normalized(before, after)
             moved(k) == IF SameContent(before[k], after[k]) THEN before[k].revision
                                                             ELSE before[k].revision + 1
  <1>1. DOMAIN new = DOMAIN after
    BY DEF Normalized
  <1>2. ASSUME NEW k \in DOMAIN after, k \notin DOMAIN before PROVE new[k] = after[k]
    BY <1>2 DEF Normalized
  <1>3. ASSUME NEW k \in DOMAIN after, k \in DOMAIN before
        PROVE  new[k] = Revised(after[k], moved(k))
    BY <1>3, Zenon DEF Normalized, Revised
  <1>4. \A k : SameContent(before[k], after[k]) => moved(k) = before[k].revision
    OBVIOUS
  <1>5. \A k : ~SameContent(before[k], after[k]) => moved(k) = before[k].revision + 1
    OBVIOUS
  <1>6. \A old, other : SameContent(old, other) <=> Revised(old, 0) = Revised(other, 0)
    BY DEF SameContent, Revised
  <1> HIDE DEF new, moved
  <1>7. ASSUME NEW k \in DOMAIN after, NEW f \in DOMAIN after[k], f # "revision"
        PROVE  new[k][f] = after[k][f]
    BY <1>2, <1>3, <1>7, RevisionOnly
  <1>8. ASSUME NEW k \in DOMAIN after \cap DOMAIN before, after[k] = before[k]
        PROVE  new[k] = before[k]
    BY <1>3, <1>4, <1>6, <1>8, RevisionOnly
  <1>9. ASSUME NEW k \in DOMAIN before \cap DOMAIN new
        PROVE  new[k].revision =
                  before[k].revision + (IF SameContent(before[k], new[k]) THEN 0 ELSE 1)
    <2>1. SameContent(before[k], new[k]) <=> SameContent(before[k], after[k])
      BY <1>1, <1>3, <1>6, RevisionOnly
    <2>2. new[k].revision = moved(k)
      BY <1>1, <1>3, RevisionOnly
    <2> QED
      BY <1>4, <1>5, <2>1, <2>2
  <1> QED
    BY <1>1, <1>7, <1>8, <1>9 DEF Exact, new

-----------------------------------------------------------------------------
(* What an accepted batch has been checked for. *)

\* Snapshot.Validate, on the snapshot the kernel holds.
Valid == SnapshotErrors(sources, fences, cursors, bindings, links, services, capabilities,
                        candidates, retained) = {}

\* Every operation of an accepted batch, and the snapshot it leads to, passed.
LEMMA AcceptedObjects ==
    ASSUME NEW b, NEW m, Advances(b), Verdict(b, m) = {}
    PROVE  /\ RetainedOwnershipErrors(b) = {}
           /\ BindingErrors(b) = {} /\ LinkErrors(b) = {}
           /\ FactUpsertErrors(b) = {} /\ FactWithdrawalErrors(b) = {}
           /\ ServiceErrors(b) = {} /\ CapabilityErrors(b) = {}
           /\ WidthErrors(b) = {} /\ RevisionErrors(b, m) = {}
           /\ ValidateErrors(b, m) = {}
  <1>1. /\ EntryErrors(b) = {} /\ ApplyToErrors(b, m) = {} /\ RevisionErrors(b, m) = {}
        /\ ValidateErrors(b, m) = {}
    BY AcceptedBatch
  <1>2. StructureErrors(b) = {}
    BY <1>1 DEF EntryErrors
  <1>3. RankedBefore(StructureErrors(b), "invalid_value") = {}
    BY <1>2 DEF RankedBefore
  <1>4. RetainedOwnershipErrors(b) = {}
    BY <1>1, <1>3 DEF EntryErrors
  <1>5. ContentErrors(b, m) = {}
    BY <1>1 DEF ApplyToErrors
  <1>6. WidthErrors(b) = {}
    BY <1>5 DEF ContentErrors
  <1> QED
    BY <1>1, <1>4, <1>6 DEF ApplyToErrors

\* Every snapshot that is committed is valid.
LEMMA CommitIsValid ==
    ASSUME NEW b, NEW m, Commit(b, m)
    PROVE  Valid'
  <1>1. ValidateErrors(b, m) = {}
    BY AcceptedObjects DEF Commit
  <1> QED
    BY <1>1 DEF Commit, ValidateErrors, Valid

\* What a valid snapshot says of its bindings, and of the observations on them.
LEMMA ValidPaths ==
    ASSUME Valid
    PROVE  /\ \A id \in DOMAIN bindings :
                 /\ <<bindings[id].source, bindings[id].epoch>> \in DOMAIN sources
                 /\ bindings[id].state = "retired" =>
                       sources[<<bindings[id].source, bindings[id].epoch>>].state = "retired"
                 /\ bindings[id].state = "current" =>
                       sources[<<bindings[id].source, bindings[id].epoch>>].state = "current"
           /\ \A id \in DOMAIN candidates :
                 Observed(candidates[id]) => PathErrors(candidates[id], bindings) = {}
           /\ \A id \in DOMAIN candidates :
                 ~Observed(candidates[id]) => \A i \in candidates[id].inputs : Present(candidates, i)
           /\ \A rid \in DOMAIN retained :
                 /\ retained[rid].candidate.binding \in DOMAIN bindings
                 /\ bindings[retained[rid].candidate.binding].state # "current"
                 /\ KeyOf(bindings[retained[rid].candidate.binding]) = KeyOf(retained[rid].candidate)
           /\ \A k \in DOMAIN cursors : <<k[1], k[2]>> \in DOMAIN sources
  <1>1. /\ LifecycleErrors(sources, fences, cursors, bindings, links, services, capabilities) = {}
        /\ HistoryErrors(sources, fences, bindings, retained) = {}
        /\ CloseErrors(candidates, DOMAIN candidates, bindings) = {}
    BY DEF Valid, SnapshotErrors
  <1>2. ASSUME NEW id \in DOMAIN bindings
        PROVE  /\ <<bindings[id].source, bindings[id].epoch>> \in DOMAIN sources
               /\ bindings[id].state = "retired" =>
                     sources[<<bindings[id].source, bindings[id].epoch>>].state = "retired"
               /\ bindings[id].state = "current" =>
                     sources[<<bindings[id].source, bindings[id].epoch>>].state = "current"
    BY <1>1, Zenon DEF LifecycleErrors, Flag
  <1>3. ASSUME NEW id \in DOMAIN candidates PROVE LocalErrors(candidates, bindings, id) = {}
    <2>1. NodeErrors(candidates, bindings, id) = {}
      BY <1>1 DEF CloseErrors
    <2> QED
      BY <2>1 DEF NodeErrors
  <1>4. ASSUME NEW id \in DOMAIN candidates, Observed(candidates[id])
        PROVE  PathErrors(candidates[id], bindings) = {}
    BY <1>3, <1>4 DEF LocalErrors
  <1>5. ASSUME NEW id \in DOMAIN candidates, ~Observed(candidates[id])
        PROVE  \A i \in candidates[id].inputs : Present(candidates, i)
    <2>1. Flag({i \in Inputs(candidates[id]) : Present(candidates, i)} # Inputs(candidates[id]),
               "dangling_reference") = {}
      BY <1>3, <1>5 DEF LocalErrors
    <2>2. Inputs(candidates[id]) = candidates[id].inputs
      BY <1>5 DEF Inputs
    <2> QED
      BY <2>1, <2>2 DEF Flag
  <1>6. ASSUME NEW rid \in DOMAIN retained
        PROVE  /\ retained[rid].candidate.binding \in DOMAIN bindings
               /\ bindings[retained[rid].candidate.binding].state # "current"
               /\ KeyOf(bindings[retained[rid].candidate.binding]) = KeyOf(retained[rid].candidate)
    BY <1>1 DEF HistoryErrors, Flag
  <1>7. \A k \in DOMAIN cursors : <<k[1], k[2]>> \in DOMAIN sources
    BY <1>1 DEF LifecycleErrors, Flag
  <1> QED
    BY <1>2, <1>4, <1>5, <1>6, <1>7

-----------------------------------------------------------------------------
(* Bindings: what a commit does to each of them. *)

\* A fence closes a generation of the header's source and epoch.
LEMMA FencesAreOwn ==
    ASSUME NEW b, NEW m, Advances(b), Verdict(b, m) = {}, NEW r, FencedBy(b, r)
    PROVE  r.source = b.source /\ r.epoch = b.epoch
  <1>1. KeyOf(r) \in DOMAIN b.fences
    BY DEF FencedBy, FencedKeys
  <1>2. KeyOf(r)[1] = b.source /\ KeyOf(r)[2] = b.epoch
    BY <1>1, AcceptedIdentity DEF HeaderOwnershipErrors, Flag
  <1> QED
    BY <1>2 DEF KeyOf

\* A transition writes the state and the revision, and a binding that stays in
\* service is not written at all.
LEMMA TransitionOfBinding ==
    ASSUME NEW b, NEW r \in WideBinding
    PROVE  /\ Transitioned(b, r) \in WideBinding
           /\ KeyOf(Transitioned(b, r)) = KeyOf(r)
           /\ Transitioned(b, r).source = r.source
           /\ ~FencedBy(b, r) /\ ~RetiredBy(b, r) => Transitioned(b, r) = r
           /\ FencedBy(b, r) \/ RetiredBy(b, r) => Transitioned(b, r).state # "current"
           /\ r.state # "current" => Transitioned(b, r).state # "current"
           /\ r.state = "retired" /\ ~FencedBy(b, r) => Transitioned(b, r).state = "retired"
  <1> DEFINE closed == IF FencedBy(b, r) /\ r.state # "fenced"
                       THEN Bumped([r EXCEPT !.state = "fenced"]) ELSE r
  <1>1. Transitioned(b, r) = IF RetiredBy(b, r) /\ closed.state # "retired"
                             THEN Bumped([closed EXCEPT !.state = "retired"]) ELSE closed
    BY DEF Transitioned
  <1>2. \A q \in WideBinding :
           \A v \in {"fenced", "retired"} :
              LET moved == Bumped([q EXCEPT !.state = v])
              IN  /\ moved \in WideBinding /\ moved.state = v
                  /\ moved.source = q.source /\ moved.epoch = q.epoch /\ moved.gen = q.gen
    BY BumpedIsWide, SteppedIsWide DEF Bumped, WideBinding
  <1>3. /\ closed \in WideBinding
        /\ closed.source = r.source /\ closed.epoch = r.epoch /\ closed.gen = r.gen
        /\ ~FencedBy(b, r) => closed = r
        /\ FencedBy(b, r) => closed.state = "fenced"
        /\ r.state # "current" => closed.state # "current"
    BY <1>2
  <1> HIDE DEF closed
  <1>4. CASE RetiredBy(b, r) /\ closed.state # "retired"
    <2>1. Transitioned(b, r) = Bumped([closed EXCEPT !.state = "retired"])
      BY <1>1, <1>4
    <2> DEFINE moved == Bumped([closed EXCEPT !.state = "retired"])
    <2>2. /\ moved \in WideBinding /\ moved.state = "retired"
          /\ moved.source = closed.source /\ moved.epoch = closed.epoch /\ moved.gen = closed.gen
      BY <1>2, <1>3
    <2> HIDE DEF moved
    <2>3. /\ Transitioned(b, r) \in WideBinding /\ Transitioned(b, r).state = "retired"
          /\ Transitioned(b, r).source = r.source
          /\ Transitioned(b, r).epoch = r.epoch /\ Transitioned(b, r).gen = r.gen
      BY <1>3, <2>1, <2>2 DEF moved
    <2> QED
      BY <1>4, <2>3 DEF KeyOf
  <1>5. CASE ~(RetiredBy(b, r) /\ closed.state # "retired")
    <2>1. Transitioned(b, r) = closed
      BY <1>1, <1>5
    <2> QED
      BY <1>3, <1>5, <2>1 DEF KeyOf
  <1> QED
    BY <1>4, <1>5

\* An upsert of a known binding finds it in service, of the same generation.
LEMMA UpsertedBinding ==
    ASSUME NEW b, NEW m, Advances(b), Verdict(b, m) = {},
           NEW id \in DOMAIN b.bindingUpserts
    PROVE  /\ KeyOf(b.bindingUpserts[id]) = Key(b)
           /\ b.bindingUpserts[id].state # "retired" /\ b.bindingUpserts[id].state # "fenced"
           /\ id \in DOMAIN bindings =>
                 /\ TransitionedBindings(b)[id].state = "current"
                 /\ KeyOf(TransitionedBindings(b)[id]) = Key(b)
  <1>1. KeyOf(b.bindingUpserts[id]) = Key(b)
    BY AcceptedIdentity DEF HeaderOwnershipErrors, Flag
  <1>2. b.bindingUpserts[id].state # "retired" /\ b.bindingUpserts[id].state # "fenced"
    BY AcceptedIdentity DEF PublisherTombstones, Flag
  <1>3. ASSUME id \in DOMAIN bindings
        PROVE  /\ TransitionedBindings(b)[id].state = "current"
               /\ KeyOf(TransitionedBindings(b)[id]) = KeyOf(b.bindingUpserts[id])
    <2>1. KnownBindingErrors(TransitionedBindings(b)[id], b.bindingUpserts[id]) = {}
      BY <1>3, AcceptedObjects DEF BindingErrors
    <2> QED
      BY <2>1 DEF KnownBindingErrors, Flag
  <1> QED
    BY <1>1, <1>2, <1>3

\* Bindings after the commit.  Each keeps its generation, and none returns to
\* service; one of another source is not written.
LEMMA BindingsAfter ==
    ASSUME TypeOK, Valid, NEW b \in Batch, NEW m, Advances(b), Verdict(b, m) = {}
    PROVE  /\ DOMAIN StagedBindings(b) = DOMAIN bindings \cup DOMAIN b.bindingUpserts
           /\ DOMAIN PostBindings(b) = DOMAIN StagedBindings(b)
           /\ \A id \in DOMAIN StagedBindings(b) :
                 /\ KeyOf(PostBindings(b)[id]) = KeyOf(StagedBindings(b)[id])
                 /\ PostBindings(b)[id].state = StagedBindings(b)[id].state
                 /\ PostBindings(b)[id].source = StagedBindings(b)[id].source
           /\ \A id \in DOMAIN bindings :
                 /\ KeyOf(StagedBindings(b)[id]) = KeyOf(bindings[id])
                 /\ StagedBindings(b)[id].source = bindings[id].source
                 /\ bindings[id].state # "current" => StagedBindings(b)[id].state # "current"
                 /\ bindings[id].state = "retired" => StagedBindings(b)[id].state = "retired"
                 /\ bindings[id].state = "current" =>
                       StagedBindings(b)[id].state = "current" \/ Touched(b, id)
                 /\ bindings[id].source # b.source =>
                       /\ ~Touched(b, id)
                       /\ StagedBindings(b)[id] = bindings[id]
                       /\ PostBindings(b)[id] = bindings[id]
           /\ Exact(bindings, PostBindings(b))
  <1>1. /\ IsMap(bindings, Binding, WideBinding)
        /\ IsMap(TransitionedBindings(b), Binding, WideBinding)
        /\ IsMap(StagedBindings(b), Binding, WideBinding)
    BY RecordsAreWide, WiderIsMap, StagedBindingsKind DEF TypeOK
  <1>2. /\ DOMAIN TransitionedBindings(b) = DOMAIN bindings
        /\ \A id \in DOMAIN bindings :
              TransitionedBindings(b)[id] = Transitioned(b, bindings[id])
    BY DEF TransitionedBindings
  <1>3. /\ DOMAIN StagedBindings(b) = DOMAIN bindings \cup DOMAIN b.bindingUpserts
        /\ \A id \in DOMAIN StagedBindings(b) :
              StagedBindings(b)[id] = IF id \in DOMAIN b.bindingUpserts THEN b.bindingUpserts[id]
                                      ELSE TransitionedBindings(b)[id]
    BY <1>2 DEF StagedBindings, With
  <1>4. \A id \in DOMAIN bindings : bindings[id] \in WideBinding /\ bindings[id].revision \in Nat
    BY <1>1 DEF IsMap, WideBinding, Count
  <1>5. \A id \in DOMAIN StagedBindings(b) : StagedBindings(b)[id] \in WideBinding
    BY <1>1 DEF IsMap
  <1>6. /\ DOMAIN PostBindings(b) = DOMAIN StagedBindings(b)
        /\ \A id \in DOMAIN StagedBindings(b) : \A f \in DOMAIN StagedBindings(b)[id] :
              f # "revision" => PostBindings(b)[id][f] = StagedBindings(b)[id][f]
        /\ \A id \in DOMAIN StagedBindings(b) \cap DOMAIN bindings :
              StagedBindings(b)[id] = bindings[id] => PostBindings(b)[id] = bindings[id]
        /\ Exact(bindings, PostBindings(b))
    BY <1>4, <1>5, NormalizedIsExact, KindsAreRecords DEF PostBindings
  <1>7. ASSUME NEW id \in DOMAIN StagedBindings(b)
        PROVE  /\ KeyOf(PostBindings(b)[id]) = KeyOf(StagedBindings(b)[id])
               /\ PostBindings(b)[id].state = StagedBindings(b)[id].state
               /\ PostBindings(b)[id].source = StagedBindings(b)[id].source
    BY <1>5, <1>6, KindsAreRecords DEF KeyOf
  <1>8. ASSUME NEW id \in DOMAIN bindings
        PROVE  /\ KeyOf(StagedBindings(b)[id]) = KeyOf(bindings[id])
               /\ StagedBindings(b)[id].source = bindings[id].source
               /\ bindings[id].state # "current" => StagedBindings(b)[id].state # "current"
               /\ bindings[id].state = "retired" => StagedBindings(b)[id].state = "retired"
               /\ bindings[id].state = "current" =>
                     StagedBindings(b)[id].state = "current" \/ Touched(b, id)
               /\ bindings[id].source # b.source =>
                     /\ ~Touched(b, id)
                     /\ StagedBindings(b)[id] = bindings[id]
                     /\ PostBindings(b)[id] = bindings[id]
    <2> DEFINE r == bindings[id]
               t == Transitioned(b, bindings[id])
    <2>1. r \in WideBinding /\ t = TransitionedBindings(b)[id]
      BY <1>2, <1>4
    <2>2. /\ t \in WideBinding /\ KeyOf(t) = KeyOf(r) /\ t.source = r.source
          /\ ~FencedBy(b, r) /\ ~RetiredBy(b, r) => t = r
          /\ FencedBy(b, r) \/ RetiredBy(b, r) => t.state # "current"
          /\ r.state # "current" => t.state # "current"
          /\ r.state = "retired" /\ ~FencedBy(b, r) => t.state = "retired"
      BY <2>1, TransitionOfBinding
    <2>3. Touched(b, id) <=> FencedBy(b, r) \/ RetiredBy(b, r)
      BY DEF Touched
    <2>4. r.state = "retired" => ~FencedBy(b, r)
      <3> SUFFICES ASSUME r.state = "retired", FencedBy(b, r) PROVE FALSE
        OBVIOUS
      <3>1. r.source = b.source /\ r.epoch = b.epoch
        BY FencesAreOwn
      <3>2. /\ <<b.source, b.epoch>> \in DOMAIN sources
            /\ sources[<<b.source, b.epoch>>].state = "retired"
        BY <3>1, ValidPaths
      <3>3. sources[<<b.source, b.epoch>>].state = "current"
        BY <3>2, AcceptedIdentity DEF EpochErrors, Flag
      <3> QED
        BY <3>2, <3>3
    <2>5. r.source # b.source => ~FencedBy(b, r) /\ ~RetiredBy(b, r)
      BY FencesAreOwn DEF RetiredBy, Retiring
    <2> HIDE DEF r, t
    <2>6. CASE id \in DOMAIN b.bindingUpserts
      <3>1. StagedBindings(b)[id] = b.bindingUpserts[id]
        BY <1>3, <2>6
      <3>2. /\ KeyOf(b.bindingUpserts[id]) = Key(b)
            /\ t.state = "current" /\ KeyOf(t) = Key(b)
        BY <2>1, <2>6, UpsertedBinding
      <3>3. r.source = b.source /\ b.bindingUpserts[id].source = b.source
        BY <2>2, <3>2 DEF KeyOf, Key
      <3>4. b.bindingUpserts[id].state = "current"
        BY <1>5, <2>6, <3>1, <1>3, UpsertedBinding DEF WideBinding
      <3> QED
        BY <2>2, <3>1, <3>2, <3>3, <3>4 DEF r
    <2>7. CASE id \notin DOMAIN b.bindingUpserts
      <3>1. StagedBindings(b)[id] = t
        BY <1>3, <2>1, <2>7
      <3> QED
        BY <1>3, <1>6, <2>2, <2>3, <2>4, <2>5, <3>1 DEF r
    <2> QED
      BY <2>6, <2>7
  <1> QED
    BY <1>3, <1>6, <1>7, <1>8

-----------------------------------------------------------------------------
(* Sources, links, services and capabilities: what a commit does to each. *)

\* Source epochs after the commit: those of another source are not written.
LEMMA SourcesAfter ==
    ASSUME TypeOK, NEW b \in Batch, NEW m, Advances(b), Verdict(b, m) = {}
    PROVE  /\ DOMAIN sources \subseteq DOMAIN PostSources(b)
           /\ \A k \in DOMAIN PostSources(b) :
                 k[1] # b.source => k \in DOMAIN sources /\ PostSources(b)[k] = sources[k]
           /\ Exact(sources, PostSources(b))
  <1> DEFINE put == With(sources, b.sourceUpserts)
  <1>1. IsMap(put, SourceKey, WideSource) /\ IsMap(sources, SourceKey, WideSource)
    BY WithIsMap, BatchMaps, RecordsAreWide, WiderIsMap DEF TypeOK
  <1>2. /\ DOMAIN put = DOMAIN sources \cup DOMAIN b.sourceUpserts
        /\ \A k \in DOMAIN put : put[k] = IF k \in DOMAIN b.sourceUpserts THEN b.sourceUpserts[k]
                                                                          ELSE sources[k]
    BY DEF With
  <1> HIDE DEF put
  <1>3. /\ DOMAIN StagedSources(b) = DOMAIN put
        /\ \A k \in DOMAIN put : StagedSources(b)[k] =
              IF Retiring(b, k) THEN Bumped([put[k] EXCEPT !.state = "retired"]) ELSE put[k]
    BY DEF StagedSources, put
  <1>4. \A k \in DOMAIN put : StagedSources(b)[k] \in WideSource
    BY <1>1, <1>3, BumpedIsWide, SteppedIsWide DEF IsMap
  <1>5. \A k \in DOMAIN sources : sources[k] \in WideSource /\ sources[k].revision \in Nat
    BY <1>1 DEF IsMap, WideSource, Count
  <1>6. /\ DOMAIN PostSources(b) = DOMAIN StagedSources(b)
        /\ \A k \in DOMAIN StagedSources(b) \cap DOMAIN sources :
              StagedSources(b)[k] = sources[k] => PostSources(b)[k] = sources[k]
        /\ Exact(sources, PostSources(b))
    BY <1>3, <1>4, <1>5, NormalizedIsExact, KindsAreRecords DEF PostSources
  <1>7. ASSUME NEW k \in DOMAIN put, k[1] # b.source
        PROVE  k \in DOMAIN sources /\ StagedSources(b)[k] = sources[k]
    <2>1. k \notin DOMAIN b.sourceUpserts
      BY <1>7, AcceptedIdentity DEF HeaderOwnershipErrors, Flag
    <2> QED
      BY <1>2, <1>3, <1>7, <2>1 DEF Retiring
  <1> QED
    BY <1>2, <1>3, <1>6, <1>7

\* A withdrawn service or capability stays what it is in everything else.
LEMMA WithdrawnObject ==
    ASSUME NEW o \in WideService \cup WideCapability
    PROVE  /\ Withdrawn(o) \in WideService \cup WideCapability
           /\ Withdrawn(o).availability = "withdrawn"
           /\ o.availability = "withdrawn" => Withdrawn(o) = o
  <1>1. CASE o.availability = "withdrawn"
    BY <1>1 DEF Withdrawn
  <1>2. CASE o.availability # "withdrawn"
    <2>1. Withdrawn(o) = Bumped([o EXCEPT !.availability = "withdrawn"])
      BY <1>2 DEF Withdrawn
    <2> DEFINE w == [o EXCEPT !.availability = "withdrawn"]
    <2>2. w \in WideService \cup WideCapability
      BY SteppedIsWide
    <2>3. w.availability = "withdrawn"
      BY DEF WideService, WideCapability
    <2> HIDE DEF w
    <2>4. /\ Bumped(w) \in WideService \cup WideCapability
          /\ Bumped(w).availability = w.availability
      BY <2>2, BumpedIsWide DEF Bumped, WideService, WideCapability
    <2> QED
      BY <1>2, <2>1, <2>3, <2>4 DEF w
  <1> QED
    BY <1>1, <1>2

\* Services and capabilities alike: if an accepted batch upserts no withdrawn
\* object and names none of another source, then withdrawn objects stay
\* withdrawn and those of other sources are not written.
LEMMA ObjectsAfter ==
    ASSUME TypeOK, Valid, NEW b \in Batch, NEW m, Advances(b), Verdict(b, m) = {},
           NEW objects, NEW upserts, NEW withdrawals,
           \A id \in DOMAIN objects : objects[id] \in WideService \cup WideCapability,
           \A id \in DOMAIN upserts : upserts[id] \in WideService \cup WideCapability,
           \A id \in DOMAIN upserts \cap DOMAIN objects : objects[id].availability # "withdrawn",
           \A id \in (DOMAIN upserts \cup withdrawals) \cap DOMAIN objects :
              ~ForeignBinding(b, objects[id].binding)
    PROVE  LET staged == StagedObjects(b, objects, upserts, withdrawals)
               new    == Normalized(objects, staged)
           IN  /\ DOMAIN objects \subseteq DOMAIN new
               /\ \A id \in DOMAIN objects :
                     /\ objects[id].availability = "withdrawn" => new[id].availability = "withdrawn"
                     /\ ForeignBinding(b, objects[id].binding) => new[id] = objects[id]
               /\ Exact(objects, new)
  <1> DEFINE moved  == [id \in DOMAIN objects |->
                          IF Touched(b, objects[id].binding) THEN Withdrawn(objects[id])
                                                             ELSE objects[id]]
             put    == With(moved, upserts)
             staged == StagedObjects(b, objects, upserts, withdrawals)
             new    == Normalized(objects, staged)
  <1>1. /\ DOMAIN moved = DOMAIN objects
        /\ \A id \in DOMAIN objects :
              moved[id] = IF Touched(b, objects[id].binding) THEN Withdrawn(objects[id])
                                                             ELSE objects[id]
    OBVIOUS
  <1>2. staged = [id \in DOMAIN put |->
                    IF id \in withdrawals \cap DOMAIN objects THEN Withdrawn(put[id]) ELSE put[id]]
    BY DEF StagedObjects
  <1> HIDE DEF moved
  <1>3. /\ DOMAIN put = DOMAIN objects \cup DOMAIN upserts
        /\ \A id \in DOMAIN put : put[id] = IF id \in DOMAIN upserts THEN upserts[id] ELSE moved[id]
    BY <1>1 DEF With
  <1> HIDE DEF put
  <1>4. /\ DOMAIN staged = DOMAIN put
        /\ \A id \in DOMAIN put : staged[id] =
              IF id \in withdrawals \cap DOMAIN objects THEN Withdrawn(put[id]) ELSE put[id]
    BY <1>2
  <1> HIDE DEF staged
  <1>5. \A id \in DOMAIN objects : moved[id] \in WideService \cup WideCapability
    BY <1>1, WithdrawnObject
  <1>6. \A id \in DOMAIN put : put[id] \in WideService \cup WideCapability
    BY <1>3, <1>5
  <1>7. \A id \in DOMAIN put : staged[id] \in WideService \cup WideCapability
    BY <1>4, <1>6, WithdrawnObject
  <1>8. \A o \in WideService \cup WideCapability :
           IsRecord(o) /\ o.revision \in Nat /\ "availability" \in DOMAIN o
    BY KindsAreRecords DEF WideService, WideCapability, Count
  <1>9. /\ DOMAIN new = DOMAIN staged
        /\ \A id \in DOMAIN staged : \A f \in DOMAIN staged[id] :
              f # "revision" => new[id][f] = staged[id][f]
        /\ \A id \in DOMAIN staged \cap DOMAIN objects :
              staged[id] = objects[id] => new[id] = objects[id]
        /\ Exact(objects, new)
    BY <1>4, <1>7, <1>8, NormalizedIsExact
  <1> HIDE DEF new
  <1>10. ASSUME NEW id \in DOMAIN objects, objects[id].availability = "withdrawn"
         PROVE  new[id].availability = "withdrawn"
    <2>1. id \notin DOMAIN upserts
      BY <1>10
    <2>2. put[id] = moved[id] /\ moved[id] = objects[id]
      BY <1>1, <1>3, <1>10, <2>1, WithdrawnObject
    <2>3. staged[id] = objects[id]
      BY <1>3, <1>4, <1>10, <2>2, WithdrawnObject
    <2> QED
      BY <1>3, <1>4, <1>9, <1>10, <2>3
  <1>11. ASSUME NEW id \in DOMAIN objects, ForeignBinding(b, objects[id].binding)
         PROVE  new[id] = objects[id]
    <2>1. id \notin DOMAIN upserts /\ id \notin withdrawals
      BY <1>11
    <2>2. ~Touched(b, objects[id].binding)
      BY <1>11, BindingsAfter DEF ForeignBinding
    <2>3. staged[id] = objects[id]
      BY <1>1, <1>3, <1>4, <2>1, <2>2
    <2> QED
      BY <1>3, <1>4, <1>9, <2>3
  <1> QED
    BY <1>3, <1>4, <1>9, <1>10, <1>11 DEF new, staged

\* The services of the snapshot after the commit.
LEMMA ServicesAfter ==
    ASSUME TypeOK, Valid, NEW b \in Batch, NEW m, Advances(b), Verdict(b, m) = {}
    PROVE  /\ DOMAIN services \subseteq DOMAIN PostServices(b)
           /\ \A id \in DOMAIN services :
                 /\ services[id].availability = "withdrawn" =>
                       PostServices(b)[id].availability = "withdrawn"
                 /\ ForeignBinding(b, services[id].binding) => PostServices(b)[id] = services[id]
           /\ Exact(services, PostServices(b))
  <1>1. /\ \A id \in DOMAIN services : services[id] \in WideService
        /\ \A id \in DOMAIN b.serviceUpserts : b.serviceUpserts[id] \in WideService
    BY BatchMaps, RecordsAreWide DEF TypeOK, IsMap
  <1>2. ASSUME NEW id \in DOMAIN b.serviceUpserts \cap DOMAIN services
        PROVE  services[id].availability # "withdrawn"
    <2>1. ServiceUpsertErrors(b, id) = {}
      BY AcceptedObjects DEF ServiceErrors
    <2>2. PriorObjectErrors(b, services[id], b.serviceUpserts[id]) = {}
      BY <2>1 DEF ServiceUpsertErrors
    <2> QED
      BY <2>2 DEF PriorObjectErrors, Flag
  <1>3. ~ForeignObjects(b, services, b.serviceUpserts, b.serviceWithdrawals)
    BY AcceptedObjects DEF RetainedOwnershipErrors, Flag
  <1>4. \A id \in (DOMAIN b.serviceUpserts \cup b.serviceWithdrawals) \cap DOMAIN services :
           ~ForeignBinding(b, services[id].binding)
    BY <1>3 DEF ForeignObjects
  <1> QED
    BY <1>1, <1>2, <1>4, ObjectsAfter DEF PostServices, StagedServices

\* The capabilities of the snapshot after the commit.
LEMMA CapabilitiesAfter ==
    ASSUME TypeOK, Valid, NEW b \in Batch, NEW m, Advances(b), Verdict(b, m) = {}
    PROVE  /\ DOMAIN capabilities \subseteq DOMAIN PostCapabilities(b)
           /\ \A id \in DOMAIN capabilities :
                 /\ capabilities[id].availability = "withdrawn" =>
                       PostCapabilities(b)[id].availability = "withdrawn"
                 /\ ForeignBinding(b, capabilities[id].binding) =>
                       PostCapabilities(b)[id] = capabilities[id]
           /\ Exact(capabilities, PostCapabilities(b))
  <1>1. /\ \A id \in DOMAIN capabilities : capabilities[id] \in WideCapability
        /\ \A id \in DOMAIN b.capabilityUpserts : b.capabilityUpserts[id] \in WideCapability
    BY BatchMaps, RecordsAreWide DEF TypeOK, IsMap
  <1>2. ASSUME NEW id \in DOMAIN b.capabilityUpserts \cap DOMAIN capabilities
        PROVE  capabilities[id].availability # "withdrawn"
    <2>1. CapabilityUpsertErrors(b, id) = {}
      BY AcceptedObjects DEF CapabilityErrors
    <2>2. PriorObjectErrors(b, capabilities[id], b.capabilityUpserts[id]) = {}
      BY <2>1 DEF CapabilityUpsertErrors
    <2> QED
      BY <2>2 DEF PriorObjectErrors, Flag
  <1>3. ~ForeignObjects(b, capabilities, b.capabilityUpserts, b.capabilityWithdrawals)
    BY AcceptedObjects DEF RetainedOwnershipErrors, Flag
  <1>4. \A id \in (DOMAIN b.capabilityUpserts \cup b.capabilityWithdrawals) \cap DOMAIN capabilities :
           ~ForeignBinding(b, capabilities[id].binding)
    BY <1>3 DEF ForeignObjects
  <1> QED
    BY <1>1, <1>2, <1>4, ObjectsAfter DEF PostCapabilities, StagedCapabilities

\* Identity links after the commit: a withdrawn one stays withdrawn, and one of
\* another source's binding is not written.
LEMMA LinksAfter ==
    ASSUME TypeOK, Valid, NEW b \in Batch, NEW m, Advances(b), Verdict(b, m) = {}
    PROVE  /\ DOMAIN links \subseteq DOMAIN PostLinks(b)
           /\ \A id \in DOMAIN links :
                 /\ links[id].state = "withdrawn" => PostLinks(b)[id].state = "withdrawn"
                 /\ ForeignBinding(b, id) => PostLinks(b)[id] = links[id]
           /\ Exact(links, PostLinks(b))
  <1> DEFINE staged == With(TransitionedLinks(b), b.linkUpserts)
  <1>1. IsMap(links, Binding, WideLink) /\ IsMap(b.linkUpserts, Binding, WideLink)
    BY RecordsAreWide, WiderIsMap, BatchMaps DEF TypeOK
  <1>2. ASSUME NEW l \in WideLink, NEW evidence \in SUBSET Evidence
        PROVE  /\ WithdrawnLink(l, evidence) \in WideLink
               /\ WithdrawnLink(l, evidence).state = "withdrawn"
    <2> DEFINE w == [l EXCEPT !.state = "withdrawn", !.basis = @ \cup evidence]
    <2>1. w \in WideLink /\ w.state = "withdrawn"
      <3>1. [l EXCEPT !.state = "withdrawn"] \in WideLink
        BY DEF WideLink
      <3> QED
        BY <3>1 DEF WideLink
    <2> HIDE DEF w
    <2>2. Bumped(w) \in WideLink /\ Bumped(w).state = "withdrawn"
      BY <2>1, BumpedIsWide DEF Bumped, WideLink
    <2> QED
      BY <2>2 DEF WithdrawnLink, w
  <1>3. ASSUME NEW id \in DOMAIN bindings
        PROVE  FenceEvidence(b, id) \in SUBSET Evidence
    BY BatchMaps DEF FenceEvidence, FencedBy, FencedKeys, IsMap
  <1>4. /\ DOMAIN TransitionedLinks(b) = DOMAIN links
        /\ \A id \in DOMAIN links : TransitionedLinks(b)[id] =
              IF Touched(b, id) THEN WithdrawnLink(links[id], FenceEvidence(b, id)) ELSE links[id]
    BY DEF TransitionedLinks
  <1>5. \A id \in DOMAIN links :
           /\ TransitionedLinks(b)[id] \in WideLink
           /\ links[id].state = "withdrawn" => TransitionedLinks(b)[id].state = "withdrawn"
    BY <1>1, <1>2, <1>3, <1>4 DEF Touched, IsMap
  <1>6. /\ DOMAIN staged = DOMAIN links \cup DOMAIN b.linkUpserts
        /\ \A id \in DOMAIN staged : staged[id] = IF id \in DOMAIN b.linkUpserts THEN b.linkUpserts[id]
                                                  ELSE TransitionedLinks(b)[id]
    BY <1>4 DEF With
  <1> HIDE DEF staged
  <1>7. \A id \in DOMAIN staged : staged[id] \in WideLink
    BY <1>1, <1>5, <1>6 DEF IsMap
  <1>8. \A id \in DOMAIN links : links[id] \in WideLink /\ links[id].revision \in Nat
    BY <1>1 DEF IsMap, WideLink, Count
  <1>9. /\ DOMAIN PostLinks(b) = DOMAIN staged
        /\ \A id \in DOMAIN staged : \A f \in DOMAIN staged[id] :
              f # "revision" => PostLinks(b)[id][f] = staged[id][f]
        /\ \A id \in DOMAIN staged \cap DOMAIN links :
              staged[id] = links[id] => PostLinks(b)[id] = links[id]
        /\ Exact(links, PostLinks(b))
    BY <1>7, <1>8, NormalizedIsExact, KindsAreRecords DEF PostLinks, staged
  <1>10. ASSUME NEW id \in DOMAIN links, links[id].state = "withdrawn"
         PROVE  PostLinks(b)[id].state = "withdrawn"
    <2>1. id \notin DOMAIN b.linkUpserts
      <3> SUFFICES ASSUME id \in DOMAIN b.linkUpserts PROVE FALSE
        OBVIOUS
      <3>1. LinkUpsertErrors(b, id) = {}
        BY AcceptedObjects DEF LinkErrors
      <3>2. id \in DOMAIN StagedBindings(b) /\ id \in DOMAIN TransitionedLinks(b)
        BY <1>4, <3>1 DEF LinkUpsertErrors
      <3>3. TransitionedLinks(b)[id].state # "withdrawn"
        BY <3>1, <3>2 DEF LinkUpsertErrors, Flag
      <3> QED
        BY <1>5, <1>10, <3>3
    <2>2. staged[id].state = "withdrawn" /\ staged[id] \in WideLink
      BY <1>5, <1>6, <1>7, <1>10, <2>1
    <2> QED
      BY <1>6, <1>9, <2>2, KindsAreRecords
  <1>11. ASSUME NEW id \in DOMAIN links, ForeignBinding(b, id)
         PROVE  PostLinks(b)[id] = links[id]
    <2>1. id \notin DOMAIN b.linkUpserts
      BY <1>11, AcceptedObjects DEF RetainedOwnershipErrors, Flag
    <2>2. ~Touched(b, id)
      BY <1>11, BindingsAfter DEF ForeignBinding
    <2> QED
      BY <1>4, <1>6, <1>9, <2>1, <2>2
  <1> QED
    BY <1>6, <1>9, <1>10, <1>11

\* Fences after the commit: all that were there, as they were, and those of the
\* batch, which are of its own source.
LEMMA FencesAfter ==
    ASSUME NEW b, NEW m, Advances(b), Verdict(b, m) = {}
    PROVE  /\ \A k \in DOMAIN fences : k \in DOMAIN PostFences(b) /\ PostFences(b)[k] = fences[k]
           /\ \A k \in DOMAIN PostFences(b) : k[1] = b.source \/ k \in DOMAIN fences
  <1> DEFINE own == [k \in FencedKeys(b) |-> b.fences[k]]
  <1>1. PostFences(b) = With(fences, own) /\ DOMAIN own = FencedKeys(b)
    BY DEF PostFences
  <1> HIDE DEF own
  <1>2. \A k \in FencedKeys(b) : k \notin DOMAIN fences
    BY AcceptedIdentity DEF FenceErrors, Flag
  <1>3. \A k \in FencedKeys(b) : k[1] = b.source
    BY AcceptedIdentity DEF FencedKeys, HeaderOwnershipErrors, Flag
  <1> QED
    BY <1>1, <1>2, <1>3 DEF With

\* Cursors after the commit: the publisher's own moves forward, no other moves,
\* and a fenced one is not written at all.
LEMMA CursorsAfter ==
    ASSUME TypeOK, NEW b \in Batch, NEW m, Advances(b), Verdict(b, m) = {}
    PROVE  /\ DOMAIN PostCursors(b) = DOMAIN cursors \cup {Key(b)}
           /\ Key(b) \in DOMAIN cursors =>
                 /\ ~cursors[Key(b)].fenced
                 /\ PostCursors(b)[Key(b)].seq > cursors[Key(b)].seq
                 /\ PostCursors(b)[Key(b)].seq # cursors[Key(b)].seq
           /\ \A k \in DOMAIN cursors \ {Key(b)} :
                 /\ PostCursors(b)[k].seq = cursors[k].seq
                 /\ k[1] # b.source => PostCursors(b)[k] = cursors[k]
           /\ \A k \in DOMAIN cursors : cursors[k].fenced => PostCursors(b)[k] = cursors[k]
  <1> DEFINE fenced == [k \in DOMAIN cursors |->
                          IF k \in FencedKeys(b) THEN [cursors[k] EXCEPT !.fenced = TRUE]
                                                 ELSE cursors[k]]
             mine   == [k \in {Key(b)} |->
                          [seq |-> b.seq, digest |-> b.digest, fenced |-> k \in DOMAIN b.fences]]
  <1>1. PostCursors(b) = With(fenced, mine)
    BY DEF PostCursors
  <1>2. /\ DOMAIN fenced = DOMAIN cursors /\ DOMAIN mine = {Key(b)}
        /\ mine[Key(b)].seq = b.seq
    OBVIOUS
  <1>3. \A k \in DOMAIN cursors :
           /\ fenced[k].seq = cursors[k].seq
           /\ k \notin FencedKeys(b) => fenced[k] = cursors[k]
    BY DEF TypeOK, IsMap, CursorRecord
  <1> HIDE DEF fenced, mine
  <1>4. Key(b) \in DOMAIN cursors => ~cursors[Key(b)].fenced /\ b.seq > cursors[Key(b)].seq
    BY AcceptedIdentity DEF OrderErrors, KnownCursor, Flag, Advances
  <1>10. b.seq \in Nat /\ \A k \in DOMAIN cursors : cursors[k].seq \in Nat
    BY MaxUint64Assumption DEF TypeOK, IsMap, CursorRecord, Batch, Revision
  <1>5. \A k \in FencedKeys(b) : ~cursors[k].fenced
    BY AcceptedIdentity DEF FenceErrors, Flag
  <1>6. \A k \in FencedKeys(b) : k[1] = b.source
    BY AcceptedIdentity DEF FencedKeys, HeaderOwnershipErrors, Flag
  <1>7. \A k \in DOMAIN cursors : k # Key(b) => PostCursors(b)[k] = fenced[k]
    BY <1>1, <1>2 DEF With
  <1>8. PostCursors(b)[Key(b)] = mine[Key(b)] /\ DOMAIN PostCursors(b) = DOMAIN cursors \cup {Key(b)}
    BY <1>1, <1>2 DEF With
  <1>9. Key(b) \in DOMAIN cursors => b.seq # cursors[Key(b)].seq
    BY <1>4, <1>10
  <1> QED
    BY <1>2, <1>3, <1>4, <1>5, <1>6, <1>7, <1>8, <1>9

\* Candidates after the commit: each is the old one or the batch's, and if they
\* differ, the batch's is the next revision.
LEMMA CandidatesAfter ==
    ASSUME TypeOK, NEW b \in Batch, NEW m, Advances(b), Verdict(b, m) = {}
    PROVE  /\ \A id \in DOMAIN PostCandidates(b) :
                 /\ id \notin b.factWithdrawals
                 /\ PostCandidates(b)[id] = IF id \in DOMAIN b.factUpserts THEN b.factUpserts[id]
                                                                           ELSE candidates[id]
           /\ Exact(candidates, PostCandidates(b))
           /\ \A id \in DOMAIN candidates \cap DOMAIN PostCandidates(b) :
                 PostCandidates(b)[id].revision = candidates[id].revision =>
                    PostCandidates(b)[id] = candidates[id]
  <1>1. /\ DOMAIN With(candidates, b.factUpserts) = DOMAIN candidates \cup DOMAIN b.factUpserts
        /\ \A id \in DOMAIN With(candidates, b.factUpserts) :
              With(candidates, b.factUpserts)[id] =
                 IF id \in DOMAIN b.factUpserts THEN b.factUpserts[id] ELSE candidates[id]
    BY DEF With
  <1>2. /\ DOMAIN StagedCandidates(b) = (DOMAIN candidates \cup DOMAIN b.factUpserts) \ b.factWithdrawals
        /\ \A id \in DOMAIN StagedCandidates(b) :
              StagedCandidates(b)[id] =
                 IF id \in DOMAIN b.factUpserts THEN b.factUpserts[id] ELSE candidates[id]
    BY <1>1 DEF StagedCandidates, Without
  <1>3. /\ DOMAIN PostCandidates(b) \subseteq DOMAIN StagedCandidates(b)
        /\ \A id \in DOMAIN PostCandidates(b) : PostCandidates(b)[id] = StagedCandidates(b)[id]
    BY DEF PostCandidates, Closed
  <1>4. \A id \in DOMAIN candidates : candidates[id].revision \in Nat
    BY MaxUint64Assumption
       DEF TypeOK, IsMap, CandidateRecord, ObservedRecord, InferredRecord, Revision
  <1>5. ASSUME NEW id \in DOMAIN candidates \cap DOMAIN PostCandidates(b)
        PROVE  \/ PostCandidates(b)[id] = candidates[id]
               \/ /\ ~SameContent(candidates[id], PostCandidates(b)[id])
                  /\ PostCandidates(b)[id].revision = candidates[id].revision + 1
    <2>1. CASE id \in DOMAIN b.factUpserts
      <3>1. KnownFactErrors(b, id) = {}
        <4>1. FactUpsertErrors(b) = {}
          BY AcceptedObjects
        <4>2. UNION {KnownFactErrors(b, d) : d \in DOMAIN b.factUpserts \cap DOMAIN candidates} = {}
          BY <4>1 DEF FactUpsertErrors
        <4> QED
          BY <2>1, <4>2
      <3>2. UpsertErrors(candidates[id], b.factUpserts[id]) = {}
        BY <3>1 DEF KnownFactErrors
      <3>3. \/ b.factUpserts[id] = candidates[id]
            \/ /\ ~SameContent(candidates[id], b.factUpserts[id])
               /\ b.factUpserts[id].revision = candidates[id].revision + 1
        BY <3>2 DEF UpsertErrors, Flag
      <3> QED
        BY <1>2, <1>3, <2>1, <3>3
    <2>2. CASE id \notin DOMAIN b.factUpserts
      BY <1>2, <1>3, <2>2
    <2> QED
      BY <2>1, <2>2
  <1>6. Exact(candidates, PostCandidates(b))
    <2> SUFFICES ASSUME NEW id \in DOMAIN candidates \cap DOMAIN PostCandidates(b)
                 PROVE  PostCandidates(b)[id].revision = candidates[id].revision
                           + (IF SameContent(candidates[id], PostCandidates(b)[id]) THEN 0 ELSE 1)
      BY DEF Exact
    <2>1. SameContent(candidates[id], candidates[id])
      BY DEF SameContent
    <2> QED
      BY <1>4, <1>5, <2>1
  <1> QED
    BY <1>2, <1>3, <1>4, <1>5, <1>6

-----------------------------------------------------------------------------
(* Every snapshot passes its own validation. *)

\* What holds in every state of the kernel, whatever batches it was sent.
KernelInv == TypeOK /\ Valid

\* ... and so is its snapshot, by its own validation.
LEMMA InitIsValid == Init => Valid
  <1> SUFFICES ASSUME Init PROVE Valid
    OBVIOUS
  <1>1. /\ DOMAIN sources = {} /\ DOMAIN fences = {} /\ DOMAIN cursors = {}
        /\ DOMAIN bindings = {} /\ DOMAIN links = {} /\ DOMAIN services = {}
        /\ DOMAIN capabilities = {} /\ DOMAIN candidates = {} /\ DOMAIN retained = {}
    BY DEF Init
  <1>2. LifecycleErrors(sources, fences, cursors, bindings, links, services, capabilities) = {}
    BY <1>1 DEF LifecycleErrors, Flag
  <1>3. HistoryErrors(sources, fences, bindings, retained) = {}
    BY <1>1 DEF HistoryErrors, Flag
  <1>4. CloseErrors(candidates, DOMAIN candidates, bindings) = {}
    <2>1. Cardinality({}) = 0
      BY FS_EmptySet
    <2>2. DOMAIN Closed(candidates, DOMAIN candidates, bindings) = {}
      BY <1>1 DEF Closed
    <2>3. ~(0 > 2 * MaxNodes) /\ ~(0 > MaxNodes)
      BY GraphAssumption
    <2> QED
      BY <1>1, <2>1, <2>2, <2>3 DEF CloseErrors, Flag
  <1> QED
    BY <1>2, <1>3, <1>4 DEF Valid, SnapshotErrors

\* The snapshot the kernel holds is one Snapshot.Validate accepts.
LEMMA KernelInvHolds == Spec => []KernelInv
  <1>1. Init => Valid
    BY InitIsValid
  <1>2. Valid /\ [Next]_vars => Valid'
    <2> SUFFICES ASSUME Valid, [Next]_vars PROVE Valid'
      OBVIOUS
    <2>1. UNCHANGED vars => Valid'
      BY DEF vars, Valid
    <2>2. ASSUME NEW b \in Batch, NEW m \in MonotonicPoint, Apply(b, m) PROVE Valid'
      BY <2>1, <2>2, CommitIsValid DEF Apply, Replay, Reject
    <2> QED
      BY <2>1, <2>2 DEF Next
  <1> QED
    BY <1>1, <1>2, TypeCorrect, PTL DEF Spec, KernelInv

\* A step of the kernel is one accepted batch or leaves everything as it is.
LEMMA StepIsCommit ==
    ASSUME [Next]_vars
    PROVE  UNCHANGED vars \/ \E b \in Batch, m \in MonotonicPoint : Commit(b, m)
  BY DEF Next, Apply, Replay, Reject

-----------------------------------------------------------------------------
(* Nothing comes back. *)

\* A commit leaves every tombstone in place.
LEMMA CommitKeepsTombstones ==
    ASSUME KernelInv, NEW b \in Batch, NEW m, Commit(b, m)
    PROVE  TombstonesStay
  <1>1. TypeOK /\ Valid /\ Advances(b) /\ Verdict(b, m) = {}
    BY DEF KernelInv, Commit
  <1>2. /\ sources' = PostSources(b) /\ bindings' = PostBindings(b) /\ links' = PostLinks(b)
        /\ services' = PostServices(b) /\ capabilities' = PostCapabilities(b)
        /\ fences' = PostFences(b) /\ cursors' = PostCursors(b)
    BY DEF Commit
  <1>3. \A k \in DOMAIN sources :
           /\ k \in DOMAIN sources'
           /\ sources[k].state = "retired" => sources'[k].state = "retired"
    BY <1>1, <1>2, SourceStates
  <1>4. \A id \in DOMAIN bindings :
           /\ id \in DOMAIN bindings'
           /\ KeyOf(bindings'[id]) = KeyOf(bindings[id])
           /\ bindings[id].state = "fenced" => bindings'[id].state # "current"
           /\ bindings[id].state = "retired" => bindings'[id].state = "retired"
    BY <1>1, <1>2, BindingsAfter
  <1>5. \A id \in DOMAIN links :
           id \in DOMAIN links' /\ (links[id].state = "withdrawn" => links'[id].state = "withdrawn")
    BY <1>1, <1>2, LinksAfter
  <1>6. \A id \in DOMAIN services :
           /\ id \in DOMAIN services'
           /\ services[id].availability = "withdrawn" => services'[id].availability = "withdrawn"
    BY <1>1, <1>2, ServicesAfter
  <1>7. \A id \in DOMAIN capabilities :
           /\ id \in DOMAIN capabilities'
           /\ capabilities[id].availability = "withdrawn" =>
                 capabilities'[id].availability = "withdrawn"
    BY <1>1, <1>2, CapabilitiesAfter
  <1>8. \A k \in DOMAIN fences : k \in DOMAIN fences' /\ fences'[k] = fences[k]
    BY <1>1, <1>2, FencesAfter
  <1>9. \A k \in DOMAIN cursors :
           k \in DOMAIN cursors' /\ (cursors[k].fenced => cursors'[k] = cursors[k])
    BY <1>1, <1>2, CursorsAfter
  <1> QED
    BY <1>3, <1>4, <1>5, <1>6, <1>7, <1>8, <1>9 DEF TombstonesStay

\* The one cursor a commit moves is the publisher's.
LEMMA CommitMoves ==
    ASSUME TypeOK, NEW b \in Batch, NEW m, Commit(b, m)
    PROVE  Moved = {Key(b)}
  <1>1. cursors' = PostCursors(b) /\ Advances(b) /\ Verdict(b, m) = {}
    BY DEF Commit
  <1>2. DOMAIN cursors' = DOMAIN cursors \cup {Key(b)}
    BY <1>1, CursorsAfter
  <1>3. Key(b) \in DOMAIN cursors => cursors'[Key(b)].seq # cursors[Key(b)].seq
    BY <1>1, CursorsAfter
  <1>4. \A k \in DOMAIN cursors \ {Key(b)} : cursors'[k].seq = cursors[k].seq
    BY <1>1, CursorsAfter
  <1> QED
    BY <1>2, <1>3, <1>4 DEF Moved

\* ... forward, and it is neither fenced nor of a retired epoch.
LEMMA CommitMovesOneCursor ==
    ASSUME KernelInv, NEW b \in Batch, NEW m, Commit(b, m)
    PROVE  CursorsMove
  <1>1. TypeOK /\ Advances(b) /\ Verdict(b, m) = {}
    BY DEF KernelInv, Commit
  <1>2. /\ revisions' = PostRevisions(b, m) /\ cursors' = PostCursors(b)
        /\ replays' = With(replays, [j \in {Key(b)} |-> PostRevisions(b, m).semantic])
    BY DEF Commit
  <1>3. revisions'.semantic = revisions.semantic + 1
    BY <1>1, <1>2, PostRevisionsKind, AcceptedObjects
  <1>4. Key(b) \in DOMAIN cursors'
    BY <1>1, <1>2, CursorsAfter
  <1>5. Moved = {Key(b)}
    BY <1>1, CommitMoves
  <1>6. replays' = With(replays, [j \in {Key(b)} |-> revisions'.semantic])
    BY <1>2
  <1>7. Key(b) \in DOMAIN cursors =>
           cursors'[Key(b)].seq > cursors[Key(b)].seq /\ ~cursors[Key(b)].fenced
    BY <1>1, <1>2, CursorsAfter
  <1>8. <<Key(b)[1], Key(b)[2]>> \in DOMAIN sources =>
           sources[<<Key(b)[1], Key(b)[2]>>].state = "current"
    <2>1. <<Key(b)[1], Key(b)[2]>> = <<b.source, b.epoch>>
      BY DEF Key
    <2> QED
      BY <1>1, <2>1, AcceptedIdentity DEF EpochErrors, Flag
  <1> QED
    BY <1>3, <1>4, <1>5, <1>6, <1>7, <1>8 DEF CursorsMove

\* Whatever batches arrive in whatever order, no retired epoch, fenced
\* generation, tombstoned binding or withdrawn object comes back, and no
\* sequence number is accepted twice.
THEOREM NothingEverComesBack == Spec => NothingComesBack
  <1>1. KernelInv /\ [Next]_vars => [TombstonesStay /\ CursorsMove]_vars
    BY StepIsCommit, CommitKeepsTombstones, CommitMovesOneCursor
  <1> QED
    BY <1>1, KernelInvHolds, PTL DEF Spec, NothingComesBack

-----------------------------------------------------------------------------
(* Revisions count changes, and inferences pin them. *)

\* However transitions and upserts meet in one batch, a surviving object moves
\* one revision if it changed and none if it did not.
THEOREM RevisionsMoveExactly == Spec => RevisionsAreExact
  <1> DEFINE Moves == /\ Exact(sources, sources') /\ Exact(bindings, bindings')
                      /\ Exact(links, links') /\ Exact(services, services')
                      /\ Exact(capabilities, capabilities') /\ Exact(candidates, candidates')
  <1>1. ASSUME KernelInv, NEW b \in Batch, NEW m, Commit(b, m) PROVE Moves
    <2>1. TypeOK /\ Valid /\ Advances(b) /\ Verdict(b, m) = {}
      BY <1>1 DEF KernelInv, Commit
    <2>2. /\ sources' = PostSources(b) /\ bindings' = PostBindings(b) /\ links' = PostLinks(b)
          /\ services' = PostServices(b) /\ capabilities' = PostCapabilities(b)
          /\ candidates' = PostCandidates(b)
      BY <1>1 DEF Commit
    <2>3. Exact(sources, sources')
      BY <2>1, <2>2, SourcesAfter
    <2>4. Exact(bindings, bindings')
      BY <2>1, <2>2, BindingsAfter
    <2>5. Exact(links, links')
      BY <2>1, <2>2, LinksAfter
    <2>6. Exact(services, services')
      BY <2>1, <2>2, ServicesAfter
    <2>7. Exact(capabilities, capabilities')
      BY <2>1, <2>2, CapabilitiesAfter
    <2>8. Exact(candidates, candidates')
      BY <2>1, <2>2, CandidatesAfter
    <2> QED
      BY <2>3, <2>4, <2>5, <2>6, <2>7, <2>8
  <1> HIDE DEF Moves
  <1>2. KernelInv /\ [Next]_vars => [Moves]_vars
    BY <1>1, StepIsCommit
  <1>3. Spec => [][Moves]_vars
    BY <1>2, KernelInvHolds, PTL DEF Spec
  <1> QED
    BY <1>3, PTL DEF Moves, RevisionsAreExact

\* An inferred fact that survives a commit stands on the very records it was
\* computed from: both snapshots hold its inputs at the revision it pins, and a
\* commit never gives that revision to another record.
THEOREM InferencesStandStill == Spec => InferencesRestOnWhatTheySaw
  <1> DEFINE Pinned == \A id \in DOMAIN candidates :
                          ~Observed(candidates[id]) =>
                             \A i \in candidates[id].inputs : Present(candidates, i)
             Rests == \A id \in DOMAIN candidates \cap DOMAIN candidates' :
                         /\ ~Observed(candidates[id])
                         /\ candidates'[id] = candidates[id]
                         => \A i \in candidates[id].inputs :
                               i.cand \in DOMAIN candidates' /\ candidates'[i.cand] = candidates[i.cand]
  <1>1. Valid => Pinned
    BY ValidPaths
  <1>2. Valid' => Pinned'
    BY <1>1, PTL
  <1>3. ASSUME KernelInv, NEW b \in Batch, NEW m, Commit(b, m) PROVE Rests
    <2>1. TypeOK /\ Valid /\ Advances(b) /\ Verdict(b, m) = {}
      BY <1>3 DEF KernelInv, Commit
    <2>2. candidates' = PostCandidates(b) /\ Valid'
      BY <1>3, CommitIsValid DEF Commit
    <2>3. ASSUME NEW id \in DOMAIN candidates \cap DOMAIN candidates',
                 ~Observed(candidates[id]), candidates'[id] = candidates[id],
                 NEW i \in candidates[id].inputs
          PROVE  i.cand \in DOMAIN candidates' /\ candidates'[i.cand] = candidates[i.cand]
      <3>1. Present(candidates, i)
        BY <2>1, <2>3, ValidPaths
      <3>2. Present(candidates', i)
        BY <1>2, <2>2, <2>3 DEF Observed, Present
      <3>3. /\ i.cand \in DOMAIN candidates \cap DOMAIN candidates'
            /\ candidates'[i.cand].revision = candidates[i.cand].revision
        BY <3>1, <3>2 DEF Present
      <3> QED
        BY <2>1, <2>2, <3>3, CandidatesAfter
    <2> QED
      BY <2>3
  <1> HIDE DEF Rests
  <1>4. KernelInv /\ [Next]_vars => [Rests]_vars
    BY <1>3, StepIsCommit
  <1>5. Spec => [][Rests]_vars
    BY <1>4, KernelInvHolds, PTL DEF Spec
  <1> QED
    BY <1>5, PTL DEF Rests, InferencesRestOnWhatTheySaw

-----------------------------------------------------------------------------
(* Retained observations. *)

\* Every retained observation is filed under its own identity.
Filed == \A rid \in DOMAIN retained :
            rid = RetainedID(retained[rid].cand, retained[rid].candidate)

\* The observations a batch takes out of service, and what it files of each.
LEMMA NewlyFiled ==
    ASSUME NEW b
    PROVE  /\ \A rid \in DOMAIN NewlyRetained(b) :
                 \E id \in DOMAIN candidates :
                    /\ Observed(candidates[id])
                    /\ rid = RetainedID(id, candidates[id])
                    /\ NewlyRetained(b)[rid].cand = id
                    /\ NewlyRetained(b)[rid].candidate = candidates[id]
           /\ \A id \in Leaving(DOMAIN candidates \ b.factWithdrawals, StagedBindings(b)) :
                 /\ RetainedID(id, candidates[id]) \in DOMAIN NewlyRetained(b)
                 /\ NewlyRetained(b)[RetainedID(id, candidates[id])].candidate = candidates[id]
  <1> DEFINE after == StagedBindings(b)
             ids   == Leaving(DOMAIN candidates \ b.factWithdrawals, after)
  <1>1. NewlyRetained(b) = [rid \in {RetainedID(id, candidates[id]) : id \in ids} |->
                               [cand      |-> rid[1],
                                candidate |-> candidates[rid[1]],
                                removal   |-> Removal(after[rid[4]])]]
    BY DEF NewlyRetained, Retaining
  <1>2. \A id : RetainedID(id, candidates[id])[1] = id
    BY DEF RetainedID
  <1>3. \A id \in ids : id \in DOMAIN candidates /\ Observed(candidates[id])
    BY DEF Leaving
  <1> HIDE DEF after, ids
  <1>4. /\ DOMAIN NewlyRetained(b) = {RetainedID(id, candidates[id]) : id \in ids}
        /\ \A id \in ids :
              /\ RetainedID(id, candidates[id]) \in DOMAIN NewlyRetained(b)
              /\ NewlyRetained(b)[RetainedID(id, candidates[id])].cand = id
              /\ NewlyRetained(b)[RetainedID(id, candidates[id])].candidate = candidates[id]
    BY <1>1, <1>2
  <1>5. ASSUME NEW rid \in DOMAIN NewlyRetained(b)
        PROVE  \E id \in DOMAIN candidates :
                  /\ Observed(candidates[id])
                  /\ rid = RetainedID(id, candidates[id])
                  /\ NewlyRetained(b)[rid].cand = id
                  /\ NewlyRetained(b)[rid].candidate = candidates[id]
    <2>1. PICK id \in ids : rid = RetainedID(id, candidates[id])
      BY <1>4
    <2> QED
      BY <1>3, <1>4, <2>1
  <1> QED
    BY <1>4, <1>5 DEF ids, after

\* Retained observations after the commit: each is one of the batch's own or one
\* that was there, and what is missing was withdrawn or has expired.
LEMMA RetainedAfter ==
    ASSUME NEW b, NEW m
    PROVE  /\ \A rid \in DOMAIN PostRetained(b, m) :
                 /\ rid \in DOMAIN NewlyRetained(b) =>
                       PostRetained(b, m)[rid] = NewlyRetained(b)[rid]
                 /\ rid \notin DOMAIN NewlyRetained(b) =>
                       rid \in DOMAIN retained /\ PostRetained(b, m)[rid] = retained[rid]
           /\ \A rid \in DOMAIN NewlyRetained(b) :
                 \/ rid \in DOMAIN PostRetained(b, m)
                 \/ RetainedFreshness(NewlyRetained(b)[rid], Context(b, m)) = "expired"
           /\ \A rid \in DOMAIN retained \ DOMAIN NewlyRetained(b) :
                 \/ rid \in DOMAIN PostRetained(b, m)
                 \/ retained[rid].cand \in b.factWithdrawals
                 \/ RetainedFreshness(retained[rid], Context(b, m)) = "expired"
  <1> DEFINE gone == {rid \in DOMAIN retained : retained[rid].cand \in b.factWithdrawals}
             kept == Without(retained, gone)
             new  == NewlyRetained(b)
             staged == StagedRetained(b)
             old(rid) == RetainedFreshness(staged[rid], Context(b, m)) = "expired"
  <1>1. /\ DOMAIN kept = DOMAIN retained \ gone
        /\ \A rid \in DOMAIN kept : kept[rid] = retained[rid]
    BY DEF Without
  <1>2. staged = With(kept, new)
    BY DEF StagedRetained
  <1> HIDE DEF kept, new, staged
  <1>3. /\ DOMAIN staged = DOMAIN kept \cup DOMAIN new
        /\ \A rid \in DOMAIN staged :
              staged[rid] = IF rid \in DOMAIN new THEN new[rid] ELSE kept[rid]
    BY <1>2 DEF With
  <1>4. PostRetained(b, m) = Without(staged, {rid \in DOMAIN staged : old(rid)})
    BY DEF PostRetained, staged
  <1>5. /\ DOMAIN PostRetained(b, m) = DOMAIN staged \ {rid \in DOMAIN staged : old(rid)}
        /\ \A rid \in DOMAIN PostRetained(b, m) : PostRetained(b, m)[rid] = staged[rid]
    BY <1>4 DEF Without
  <1> QED
    BY <1>1, <1>3, <1>5 DEF new

\* What holds of the kernel's history in every state.
HistoryInv == KernelInv /\ Filed

\* Every retained observation stays filed under its own identity.
LEMMA HistoryInvHolds == Spec => []HistoryInv
  <1>1. Init => Filed
    <2>1. Init => DOMAIN retained = {}
      BY DEF Init
    <2> QED
      BY <2>1 DEF Filed
  <1>2. Filed /\ [Next]_vars => Filed'
    <2> SUFFICES ASSUME Filed, [Next]_vars PROVE Filed'
      OBVIOUS
    <2>1. CASE UNCHANGED vars
      BY <2>1 DEF vars, Filed
    <2>2. ASSUME NEW b \in Batch, NEW m \in MonotonicPoint, Commit(b, m) PROVE Filed'
      <3> SUFFICES ASSUME NEW rid \in DOMAIN retained'
                   PROVE  rid = RetainedID(retained'[rid].cand, retained'[rid].candidate)
        BY DEF Filed
      <3>1. retained' = PostRetained(b, m)
        BY <2>2 DEF Commit
      <3>2. CASE rid \in DOMAIN NewlyRetained(b)
        <4>1. retained'[rid] = NewlyRetained(b)[rid]
          BY <3>1, <3>2, RetainedAfter
        <4>2. PICK id \in DOMAIN candidates :
                 /\ rid = RetainedID(id, candidates[id])
                 /\ NewlyRetained(b)[rid].cand = id
                 /\ NewlyRetained(b)[rid].candidate = candidates[id]
          BY <3>2, NewlyFiled
        <4> QED
          BY <4>1, <4>2
      <3>3. CASE rid \notin DOMAIN NewlyRetained(b)
        <4>1. rid \in DOMAIN retained /\ retained'[rid] = retained[rid]
          BY <3>1, <3>3, RetainedAfter
        <4> QED
          BY <4>1 DEF Filed
      <3> QED
        BY <3>2, <3>3
    <2> QED
      BY <2>1, <2>2, StepIsCommit
  <1> QED
    BY <1>1, <1>2, KernelInvHolds, PTL DEF Spec, HistoryInv

\* In a snapshot that validates and files its history under its own identities,
\* no retained observation is also a current fact.
LEMMA HistoryIsApart ==
    ASSUME HistoryInv
    PROVE  HistoryIsNotAuthority
  <1> SUFFICES ASSUME NEW id \in DOMAIN candidates, Observed(candidates[id])
               PROVE  /\ RetainedID(id, candidates[id]) \notin DOMAIN retained
                      /\ \A rid \in DOMAIN retained : rid[4] # candidates[id].binding
    BY DEF HistoryIsNotAuthority
  <1>1. bindings[candidates[id].binding].state = "current"
    <2>1. PathErrors(candidates[id], bindings) = {}
      BY ValidPaths DEF HistoryInv, KernelInv
    <2> QED
      BY <2>1 DEF PathErrors
  <1>2. ASSUME NEW rid \in DOMAIN retained PROVE rid[4] # candidates[id].binding
    <2>1. rid[4] = retained[rid].candidate.binding
      BY DEF HistoryInv, Filed, RetainedID
    <2>2. bindings[retained[rid].candidate.binding].state # "current"
      BY ValidPaths DEF HistoryInv, KernelInv
    <2> QED
      BY <1>1, <2>1, <2>2
  <1>3. RetainedID(id, candidates[id])[4] = candidates[id].binding
    BY DEF RetainedID
  <1> QED
    BY <1>2, <1>3

\* However candidate ids are reused, an observation that was retained is not
\* also a current fact.
THEOREM HistoryHasNoAuthority == Spec => []HistoryIsNotAuthority
  <1>1. HistoryInv => HistoryIsNotAuthority
    BY HistoryIsApart
  <1> QED
    BY <1>1, HistoryInvHolds, PTL

\* A commit never rewrites a retained observation, and drops one only when it
\* has expired or when its own source withdraws it.
LEMMA CommitKeepsHistory ==
    ASSUME HistoryInv, NEW b \in Batch, NEW m, Commit(b, m),
           NEW rid \in DOMAIN retained
    PROVE  IF rid \in DOMAIN retained' THEN retained'[rid] = retained[rid]
           ELSE \/ RetainedFreshness(retained[rid], evaluatedAt') = "expired"
                \/ \E k \in Moved : k[1] = retained[rid].candidate.source
  <1>1. TypeOK /\ Valid /\ Advances(b) /\ Verdict(b, m) = {}
    BY DEF HistoryInv, KernelInv, Commit
  <1>2. retained' = PostRetained(b, m) /\ evaluatedAt' = Context(b, m)
    BY DEF Commit
  <1>3. rid \notin DOMAIN NewlyRetained(b)
    <2>1. ASSUME rid \in DOMAIN NewlyRetained(b) PROVE FALSE
      <3>1. PICK id \in DOMAIN candidates :
               Observed(candidates[id]) /\ rid = RetainedID(id, candidates[id])
        BY <2>1, NewlyFiled
      <3> QED
        BY <3>1, HistoryIsApart DEF HistoryIsNotAuthority
    <2> QED
      BY <2>1
  <1>4. CASE rid \in DOMAIN retained'
    BY <1>2, <1>3, <1>4, RetainedAfter
  <1>5. CASE rid \notin DOMAIN retained' /\ retained[rid].cand \in b.factWithdrawals
    <2> DEFINE old == retained[rid].candidate
    <2>1. /\ old.binding \in DOMAIN bindings
          /\ KeyOf(bindings[old.binding]) = KeyOf(old)
      BY <1>1, ValidPaths
    <2>2. StagedBindings(b)[old.binding].source = b.source
      <3>1. FactWithdrawalErrors(b) = {}
        BY <1>1, AcceptedObjects
      <3>2. HistoryWithdrawalErrors(b, retained[rid].cand) = {}
        BY <1>5, <3>1 DEF FactWithdrawalErrors
      <3> QED
        BY <3>2 DEF HistoryWithdrawalErrors, Flag
    <2>3. StagedBindings(b)[old.binding].source = bindings[old.binding].source
      BY <1>1, <2>1, BindingsAfter
    <2>4. bindings[old.binding].source = old.source
      BY <2>1 DEF KeyOf
    <2>5. Key(b) \in Moved /\ Key(b)[1] = b.source
      BY <1>1, CommitMoves DEF Key
    <2> QED
      BY <1>5, <2>2, <2>3, <2>4, <2>5
  <1>6. CASE rid \notin DOMAIN retained' /\ retained[rid].cand \notin b.factWithdrawals
    BY <1>2, <1>3, <1>6, RetainedAfter
  <1> QED
    BY <1>4, <1>5, <1>6

\* Retained history is never rewritten, and nothing but its own deadline or its
\* own source ends it.
THEOREM HistoryOutlivesEverything == Spec => HistoryIsImmutable
  <1> DEFINE Outlives ==
        \A rid \in DOMAIN retained :
           IF rid \in DOMAIN retained' THEN retained'[rid] = retained[rid]
           ELSE \/ RetainedFreshness(retained[rid], evaluatedAt') = "expired"
                \/ \E k \in Moved : k[1] = retained[rid].candidate.source
  <1>1. ASSUME HistoryInv, NEW b \in Batch, NEW m, Commit(b, m) PROVE Outlives
    BY <1>1, CommitKeepsHistory
  <1> HIDE DEF Outlives
  <1>2. HistoryInv /\ [Next]_vars => [Outlives]_vars
    BY <1>1, StepIsCommit
  <1>3. Spec => [][Outlives]_vars
    BY <1>2, HistoryInvHolds, PTL DEF Spec
  <1> QED
    BY <1>3, PTL DEF Outlives, HistoryIsImmutable

\* A commit that takes the binding of a current observation out of service
\* retains the observation, unless it has expired by then.  The batch cannot
\* have withdrawn it: a withdrawal on a path the same batch closes is refused.
LEMMA CommitKeepsObservations ==
    ASSUME HistoryInv, NEW b \in Batch, NEW m, Commit(b, m),
           NEW id \in DOMAIN candidates, Observed(candidates[id]),
           bindings'[candidates[id].binding].state # "current"
    PROVE  LET rid == RetainedID(id, candidates[id])
           IN  \/ EvaluateFreshness(candidates[id].times, candidates[id].policy, evaluatedAt')
                     = "expired"
               \/ rid \in DOMAIN retained' /\ retained'[rid].candidate = candidates[id]
  <1> DEFINE c   == candidates[id]
             r   == bindings[c.binding]
             rid == RetainedID(id, c)
  <1>1. TypeOK /\ Valid /\ Advances(b) /\ Verdict(b, m) = {}
    BY DEF HistoryInv, KernelInv, Commit
  <1>2. /\ retained' = PostRetained(b, m) /\ evaluatedAt' = Context(b, m)
        /\ bindings' = PostBindings(b)
    BY DEF Commit
  <1>3. c.binding \in DOMAIN bindings /\ r.state = "current" /\ KeyOf(r) = KeyOf(c)
    <2>1. PathErrors(c, bindings) = {}
      BY <1>1, ValidPaths
    <2> QED
      BY <2>1 DEF PathErrors, Flag, KeyOf
  <1>4. /\ c.binding \in DOMAIN StagedBindings(b)
        /\ StagedBindings(b)[c.binding].state # "current"
        /\ Touched(b, c.binding)
    BY <1>1, <1>2, <1>3, BindingsAfter
  <1>5. id \notin b.factWithdrawals
    <2> SUFFICES ASSUME id \in b.factWithdrawals PROVE FALSE
      OBVIOUS
    <2>1. ObservedWithdrawalErrors(b, c) = {}
      <3>1. FactWithdrawalErrors(b) = {}
        BY <1>1, AcceptedObjects
      <3> QED
        BY <3>1 DEF FactWithdrawalErrors
    <2>2. <<b.source, c.epoch, c.gen>> \notin DOMAIN b.fences /\ c.epoch \notin b.retirements
      BY <2>1 DEF ObservedWithdrawalErrors, Flag
    <2>3. CASE FencedBy(b, r)
      <3>1. KeyOf(r) \in DOMAIN b.fences
        BY <2>3 DEF FencedBy, FencedKeys
      <3>2. r.source = b.source
        BY <1>1, <2>3, FencesAreOwn
      <3> QED
        BY <1>3, <2>2, <3>1, <3>2 DEF KeyOf
    <2>4. CASE RetiredBy(b, r)
      BY <1>3, <2>2, <2>4 DEF RetiredBy, Retiring, KeyOf
    <2> QED
      BY <1>4, <2>3, <2>4 DEF Touched
  <1>6. rid \in DOMAIN NewlyRetained(b) /\ NewlyRetained(b)[rid].candidate = c
    <2>1. id \in Leaving(DOMAIN candidates \ b.factWithdrawals, StagedBindings(b))
      BY <1>4, <1>5 DEF Leaving
    <2> QED
      BY <2>1, NewlyFiled
  <1> HIDE DEF c, rid
  <1>7. RetainedFreshness(NewlyRetained(b)[rid], Context(b, m))
           = EvaluateFreshness(c.times, c.policy, evaluatedAt')
    BY <1>2, <1>6 DEF RetainedFreshness
  <1>8. CASE rid \in DOMAIN retained'
    <2>1. retained'[rid] = NewlyRetained(b)[rid]
      BY <1>2, <1>6, <1>8, RetainedAfter
    <2> QED
      BY <1>6, <1>8, <2>1 DEF rid, c
  <1>9. CASE rid \notin DOMAIN retained'
    <2>1. RetainedFreshness(NewlyRetained(b)[rid], Context(b, m)) = "expired"
      BY <1>2, <1>6, <1>9, RetainedAfter
    <2> QED
      BY <1>7, <2>1 DEF rid, c
  <1> QED
    BY <1>8, <1>9

\* No observation is lost with its path.
THEOREM NoObservationIsLost == Spec => ObservationsAreKept
  <1> DEFINE Kept ==
        \A id \in DOMAIN candidates :
          /\ Observed(candidates[id])
          /\ bindings'[candidates[id].binding].state # "current"
          => LET rid == RetainedID(id, candidates[id])
             IN  \/ EvaluateFreshness(candidates[id].times, candidates[id].policy, evaluatedAt')
                       = "expired"
                 \/ rid \in DOMAIN retained' /\ retained'[rid].candidate = candidates[id]
  <1>1. ASSUME HistoryInv, NEW b \in Batch, NEW m, Commit(b, m) PROVE Kept
    BY <1>1, CommitKeepsObservations
  <1> HIDE DEF Kept
  <1>2. HistoryInv /\ [Next]_vars => [Kept]_vars
    BY <1>1, StepIsCommit
  <1>3. Spec => [][Kept]_vars
    BY <1>2, HistoryInvHolds, PTL DEF Spec
  <1> QED
    BY <1>3, PTL DEF Kept, ObservationsAreKept

-----------------------------------------------------------------------------
(* Drivers and epochs take turns. *)

\* A source has one current epoch (publicationContentErrors).
OneEpoch == \A j, k \in DOMAIN sources :
               j[1] = k[1] /\ sources[j].state = "current" /\ sources[k].state = "current" => j = k

\* What dates the publications of a source.
TurnsInv == KernelInv /\ OneEpoch /\ GenerationsTakeTurns

\* Every committed snapshot has one current epoch per source.
LEMMA CommitHasOneEpoch ==
    ASSUME NEW b, NEW m, Commit(b, m)
    PROVE  OneEpoch'
  <1> DEFINE src == PostSources(b)
  <1>1. sources' = src /\ Advances(b) /\ Verdict(b, m) = {}
    BY DEF Commit
  <1>2. ContentErrors(b, m) = {}
    <2>1. ApplyToErrors(b, m) = {}
      BY <1>1, AcceptedBatch
    <2> QED
      BY <2>1 DEF ApplyToErrors
  <1>3. ~ \E j, k \in DOMAIN src : /\ j # k /\ j[1] = k[1]
                                   /\ src[j].state = "current" /\ src[k].state = "current"
    BY <1>2, Zenon DEF ContentErrors, Flag
  <1> HIDE DEF src
  <1> QED
    BY <1>1, <1>3 DEF OneEpoch

\* The publisher's cursor is dated by the revision the commit produces, which is
\* later than every other; no later generation of its epoch has published, and
\* every other epoch of its source is retired from here on.
LEMMA CommitTakesTurns ==
    ASSUME TurnsInv, NEW b \in Batch, NEW m, Commit(b, m)
    PROVE  GenerationsTakeTurns'
  <1> DEFINE mine == Key(b)
             now  == revisions.semantic + 1
             SK(k) == <<k[1], k[2]>>
  <1>1. TypeOK /\ Valid /\ Advances(b) /\ Verdict(b, m) = {}
    BY DEF TurnsInv, KernelInv, Commit
  <1>2. /\ sources' = PostSources(b) /\ cursors' = PostCursors(b)
        /\ revisions'.semantic = now
        /\ replays' = With(replays, [k \in {mine} |-> now])
    <2>1. PostRevisions(b, m).semantic = now
      BY <1>1, PostRevisionsKind, AcceptedObjects
    <2> QED
      BY <2>1 DEF Commit
  <1>3. now \in Nat \ {0} /\ revisions.semantic \in Nat /\ revisions.semantic < now
    BY <1>1, MaxUint64Assumption DEF TypeOK
  <1>4. DOMAIN replays = DOMAIN cursors
    BY DEF TurnsInv, GenerationsTakeTurns
  <1>5. /\ DOMAIN cursors' = DOMAIN cursors \cup {mine}
        /\ DOMAIN replays' = DOMAIN cursors'
        /\ replays'[mine] = now
        /\ \A k \in DOMAIN cursors' : k # mine => k \in DOMAIN cursors /\ replays'[k] = replays[k]
    <2>1. DOMAIN cursors' = DOMAIN cursors \cup {mine}
      BY <1>1, <1>2, CursorsAfter
    <2> QED
      BY <1>2, <1>4, <2>1 DEF With
  <1>6. \A k \in DOMAIN cursors : replays[k] \in 1..revisions.semantic
    BY DEF TurnsInv, GenerationsTakeTurns
  <1>7. mine[1] = b.source /\ mine[2] = b.epoch /\ mine[3] = b.gen
    BY DEF Key
  <1>8. \A k \in DOMAIN cursors : SK(k) \in DOMAIN sources
    BY <1>1, ValidPaths
  <1> HIDE DEF mine, now
  <1>9. ASSUME NEW k \in DOMAIN cursors, k[1] = b.source, k[2] = b.epoch PROVE ~(b.gen < k[3])
    BY <1>1, <1>9, AcceptedIdentity DEF OrderErrors, Flag
  <1>10. ASSUME NEW k \in DOMAIN cursors, k[1] = b.source, k[2] # b.epoch
         PROVE  sources'[SK(k)].state = "retired"
    <2>1. sources[SK(k)].state \in {"current", "retired"}
      BY <1>1, <1>8 DEF TypeOK, IsMap, SourceRecord
    <2>2. sources[SK(k)].state = "current" => SK(k)[2] \in b.retirements
      <3>1. EpochErrors(b) = {}
        BY <1>1, AcceptedIdentity
      <3>2. \A s \in DOMAIN sources :
               s[1] = b.source /\ sources[s].state = "current" /\ s[2] # b.epoch
                  => s[2] \in b.retirements
        BY <3>1 DEF EpochErrors, Flag
      <3>3. SK(k)[1] = k[1] /\ SK(k)[2] = k[2]
        OBVIOUS
      <3> QED
        BY <1>8, <1>10, <3>2, <3>3
    <2>3. SK(k) \in DOMAIN PostSources(b) /\ SK(k)[1] = b.source
      BY <1>1, <1>8, <1>10, SourceStates
    <2> QED
      BY <1>1, <1>2, <1>8, <2>1, <2>2, <2>3, SourceStates
  <1>11. ASSUME NEW k \in DOMAIN cursors, sources[SK(k)].state = "retired"
         PROVE  sources'[SK(k)].state = "retired"
    BY <1>1, <1>2, <1>8, <1>11, SourceStates
  <1>12. ASSUME NEW k \in DOMAIN cursors, k[1] # b.source
         PROVE  sources'[SK(k)] = sources[SK(k)]
    <2>1. SK(k) \in DOMAIN PostSources(b) /\ SK(k)[1] # b.source
      BY <1>1, <1>8, <1>12, SourceStates
    <2> QED
      BY <1>1, <1>2, <2>1, SourcesAfter
  <1>13. ASSUME NEW j \in DOMAIN cursors'
         PROVE  replays'[j] \in 1..now /\ (j # mine => replays'[j] \in 1..revisions.semantic)
    <2>1. j # mine => replays'[j] \in 1..revisions.semantic
      BY <1>5, <1>6
    <2> QED
      BY <1>3, <1>5, <2>1
  <1>14. ASSUME NEW j \in DOMAIN cursors', NEW k \in DOMAIN cursors', j # k
         PROVE  replays'[j] # replays'[k]
    <2>1. CASE j # mine /\ k # mine
      BY <1>5, <1>14, <2>1 DEF TurnsInv, GenerationsTakeTurns
    <2>2. CASE j = mine \/ k = mine
      BY <1>3, <1>5, <1>13, <1>14, <2>2
    <2> QED
      BY <2>1, <2>2
  <1>15. ASSUME NEW j \in DOMAIN cursors', NEW k \in DOMAIN cursors',
                j[1] = k[1], j[2] = k[2], j[3] < k[3]
         PROVE  replays'[j] < replays'[k]
    <2>1. CASE j = mine
      <3>1. b.gen \in Nat
        <4>1. b.gen \in Generation
          BY DEF Batch
        <4>2. Generation \subseteq 1..MaxUint64
          BY PublicationAssumption
        <4>3. b.gen \in 1..MaxUint64
          BY <4>1, <4>2
        <4> QED
          BY <4>3
      <3>2. k # mine
        BY <1>7, <1>15, <2>1, <3>1
      <3> QED
        BY <1>5, <1>7, <1>9, <1>15, <2>1, <3>2
    <2>2. CASE j # mine /\ k = mine
      BY <1>3, <1>5, <1>13, <2>2
    <2>3. CASE j # mine /\ k # mine
      BY <1>5, <1>15, <2>3 DEF TurnsInv, GenerationsTakeTurns
    <2> QED
      BY <2>1, <2>2, <2>3
  <1>16. ASSUME NEW j \in DOMAIN cursors', NEW k \in DOMAIN cursors',
                j[1] = k[1], j[2] # k[2],
                sources'[SK(j)].state = "retired", sources'[SK(k)].state = "current"
         PROVE  replays'[j] < replays'[k]
    <2>1. CASE k[1] = b.source
      <3>1. k[2] = b.epoch
        BY <1>5, <1>7, <1>10, <1>16, <2>1
      <3>2. j # mine /\ j \in DOMAIN cursors
        BY <1>5, <1>7, <1>16, <3>1
      <3>3. CASE k = mine
        BY <1>3, <1>5, <1>13, <3>2, <3>3
      <3>4. CASE k # mine
        <4>1. k \in DOMAIN cursors
          BY <1>5, <3>4
        <4>2. sources[SK(k)].state = "current"
          <5>1. sources[SK(k)].state \in {"current", "retired"}
            BY <1>1, <1>8, <4>1 DEF TypeOK, IsMap, SourceRecord
          <5> QED
            BY <1>11, <1>16, <4>1, <5>1
        <4>3. sources[SK(j)].state = "retired"
          <5>1. sources[SK(j)].state \in {"current", "retired"}
            BY <1>1, <1>8, <3>2 DEF TypeOK, IsMap, SourceRecord
          <5>2. SK(j) # SK(k) /\ SK(j)[1] = SK(k)[1]
            BY <1>16
          <5>3. SK(j) \in DOMAIN sources /\ SK(k) \in DOMAIN sources
            BY <1>8, <3>2, <4>1
          <5> QED
            BY <4>2, <5>1, <5>2, <5>3 DEF TurnsInv, OneEpoch
        <4> QED
          BY <1>5, <1>16, <3>2, <3>4, <4>1, <4>2, <4>3 DEF TurnsInv, GenerationsTakeTurns
      <3> QED
        BY <3>3, <3>4
    <2>2. CASE k[1] # b.source
      <3>1. /\ j \in DOMAIN cursors /\ k \in DOMAIN cursors
            /\ replays'[j] = replays[j] /\ replays'[k] = replays[k]
        BY <1>5, <1>7, <1>16, <2>2
      <3>2. sources[SK(j)].state = "retired" /\ sources[SK(k)].state = "current"
        BY <1>12, <1>16, <2>2, <3>1
      <3> QED
        BY <1>16, <3>1, <3>2 DEF TurnsInv, GenerationsTakeTurns
    <2> QED
      BY <2>1, <2>2
  <1> QED
    BY <1>2, <1>5, <1>13, <1>14, <1>15, <1>16 DEF GenerationsTakeTurns

\* Once a later generation or epoch has published, no earlier one does.
THEOREM GenerationsInTurn == Spec => []GenerationsTakeTurns
  <1>1. Init => OneEpoch /\ GenerationsTakeTurns
    <2>1. Init => /\ DOMAIN sources = {} /\ DOMAIN cursors = {} /\ DOMAIN replays = {}
      BY DEF Init
    <2> QED
      BY <2>1 DEF OneEpoch, GenerationsTakeTurns
  <1>2. TurnsInv /\ [Next]_vars => OneEpoch' /\ GenerationsTakeTurns'
    <2> SUFFICES ASSUME TurnsInv, [Next]_vars PROVE OneEpoch' /\ GenerationsTakeTurns'
      OBVIOUS
    <2>1. CASE UNCHANGED vars
      BY <2>1 DEF vars, TurnsInv, OneEpoch, GenerationsTakeTurns
    <2>2. ASSUME NEW b \in Batch, NEW m \in MonotonicPoint, Commit(b, m)
          PROVE  OneEpoch' /\ GenerationsTakeTurns'
      BY <2>2, CommitHasOneEpoch, CommitTakesTurns
    <2> QED
      BY <2>1, <2>2, StepIsCommit
  <1>3. KernelInv /\ OneEpoch /\ GenerationsTakeTurns <=> TurnsInv
    BY DEF TurnsInv
  <1> QED
    BY <1>1, <1>2, <1>3, KernelInvHolds, PTL DEF Spec

-----------------------------------------------------------------------------
(* Sources are out of each other's reach. *)

\* An observation of another source is neither written nor closed: it is not the
\* batch's, its binding is not, and it rests on nothing else.
LEMMA ForeignObservations ==
    ASSUME KernelInv, NEW b \in Batch, NEW m, Commit(b, m),
           NEW id \in DOMAIN candidates, Observed(candidates[id]),
           candidates[id].source # b.source
    PROVE  id \in DOMAIN candidates' /\ candidates'[id] = candidates[id]
  <1> DEFINE c     == candidates[id]
             cands == StagedCandidates(b)
             bnd   == StagedBindings(b)
  <1>1. TypeOK /\ Valid /\ Advances(b) /\ Verdict(b, m) = {}
    BY DEF KernelInv, Commit
  <1>2. candidates' = PostCandidates(b)
    BY DEF Commit
  <1>3. PathErrors(c, bindings) = {}
    BY <1>1, ValidPaths
  <1>4. c.binding \in DOMAIN bindings /\ bindings[c.binding].source = c.source
    BY <1>3 DEF PathErrors, Flag
  <1>5. ForeignBinding(b, c.binding)
    BY <1>4 DEF ForeignBinding
  <1>6. id \notin DOMAIN b.factUpserts /\ id \notin b.factWithdrawals
    BY <1>1, <1>5, AcceptedObjects DEF RetainedOwnershipErrors, Flag
  <1>7. id \in DOMAIN cands /\ cands[id] = c
    BY <1>6 DEF StagedCandidates, Without, With
  <1>8. c.binding \in DOMAIN bnd /\ bnd[c.binding] = bindings[c.binding]
    BY <1>1, <1>4, BindingsAfter
  <1>9. PathErrors(cands[id], bnd) = {}
    BY <1>3, <1>4, <1>7, <1>8 DEF PathErrors
  <1>10. IsFiniteSet(DOMAIN cands)
    <2>1. DOMAIN cands \subseteq Candidate
      BY <1>1, StagedCandidatesKind DEF IsMap
    <2> QED
      BY <2>1, PublicationAssumption, FS_Subset
  <1>11. NodeErrors(cands, bnd, id) = {}
    <2>1. Dependencies(cands, id) = {}
      BY <1>7, <1>10, ObservedStandsAlone
    <2>2. LocalErrors(cands, bnd, id) = {}
      BY <1>7, <1>9 DEF LocalErrors
    <2> QED
      BY <2>1, <2>2 DEF NodeErrors
  <1> HIDE DEF cands, bnd, c
  <1>12. PostCandidates(b) = Closed(cands, DOMAIN b.factUpserts, bnd)
    BY DEF PostCandidates, cands, bnd
  <1> QED
    BY <1>2, <1>7, <1>11, <1>12 DEF Closed, c

\* What a publication under one source leaves exactly as it was.
Isolated(s) ==
    /\ \A k \in DOMAIN sources \cup DOMAIN sources' :
          k[1] = s => k \in DOMAIN sources \cap DOMAIN sources' /\ sources'[k] = sources[k]
    /\ \A k \in DOMAIN cursors : k[1] = s => cursors'[k] = cursors[k]
    /\ \A k \in DOMAIN fences' : k[1] = s => k \in DOMAIN fences
    /\ \A id \in DOMAIN bindings : OwnedBy(s, id) => bindings'[id] = bindings[id]
    /\ \A id \in DOMAIN links : OwnedBy(s, id) => links'[id] = links[id]
    /\ \A id \in DOMAIN services :
          OwnedBy(s, services[id].binding) => services'[id] = services[id]
    /\ \A id \in DOMAIN capabilities :
          OwnedBy(s, capabilities[id].binding) => capabilities'[id] = capabilities[id]
    /\ \A id \in DOMAIN candidates :
          Observed(candidates[id]) /\ candidates[id].source = s =>
             id \in DOMAIN candidates' /\ candidates'[id] = candidates[id]
    /\ \A rid \in DOMAIN retained : retained[rid].candidate.source = s =>
          IF rid \in DOMAIN retained' THEN retained'[rid] = retained[rid]
          ELSE RetainedFreshness(retained[rid], evaluatedAt') = "expired"
    /\ \A rid \in DOMAIN retained' :
          retained'[rid].candidate.source = s => rid \in DOMAIN retained

\* What a commit retains anew are observations of the batch's own source: no
\* other binding leaves service.
LEMMA NewHistoryIsOwn ==
    ASSUME KernelInv, NEW b \in Batch, NEW m, Commit(b, m),
           NEW rid \in DOMAIN retained' \ DOMAIN retained
    PROVE  retained'[rid].candidate.source = b.source
  <1>1. TypeOK /\ Valid /\ Advances(b) /\ Verdict(b, m) = {}
    BY DEF KernelInv, Commit
  <1>2. retained' = PostRetained(b, m)
    BY DEF Commit
  <1>3. rid \in DOMAIN NewlyRetained(b) /\ retained'[rid] = NewlyRetained(b)[rid]
    BY <1>2, RetainedAfter
  <1> DEFINE ids == Leaving(DOMAIN candidates \ b.factWithdrawals, StagedBindings(b))
  <1>4. PICK id \in ids : rid = RetainedID(id, candidates[id])
    BY <1>3 DEF NewlyRetained, Retaining
  <1>5. retained'[rid].candidate = candidates[id]
    BY <1>3, <1>4, NewlyFiled
  <1>6. /\ id \in DOMAIN candidates /\ Observed(candidates[id])
        /\ StagedBindings(b)[candidates[id].binding].state # "current"
    BY <1>4 DEF Leaving
  <1>7. /\ candidates[id].binding \in DOMAIN bindings
        /\ bindings[candidates[id].binding].source = candidates[id].source
        /\ bindings[candidates[id].binding].state = "current"
    <2>1. PathErrors(candidates[id], bindings) = {}
      BY <1>1, <1>6, ValidPaths
    <2> QED
      BY <2>1 DEF PathErrors, Flag
  <1>8. bindings[candidates[id].binding].source = b.source
    BY <1>1, <1>6, <1>7, BindingsAfter
  <1> QED
    BY <1>5, <1>7, <1>8

\* A commit leaves every other source as it was.
LEMMA CommitIsolates ==
    ASSUME HistoryInv, NEW b \in Batch, NEW m, Commit(b, m),
           NEW s \in Source \ {k[1] : k \in Moved}
    PROVE  Isolated(s)
  <1> USE DEF HistoryInv
  <1>1. TypeOK /\ Valid /\ Advances(b) /\ Verdict(b, m) = {}
    BY DEF KernelInv, Commit
  <1>2. /\ sources' = PostSources(b) /\ bindings' = PostBindings(b) /\ links' = PostLinks(b)
        /\ services' = PostServices(b) /\ capabilities' = PostCapabilities(b)
        /\ fences' = PostFences(b) /\ cursors' = PostCursors(b)
    BY DEF Commit
  <1>3. s # b.source
    <2>1. Key(b) \in Moved /\ Key(b)[1] = b.source
      BY <1>1, CommitMoves DEF Key
    <2> QED
      BY <2>1
  <1>4. \A id : OwnedBy(s, id) =>
           id \in DOMAIN bindings /\ bindings[id].source # b.source /\ ForeignBinding(b, id)
    BY <1>3 DEF OwnedBy, ForeignBinding
  <1>5. \A k \in DOMAIN sources \cup DOMAIN sources' :
           k[1] = s => k \in DOMAIN sources \cap DOMAIN sources' /\ sources'[k] = sources[k]
    BY <1>1, <1>2, <1>3, SourcesAfter
  <1>6. \A k \in DOMAIN cursors : k[1] = s => cursors'[k] = cursors[k]
    <2>1. Key(b)[1] = b.source
      BY DEF Key
    <2> QED
      BY <1>1, <1>2, <1>3, <2>1, CursorsAfter
  <1>7. \A k \in DOMAIN fences' : k[1] = s => k \in DOMAIN fences
    BY <1>1, <1>2, <1>3, FencesAfter
  <1>8. \A id \in DOMAIN bindings : OwnedBy(s, id) => bindings'[id] = bindings[id]
    BY <1>1, <1>2, <1>4, BindingsAfter
  <1>9. \A id \in DOMAIN links : OwnedBy(s, id) => links'[id] = links[id]
    BY <1>1, <1>2, <1>4, LinksAfter
  <1>10. \A id \in DOMAIN services :
            OwnedBy(s, services[id].binding) => services'[id] = services[id]
    BY <1>1, <1>2, <1>4, ServicesAfter
  <1>11. \A id \in DOMAIN capabilities :
            OwnedBy(s, capabilities[id].binding) => capabilities'[id] = capabilities[id]
    BY <1>1, <1>2, <1>4, CapabilitiesAfter
  <1>12. \A id \in DOMAIN candidates :
            Observed(candidates[id]) /\ candidates[id].source = s =>
               id \in DOMAIN candidates' /\ candidates'[id] = candidates[id]
    BY <1>3, ForeignObservations
  <1>13. \A rid \in DOMAIN retained : retained[rid].candidate.source = s =>
            IF rid \in DOMAIN retained' THEN retained'[rid] = retained[rid]
            ELSE RetainedFreshness(retained[rid], evaluatedAt') = "expired"
    BY CommitKeepsHistory
  <1>14. \A rid \in DOMAIN retained' :
            retained'[rid].candidate.source = s => rid \in DOMAIN retained
    BY <1>3, NewHistoryIsOwn
  <1> QED
    BY <1>5, <1>6, <1>7, <1>8, <1>9, <1>10, <1>11, <1>12, <1>13, <1>14 DEF Isolated

\* A publication under one source leaves every other source exactly as it was.
THEOREM NoSourceReachesAnother == Spec => SourcesAreIsolated
  <1> DEFINE Apart == \A s \in Source \ {k[1] : k \in Moved} : Isolated(s)
  <1>1. ASSUME HistoryInv, NEW b \in Batch, NEW m, Commit(b, m) PROVE Apart
    BY <1>1, CommitIsolates
  <1> HIDE DEF Apart
  <1>2. HistoryInv /\ [Next]_vars => [Apart]_vars
    BY <1>1, StepIsCommit
  <1>3. Spec => [][Apart]_vars
    BY <1>2, HistoryInvHolds, PTL DEF Spec
  <1> QED
    BY <1>3, PTL DEF Apart, Isolated, SourcesAreIsolated

-----------------------------------------------------------------------------
(* Paths can be closed. *)

\* No collection is beyond its bound (publicationContentErrors).
Fits ==
    /\ ~(Cardinality(DOMAIN sources) > Limit["sources"])
    /\ ~(Cardinality(DOMAIN bindings) > Limit["bindings"])
    /\ ~(Cardinality(DOMAIN links) > Limit["links"])
    /\ ~(Cardinality(DOMAIN envelopes) > Limit["envelopes"])
    /\ ~(Cardinality(DOMAIN services) > Limit["services"])
    /\ ~(Cardinality(DOMAIN capabilities) > Limit["capabilities"])
    /\ ~(Cardinality(DOMAIN cursors) > Limit["cursors"])

\* A capability belongs to a service of its binding, and is withdrawn with it.
OfItsService ==
    \A id \in DOMAIN capabilities :
        LET svc == capabilities[id].service
        IN  /\ svc \in DOMAIN services
            /\ services[svc].binding = capabilities[id].binding
            /\ services[svc].availability = "withdrawn" => capabilities[id].availability = "withdrawn"

\* A generation that a later one has followed is fenced.
Succeeded ==
    \A j, k \in DOMAIN cursors : j[1] = k[1] /\ j[2] = k[2] /\ j[3] < k[3] => cursors[j].fenced

\* There is an envelope for each key that has a candidate.
Enveloped == DOMAIN envelopes = {candidates[id].key : id \in DOMAIN candidates}

\* One cursor comes with each commit, and history is what candidates were.
Finite == IsFiniteSet(DOMAIN cursors) /\ IsFiniteSet(DOMAIN retained)

\* What every snapshot keeps so that any path of it can be closed.
ClosingInv == KernelInv /\ OneEpoch /\ Fits /\ OfItsService /\ Succeeded /\ Enveloped /\ Finite

\* The empty kernel has nothing out of bounds.
LEMMA InitIsClosing == Init => Fits /\ OfItsService /\ Succeeded /\ Enveloped /\ Finite
  <1> SUFFICES ASSUME Init PROVE Fits /\ OfItsService /\ Succeeded /\ Enveloped /\ Finite
    OBVIOUS
  <1>1. /\ DOMAIN sources = {} /\ DOMAIN fences = {} /\ DOMAIN cursors = {}
        /\ DOMAIN bindings = {} /\ DOMAIN links = {} /\ DOMAIN services = {}
        /\ DOMAIN capabilities = {} /\ DOMAIN candidates = {} /\ DOMAIN retained = {}
        /\ DOMAIN envelopes = {}
    BY DEF Init
  <1>2. IsFiniteSet({}) /\ Cardinality({}) = 0
    BY FS_EmptySet
  <1>3. \A c \in Collections : ~(0 > Limit[c])
    BY PublicationAssumption
  <1>4. Fits
    BY <1>1, <1>2, <1>3 DEF Fits, Collections
  <1> QED
    BY <1>1, <1>2, <1>4 DEF OfItsService, Succeeded, Enveloped, Finite

\* What publicationContentErrors looks at, it has looked at.
LEMMA CommitFits ==
    ASSUME NEW b, NEW m, Commit(b, m)
    PROVE  Fits' /\ OfItsService' /\ Enveloped'
  <1>1. /\ Advances(b) /\ Verdict(b, m) = {}
        /\ sources' = PostSources(b) /\ bindings' = PostBindings(b) /\ links' = PostLinks(b)
        /\ services' = PostServices(b) /\ capabilities' = PostCapabilities(b)
        /\ candidates' = PostCandidates(b) /\ envelopes' = PostEnvelopes(b)
        /\ retained' = PostRetained(b, m) /\ fences' = PostFences(b) /\ cursors' = PostCursors(b)
    BY DEF Commit
  <1>2. ContentErrors(b, m) = {}
    <2>1. ApplyToErrors(b, m) = {}
      BY <1>1, AcceptedBatch
    <2> QED
      BY <2>1 DEF ApplyToErrors
  <1> DEFINE src == PostSources(b)
             svc == PostServices(b)
             cap == PostCapabilities(b)
             TooMany(map, name) == Cardinality(DOMAIN map) > Limit[name]
  <1>3. /\ ~(\/ TooMany(src, "sources") \/ TooMany(PostBindings(b), "bindings")
             \/ TooMany(PostLinks(b), "links") \/ TooMany(PostEnvelopes(b), "envelopes")
             \/ TooMany(PostRetained(b, m), "retained")
             \/ TooMany(svc, "services") \/ TooMany(cap, "capabilities")
             \/ TooMany(PostFences(b), "fences") \/ TooMany(PostCursors(b), "cursors"))
        /\ ~(\E id \in DOMAIN cap :
                 \/ cap[id].service \notin DOMAIN svc
                 \/ svc[cap[id].service].binding # cap[id].binding
                 \/ /\ cap[id].availability # "withdrawn"
                    /\ svc[cap[id].service].availability = "withdrawn")
    BY <1>2, Zenon DEF ContentErrors, Flag
  <1>4. Fits'
    BY <1>1, <1>3 DEF Fits
  <1>5. OfItsService'
    <2> HIDE DEF src, svc, cap
    <2>1. \A id \in DOMAIN cap :
             /\ cap[id].service \in DOMAIN svc
             /\ svc[cap[id].service].binding = cap[id].binding
             /\ svc[cap[id].service].availability = "withdrawn" => cap[id].availability = "withdrawn"
      BY <1>3
    <2> QED
      BY <1>1, <2>1 DEF OfItsService, svc, cap
  <1>6. DOMAIN PostEnvelopes(b) = {PostCandidates(b)[id].key : id \in DOMAIN PostCandidates(b)}
    BY DEF PostEnvelopes
  <1>7. Enveloped'
    BY <1>1, <1>6 DEF Enveloped
  <1> QED
    BY <1>4, <1>5, <1>7

\* A publisher is the latest generation of its epoch, and fences those before it.
LEMMA CommitSucceeds ==
    ASSUME TypeOK, Succeeded, NEW b \in Batch, NEW m, Commit(b, m)
    PROVE  Succeeded'
  <1>1. cursors' = PostCursors(b) /\ Advances(b) /\ Verdict(b, m) = {}
    BY DEF Commit
  <1>2. /\ DOMAIN PostCursors(b) = DOMAIN cursors \cup {Key(b)}
        /\ \A k \in DOMAIN PostCursors(b) :
              PostCursors(b)[k].fenced <=> k \in DOMAIN b.fences \/ (k # Key(b) /\ cursors[k].fenced)
    BY CursorStates
  <1>3. /\ ~(\E k \in DOMAIN cursors : k[1] = b.source /\ k[2] = b.epoch /\ b.gen < k[3])
        /\ ~(\E k \in LiveKeys(b) : b.gen > k[3] /\ k \notin DOMAIN b.fences)
        /\ (KnownCursor(b) => ~cursors[Key(b)].fenced)
    BY <1>1, AcceptedIdentity DEF OrderErrors, GenerationErrors, Flag
  <1>4. \A k \in DOMAIN cursors \cup {Key(b)} : k[3] \in Nat
    BY PublicationAssumption, MaxUint64Assumption DEF TypeOK, IsMap, CursorKey, Batch, Key
  <1>5. Key(b)[1] = b.source /\ Key(b)[2] = b.epoch /\ Key(b)[3] = b.gen
    BY DEF Key
  <1>6. \A k \in DOMAIN cursors : cursors[k].fenced \in BOOLEAN
    BY DEF TypeOK, IsMap, CursorRecord
  <1>7. ASSUME NEW j \in DOMAIN PostCursors(b), NEW k \in DOMAIN PostCursors(b),
               j[1] = k[1], j[2] = k[2], j[3] < k[3]
        PROVE  PostCursors(b)[j].fenced
    <2>1. CASE k = Key(b)
      <3>1. j \in DOMAIN cursors /\ j # Key(b)
        BY <1>2, <1>4, <1>7, <2>1
      <3>2. cursors[j].fenced \/ j \in DOMAIN b.fences
        BY <1>3, <1>4, <1>5, <1>7, <2>1, <3>1 DEF LiveKeys
      <3> QED
        BY <1>2, <3>1, <3>2
    <2>2. CASE k # Key(b) /\ j = Key(b)
      BY <1>2, <1>3, <1>5, <1>7, <2>2
    <2>3. CASE k # Key(b) /\ j # Key(b)
      BY <1>2, <1>7, <2>3 DEF Succeeded
    <2> QED
      BY <2>1, <2>2, <2>3
  <1> QED
    BY <1>1, <1>7 DEF Succeeded

\* Each commit adds one cursor, and retains no more than there were candidates.
LEMMA CommitIsFinite ==
    ASSUME TypeOK, Finite, NEW b \in Batch, NEW m, Commit(b, m)
    PROVE  Finite'
  <1>1. cursors' = PostCursors(b) /\ retained' = PostRetained(b, m)
    BY DEF Commit
  <1>2. IsFiniteSet(DOMAIN PostCursors(b))
    <2>1. DOMAIN PostCursors(b) = DOMAIN cursors \cup {Key(b)}
      BY CursorStates
    <2> QED
      BY <2>1, FS_AddElement DEF Finite
  <1>3. IsFiniteSet(DOMAIN candidates)
    BY PublicationAssumption, FS_Subset DEF TypeOK, IsMap
  <1> DEFINE ids == {RetainedID(id, candidates[id]) : id \in DOMAIN candidates}
             name == [id \in DOMAIN candidates |-> RetainedID(id, candidates[id])]
  <1>4. IsFiniteSet(ids)
    <2>1. name \in [DOMAIN candidates -> ids] /\ \A i \in ids : \E id \in DOMAIN candidates : name[id] = i
      OBVIOUS
    <2>2. name \in Surjection(DOMAIN candidates, ids)
      BY <2>1 DEF Surjection
    <2> QED
      BY <1>3, <2>2, FS_Surjection
  <1>5. DOMAIN PostRetained(b, m) \subseteq ids \cup DOMAIN retained
    <2> SUFFICES ASSUME NEW rid \in DOMAIN PostRetained(b, m), rid \notin DOMAIN retained PROVE rid \in ids
      OBVIOUS
    <2>1. rid \in DOMAIN NewlyRetained(b)
      BY RetainedAfter
    <2>2. \E id \in DOMAIN candidates : rid = RetainedID(id, candidates[id])
      BY <2>1, NewlyFiled
    <2> HIDE DEF ids
    <2> QED
      BY <2>2 DEF ids
  <1>6. IsFiniteSet(DOMAIN PostRetained(b, m))
    <2>1. IsFiniteSet(ids \cup DOMAIN retained)
      BY <1>4, FS_Union DEF Finite
    <2> QED
      BY <1>5, <2>1, FS_Subset
  <1> QED
    BY <1>1, <1>2, <1>6 DEF Finite

\* The kernel's snapshot is one from which any path can be closed.
LEMMA ClosingInvHolds == Spec => []ClosingInv
  <1> DEFINE More == OneEpoch /\ Fits /\ OfItsService /\ Succeeded /\ Enveloped /\ Finite
  <1>1. Init => More
    BY InitIsClosing DEF Init, OneEpoch
  <1>2. KernelInv /\ More /\ [Next]_vars => More'
    <2> SUFFICES ASSUME KernelInv, More, [Next]_vars PROVE More'
      OBVIOUS
    <2>1. CASE UNCHANGED vars
      BY <2>1 DEF vars, OneEpoch, Fits, OfItsService, Succeeded, Enveloped, Finite
    <2>2. ASSUME NEW b \in Batch, NEW m \in MonotonicPoint, Commit(b, m) PROVE More'
      BY <2>2, CommitHasOneEpoch, CommitFits, CommitSucceeds, CommitIsFinite DEF KernelInv
    <2> QED
      BY <2>1, <2>2, StepIsCommit
  <1>3. ClosingInv <=> KernelInv /\ More
    BY DEF ClosingInv
  <1> HIDE DEF More
  <1> QED
    BY <1>1, <1>2, <1>3, KernelInvHolds, PTL DEF Spec

\* The bindings a batch takes out of service.
TakenOut(b) == {id \in DOMAIN bindings : Touched(b, id)}

\* The batch b is the next one of the live key k, has no other operation than
\* to fence that generation or to retire its epoch, and finds room for it.
Closing(b, m, k, evidence) ==
    /\ b \in Batch /\ Key(b) = k /\ k \in DOMAIN cursors /\ Live(k)
    /\ b.seq = cursors[k].seq + 1 /\ b.expected = revisions.semantic /\ b.sealed
    /\ b.malformed = {} /\ b.hook = {}
    /\ DOMAIN b.sourceUpserts = {} /\ DOMAIN b.bindingUpserts = {} /\ DOMAIN b.linkUpserts = {}
    /\ DOMAIN b.factUpserts = {} /\ b.factWithdrawals = {}
    /\ DOMAIN b.serviceUpserts = {} /\ b.serviceWithdrawals = {}
    /\ DOMAIN b.capabilityUpserts = {} /\ b.capabilityWithdrawals = {}
    /\ \/ DOMAIN b.fences = {k} /\ b.retirements = {}
       \/ DOMAIN b.fences = {} /\ b.retirements = {k[2]}
    /\ \A id \in TakenOut(b) : FenceEvidence(b, id) = evidence
    /\ Headroom(k, TakenOut(b), evidence, Context(b, m))

\* Overlaying nothing changes nothing.
LEMMA WithNothing ==
    ASSUME NEW f, f = [x \in DOMAIN f |-> f[x]], NEW g, DOMAIN g = {}
    PROVE  With(f, g) = f
  BY DEF With

\* What a valid snapshot says of its cursors, its fences and the objects of its
\* bindings.
LEMMA ValidOwners ==
    ASSUME Valid
    PROVE  /\ \A k \in DOMAIN fences : k \in DOMAIN cursors /\ cursors[k].fenced
           /\ \A k \in DOMAIN cursors : /\ <<k[1], k[2]>> \in DOMAIN sources
                                        /\ cursors[k].fenced = (k \in DOMAIN fences)
           /\ \A j, k \in DOMAIN cursors :
                 ~(/\ j # k /\ j[1] = k[1] /\ j[2] = k[2]
                   /\ ~cursors[j].fenced /\ ~cursors[k].fenced
                   /\ sources[<<k[1], k[2]>>].state = "current")
           /\ \A s \in DOMAIN sources : \E k \in DOMAIN cursors : <<k[1], k[2]>> = s
           /\ \A id \in DOMAIN bindings :
                 /\ <<bindings[id].source, bindings[id].epoch>> \in DOMAIN sources
                 /\ KeyOf(bindings[id]) \in DOMAIN cursors
                 /\ bindings[id].state = "current" =>
                       /\ sources[<<bindings[id].source, bindings[id].epoch>>].state = "current"
                       /\ ~cursors[KeyOf(bindings[id])].fenced
                 /\ bindings[id].state = "fenced" => KeyOf(bindings[id]) \in DOMAIN fences
                 /\ bindings[id].state = "retired" =>
                       sources[<<bindings[id].source, bindings[id].epoch>>].state = "retired"
           /\ \A id \in DOMAIN links :
                 /\ id \in DOMAIN bindings
                 /\ links[id].state # "withdrawn" => bindings[id].state = "current"
           /\ \A objects \in {services, capabilities} : \A id \in DOMAIN objects :
                 /\ objects[id].binding \in DOMAIN bindings
                 /\ bindings[objects[id].binding].epoch = objects[id].epoch
                 /\ bindings[objects[id].binding].gen = objects[id].gen
                 /\ objects[id].availability # "withdrawn" =>
                       bindings[objects[id].binding].state = "current"
  <1>1. LifecycleErrors(sources, fences, cursors, bindings, links, services, capabilities) = {}
    BY DEF Valid, SnapshotErrors
  <1>2. ~\E k \in DOMAIN fences : k \notin DOMAIN cursors \/ ~cursors[k].fenced
    BY <1>1, Zenon DEF LifecycleErrors, Flag
  <1>3. ~\E k \in DOMAIN cursors : <<k[1], k[2]>> \notin DOMAIN sources \/ cursors[k].fenced # (k \in DOMAIN fences)
    BY <1>1, Zenon DEF LifecycleErrors, Flag
  <1>4. ~\E j, k \in DOMAIN cursors :
            /\ j # k /\ j[1] = k[1] /\ j[2] = k[2]
            /\ ~cursors[j].fenced /\ ~cursors[k].fenced
            /\ sources[<<k[1], k[2]>>].state = "current"
    BY <1>1, Zenon DEF LifecycleErrors, Flag
  <1>5. ~\E s \in DOMAIN sources : \A k \in DOMAIN cursors : <<k[1], k[2]>> # s
    BY <1>1, Zenon DEF LifecycleErrors, Flag
  <1>6. ~\E id \in DOMAIN bindings :
            \/ <<bindings[id].source, bindings[id].epoch>> \notin DOMAIN sources
            \/ KeyOf(bindings[id]) \notin DOMAIN cursors
            \/ /\ bindings[id].state = "current"
               /\ \/ sources[<<bindings[id].source, bindings[id].epoch>>].state # "current"
                  \/ cursors[KeyOf(bindings[id])].fenced
            \/ bindings[id].state = "fenced"  /\ KeyOf(bindings[id]) \notin DOMAIN fences
            \/ /\ bindings[id].state = "retired"
               /\ sources[<<bindings[id].source, bindings[id].epoch>>].state # "retired"
    BY <1>1, Zenon DEF LifecycleErrors, Flag
  <1>7. ~\E id \in DOMAIN links :
            \/ id \notin DOMAIN bindings
            \/ links[id].state # "withdrawn" /\ bindings[id].state # "current"
    BY <1>1, Zenon DEF LifecycleErrors, Flag
  <1>8. ASSUME NEW objects \in {services, capabilities}, NEW id \in DOMAIN objects
        PROVE  ~(\/ objects[id].binding \notin DOMAIN bindings
                 \/ bindings[objects[id].binding].epoch # objects[id].epoch
                 \/ bindings[objects[id].binding].gen # objects[id].gen
                 \/ /\ objects[id].availability # "withdrawn"
                    /\ bindings[objects[id].binding].state # "current")
    <2> DEFINE Adrift(objs) == \E x \in DOMAIN objs :
                  LET o == objs[x]
                  IN  \/ o.binding \notin DOMAIN bindings
                      \/ bindings[o.binding].epoch # o.epoch \/ bindings[o.binding].gen # o.gen
                      \/ o.availability # "withdrawn" /\ bindings[o.binding].state # "current"
    <2>1. Flag(\E objs \in {services, capabilities} : Adrift(objs), "dangling_reference") = {}
      BY <1>1, Zenon DEF LifecycleErrors
    <2>2. ~Adrift(objects)
      <3> HIDE DEF Adrift
      <3> QED
        BY <2>1 DEF Flag
    <2> QED
      BY <2>2
  <1>9. /\ \A k \in DOMAIN cursors : /\ <<k[1], k[2]>> \in DOMAIN sources
                                     /\ cursors[k].fenced = (k \in DOMAIN fences)
    BY <1>3, Zenon
  <1> QED
    BY <1>2, <1>4, <1>5, <1>6, <1>7, <1>8, <1>9, Zenon

\* Only the key that closes publishes, its epoch is the source's current one,
\* and no later generation of it has a cursor.
Sole(b, k) ==
    /\ b.source = k[1] /\ b.epoch = k[2] /\ b.gen = k[3] /\ k[3] \in Nat
    /\ ~cursors[k].fenced /\ k \notin DOMAIN fences
    /\ <<k[1], k[2]>> \in DOMAIN sources /\ sources[<<k[1], k[2]>>].state = "current"
    /\ \A s \in DOMAIN sources :
          s[1] = k[1] /\ s[2] # k[2] => sources[s].state # "current"
    /\ \A j \in DOMAIN cursors : j[1] = k[1] /\ j[2] = k[2] =>
          /\ j # k => cursors[j].fenced
          /\ ~(k[3] < j[3])
    /\ FencedKeys(b) = DOMAIN b.fences

\* The closing batch is published under such a key.
LEMMA ClosingKey ==
    ASSUME ClosingInv, NEW b, NEW m, NEW k, NEW evidence, Closing(b, m, k, evidence)
    PROVE  Sole(b, k)
  <1>1. /\ Key(b) = k /\ k \in DOMAIN cursors /\ ~cursors[k].fenced
        /\ sources[<<k[1], k[2]>>].state = "current"
        /\ DOMAIN b.fences = {k} \/ DOMAIN b.fences = {}
    BY DEF Closing, Live
  <1>2. TypeOK /\ Valid /\ OneEpoch /\ Succeeded
    BY DEF ClosingInv, KernelInv
  <1>3. b.source = k[1] /\ b.epoch = k[2] /\ b.gen = k[3]
    BY <1>1 DEF Key
  <1>4. /\ \A j \in DOMAIN cursors : j[3] \in Nat /\ j = <<j[1], j[2], j[3]>>
        /\ \A s \in DOMAIN sources : s = <<s[1], s[2]>>
    BY <1>2, PublicationAssumption, MaxUint64Assumption DEF TypeOK, IsMap, CursorKey, SourceKey
  <1>5. /\ <<k[1], k[2]>> \in DOMAIN sources /\ k \notin DOMAIN fences
        /\ \A j \in DOMAIN cursors : j[1] = k[1] /\ j[2] = k[2] /\ j # k => cursors[j].fenced
    BY <1>1, <1>2, ValidOwners
  <1>6. \A s \in DOMAIN sources : s[1] = k[1] /\ s[2] # k[2] => sources[s].state # "current"
    BY <1>1, <1>2, <1>5 DEF OneEpoch
  <1>7. \A j \in DOMAIN cursors : j[1] = k[1] /\ j[2] = k[2] => ~(k[3] < j[3])
    BY <1>1, <1>2 DEF Succeeded
  <1>8. FencedKeys(b) = DOMAIN b.fences
    BY <1>1 DEF FencedKeys
  <1>9. \A s \in DOMAIN sources : s[1] = k[1] /\ s[2] = k[2] => s = <<k[1], k[2]>>
    BY <1>4
  <1>10. k[3] \in Nat
    BY <1>1, <1>4
  <1> QED
    BY <1>1, <1>3, <1>5, <1>6, <1>7, <1>8, <1>9, <1>10 DEF Sole

\* Normalisation leaves no revision out of its width if those that move have a
\* next one.
LEMMA NormalizedWithin ==
    ASSUME NEW before, NEW after, DOMAIN after = DOMAIN before,
           \A x \in DOMAIN before : /\ IsRecord(before[x]) /\ before[x].revision \in Revision
                                    /\ IsRecord(after[x])
                                    /\ after[x] # before[x] => before[x].revision < MaxUint64
    PROVE  /\ DOMAIN Normalized(before, after) = DOMAIN before
           /\ ~Overflows(Normalized(before, after))
           /\ \A x \in DOMAIN before :
                 /\ after[x] = before[x] => Normalized(before, after)[x] = before[x]
                 /\ \A f \in DOMAIN after[x] :
                       f # "revision" => Normalized(before, after)[x][f] = after[x][f]
  <1> DEFINE new == Normalized(before, after)
  <1>1. \A x \in DOMAIN before : before[x].revision \in Nat /\ before[x].revision <= MaxUint64
    BY MaxUint64Assumption DEF Revision
  <1>2. /\ DOMAIN new = DOMAIN after
        /\ \A x \in DOMAIN after : \A f \in DOMAIN after[x] :
              f # "revision" => new[x][f] = after[x][f]
        /\ \A x \in DOMAIN after \cap DOMAIN before : after[x] = before[x] => new[x] = before[x]
        /\ Exact(before, new)
    BY <1>1, NormalizedIsExact
  <1> HIDE DEF new
  <1>3. ASSUME NEW x \in DOMAIN before PROVE ~(new[x].revision > MaxUint64)
    <2>1. new[x].revision = before[x].revision + (IF SameContent(before[x], new[x]) THEN 0 ELSE 1)
      BY <1>2 DEF Exact
    <2>2. CASE after[x] = before[x]
      BY <1>1, <1>2, <2>2, MaxUint64Assumption
    <2>3. CASE after[x] # before[x]
      BY <1>1, <2>1, <2>3, MaxUint64Assumption
    <2> QED
      BY <2>2, <2>3
  <1> QED
    BY <1>2, <1>3 DEF Overflows, new

\* The kinds of what the snapshot holds.
LEMMA KernelKinds ==
    ASSUME TypeOK
    PROVE  /\ IsMap(sources, SourceKey, WideSource) /\ IsMap(bindings, Binding, WideBinding)
           /\ IsMap(links, Binding, WideLink) /\ IsMap(services, Service, WideService)
           /\ IsMap(capabilities, Capability, WideCapability)
           /\ \A x \in DOMAIN sources : sources[x].revision \in Revision
           /\ \A x \in DOMAIN bindings : bindings[x].revision \in Revision
           /\ \A x \in DOMAIN links : links[x].revision \in Revision
           /\ \A x \in DOMAIN services : services[x].revision \in Revision
           /\ \A x \in DOMAIN capabilities : capabilities[x].revision \in Revision
  <1>1. /\ IsMap(sources, SourceKey, SourceRecord) /\ IsMap(bindings, Binding, BindingRecord)
        /\ IsMap(links, Binding, LinkRecord) /\ IsMap(services, Service, ServiceRecord)
        /\ IsMap(capabilities, Capability, CapabilityRecord)
    BY DEF TypeOK
  <1>2. /\ IsMap(sources, SourceKey, WideSource) /\ IsMap(bindings, Binding, WideBinding)
        /\ IsMap(links, Binding, WideLink) /\ IsMap(services, Service, WideService)
        /\ IsMap(capabilities, Capability, WideCapability)
    BY <1>1, RecordsAreWide, WiderIsMap
  <1>3. \A x \in DOMAIN sources : sources[x].revision \in Revision
    BY <1>1 DEF IsMap, SourceRecord
  <1>4. \A x \in DOMAIN bindings : bindings[x].revision \in Revision
    BY <1>1 DEF IsMap, BindingRecord
  <1>5. \A x \in DOMAIN links : links[x].revision \in Revision
    BY <1>1 DEF IsMap, LinkRecord
  <1>6. \A x \in DOMAIN services : services[x].revision \in Revision
    BY <1>1 DEF IsMap, ServiceRecord
  <1>7. \A x \in DOMAIN capabilities : capabilities[x].revision \in Revision
    BY <1>1 DEF IsMap, CapabilityRecord
  <1> QED
    BY <1>2, <1>3, <1>4, <1>5, <1>6, <1>7

\* Headroom, by its parts.
LEMMA Room ==
    ASSUME NEW b, NEW m, NEW k, NEW evidence, Closing(b, m, k, evidence)
    PROVE  /\ cursors[k].seq < MaxUint64
           /\ \A f \in DOMAIN revisions : revisions[f] < MaxUint64
           /\ \A key \in DOMAIN envelopes : envelopes[key] < MaxUint64
           /\ <<k[1], k[2]>> \in DOMAIN sources => sources[<<k[1], k[2]>>].revision < MaxUint64
           /\ \A id \in TakenOut(b) \cap DOMAIN bindings : bindings[id].revision < MaxUint64
           /\ \A id \in TakenOut(b) \cap DOMAIN links : links[id].revision < MaxUint64
           /\ \A id \in DOMAIN services :
                 services[id].binding \in TakenOut(b) => services[id].revision < MaxUint64
           /\ \A id \in DOMAIN capabilities :
                 capabilities[id].binding \in TakenOut(b) => capabilities[id].revision < MaxUint64
           /\ Cardinality(DOMAIN fences) < Limit["fences"]
           /\ \A id \in TakenOut(b) \cap DOMAIN links :
                 ~(Cardinality(links[id].basis \cup evidence) > MaxEvidence)
  <1>1. Headroom(k, TakenOut(b), evidence, Context(b, m))
    BY DEF Closing
  <1> QED
    BY <1>1, Zenon DEF Headroom

\* Of the sources, only the epoch of the key may end.
LEMMA SourcesAsClosed ==
    ASSUME ClosingInv, NEW b, NEW m, NEW k, NEW evidence, Closing(b, m, k, evidence)
    PROVE  /\ DOMAIN StagedSources(b) = DOMAIN sources
           /\ DOMAIN PostSources(b) = DOMAIN sources /\ ~Overflows(PostSources(b))
           /\ \A s \in DOMAIN sources :
                 PostSources(b)[s].state = IF s = <<k[1], k[2]>> /\ k[2] \in b.retirements
                                           THEN "retired" ELSE sources[s].state
  <1>0. Sole(b, k)
    BY ClosingKey
  <1>1. /\ IsMap(sources, SourceKey, WideSource)
        /\ \A s \in DOMAIN sources : sources[s].revision \in Revision
    BY KernelKinds DEF ClosingInv, KernelInv
  <1>2. With(sources, b.sourceUpserts) = sources
    BY <1>1, WithNothing DEF Closing, IsMap
  <1>3. \A s \in DOMAIN sources : Retiring(b, s) <=> s = <<k[1], k[2]>> /\ k[2] \in b.retirements
    <2>1. b.retirements = {} \/ b.retirements = {k[2]}
      BY DEF Closing
    <2>2. b.source = k[1]
      BY <1>0 DEF Sole
    <2>3. \A s \in DOMAIN sources : s = <<s[1], s[2]>>
      BY <1>1 DEF IsMap, SourceKey
    <2> QED
      BY <2>1, <2>2, <2>3 DEF Retiring
  <1> DEFINE staged == [s \in DOMAIN sources |->
                          IF s = <<k[1], k[2]>> /\ k[2] \in b.retirements
                          THEN Bumped([sources[s] EXCEPT !.state = "retired"]) ELSE sources[s]]
  <1>4. StagedSources(b) = staged
    BY <1>2, <1>3 DEF StagedSources
  <1>5. ASSUME NEW s \in DOMAIN sources
        PROVE  /\ staged[s] \in WideSource
               /\ staged[s].state = IF s = <<k[1], k[2]>> /\ k[2] \in b.retirements
                                    THEN "retired" ELSE sources[s].state
               /\ staged[s] # sources[s] => sources[s].revision < MaxUint64
    <2>1. sources[s] \in WideSource
      BY <1>1 DEF IsMap
    <2>2. [sources[s] EXCEPT !.state = "retired"] \in WideSource
      BY <2>1, SteppedIsWide
    <2>3. /\ Bumped([sources[s] EXCEPT !.state = "retired"]) \in WideSource
          /\ Bumped([sources[s] EXCEPT !.state = "retired"]).state = "retired"
      BY <2>1, <2>2, BumpedIsWide DEF Bumped, WideSource
    <2>4. s = <<k[1], k[2]>> => sources[s].revision < MaxUint64
      BY Room
    <2> QED
      BY <2>1, <2>3, <2>4
  <1> HIDE DEF staged
  <1>6. DOMAIN staged = DOMAIN sources
    BY DEF staged
  <1>7. \A s \in DOMAIN sources : /\ IsRecord(sources[s]) /\ IsRecord(staged[s])
                                  /\ "state" \in DOMAIN staged[s]
    BY <1>1, <1>5, KindsAreRecords DEF IsMap
  <1>8. /\ DOMAIN Normalized(sources, staged) = DOMAIN sources
        /\ ~Overflows(Normalized(sources, staged))
        /\ \A s \in DOMAIN sources : Normalized(sources, staged)[s].state = staged[s].state
    BY <1>1, <1>5, <1>6, <1>7, NormalizedWithin
  <1> QED
    BY <1>4, <1>5, <1>6, <1>8 DEF PostSources

\* The bindings that leave service are those of the generation, or of the epoch.
LEMMA TakenByClosing ==
    ASSUME ClosingInv, NEW b, NEW m, NEW k, NEW evidence, Closing(b, m, k, evidence)
    PROVE  /\ DOMAIN b.fences = {k} => TakenOut(b) = {id \in DOMAIN bindings : KeyOf(bindings[id]) = k}
           /\ DOMAIN b.fences = {} =>
                 TakenOut(b) = {id \in DOMAIN bindings :
                                  <<bindings[id].source, bindings[id].epoch>> = <<k[1], k[2]>>}
           /\ \A id \in DOMAIN bindings :
                 /\ FencedBy(b, bindings[id]) <=> DOMAIN b.fences = {k} /\ KeyOf(bindings[id]) = k
                 /\ RetiredBy(b, bindings[id]) <=>
                       /\ DOMAIN b.fences = {}
                       /\ <<bindings[id].source, bindings[id].epoch>> = <<k[1], k[2]>>
  <1>0. Sole(b, k)
    BY ClosingKey
  <1>1. /\ \/ DOMAIN b.fences = {k} /\ b.retirements = {}
           \/ DOMAIN b.fences = {} /\ b.retirements = {k[2]}
    BY DEF Closing
  <1>2. b.source = k[1] /\ FencedKeys(b) = DOMAIN b.fences /\ <<k[1], k[2]>> \in DOMAIN StagedSources(b)
    BY <1>0, SourcesAsClosed DEF Sole
  <1>3. \A id \in DOMAIN bindings :
           /\ FencedBy(b, bindings[id]) <=> DOMAIN b.fences = {k} /\ KeyOf(bindings[id]) = k
           /\ RetiredBy(b, bindings[id]) <=>
                 /\ DOMAIN b.fences = {}
                 /\ <<bindings[id].source, bindings[id].epoch>> = <<k[1], k[2]>>
    BY <1>1, <1>2 DEF FencedBy, RetiredBy, Retiring
  <1> QED
    BY <1>3 DEF TakenOut, Touched

\* Each of them is fenced, or retired; no other binding is written.
LEMMA BindingsAsClosed ==
    ASSUME ClosingInv, NEW b, NEW m, NEW k, NEW evidence, Closing(b, m, k, evidence)
    PROVE  /\ DOMAIN StagedBindings(b) = DOMAIN bindings
           /\ DOMAIN PostBindings(b) = DOMAIN bindings /\ ~Overflows(PostBindings(b))
           /\ \A id \in DOMAIN bindings :
                 /\ PostBindings(b)[id].source = bindings[id].source
                 /\ PostBindings(b)[id].epoch = bindings[id].epoch
                 /\ PostBindings(b)[id].gen = bindings[id].gen
                 /\ PostBindings(b)[id].state = IF id \notin TakenOut(b) THEN bindings[id].state
                                                ELSE IF DOMAIN b.fences = {k} THEN "fenced" ELSE "retired"
                 /\ \A f \in {"source", "epoch", "gen", "state"} :
                       PostBindings(b)[id][f] = StagedBindings(b)[id][f]
  <1>0. Sole(b, k)
    BY ClosingKey
  <1>1. /\ IsMap(bindings, Binding, WideBinding)
        /\ \A id \in DOMAIN bindings : bindings[id].revision \in Revision
    BY KernelKinds DEF ClosingInv, KernelInv
  <1>2. StagedBindings(b) = TransitionedBindings(b)
    BY WithNothing DEF Closing, StagedBindings, TransitionedBindings
  <1> DEFINE staged == [id \in DOMAIN bindings |-> Transitioned(b, bindings[id])]
  <1>3. DOMAIN b.fences = {k} \/ DOMAIN b.fences = {}
    BY DEF Closing
  <1>4. TypeOK /\ Valid
    BY DEF ClosingInv, KernelInv
  <1>5. ASSUME NEW id \in TakenOut(b)
        PROVE  /\ bindings[id].state # "retired"
               /\ DOMAIN b.fences = {k} => bindings[id].state # "fenced"
    <2>1. id \in DOMAIN bindings
      BY DEF TakenOut
    <2>2. <<bindings[id].source, bindings[id].epoch>> = <<k[1], k[2]>>
      BY <1>0, <1>3, TakenByClosing DEF KeyOf, Sole
    <2>3. bindings[id].state # "retired"
      <3>1. sources[<<k[1], k[2]>>].state = "current"
        BY DEF Closing, Live
      <3>2. bindings[id].state = "retired" =>
               sources[<<bindings[id].source, bindings[id].epoch>>].state = "retired"
        BY <1>4, <2>1, ValidOwners
      <3> QED
        BY <2>2, <3>1, <3>2
    <2>4. ASSUME DOMAIN b.fences = {k} PROVE bindings[id].state # "fenced"
      <3>1. KeyOf(bindings[id]) = k
        BY <2>4, TakenByClosing
      <3> QED
        BY <1>0, <1>4, <2>1, <3>1, ValidOwners DEF Sole
    <2> QED
      BY <2>3, <2>4
  <1>6. ASSUME NEW id \in DOMAIN bindings
        PROVE  /\ staged[id] \in WideBinding /\ KeyOf(staged[id]) = KeyOf(bindings[id])
               /\ staged[id].state = IF id \notin TakenOut(b) THEN bindings[id].state
                                     ELSE IF DOMAIN b.fences = {k} THEN "fenced" ELSE "retired"
               /\ staged[id] # bindings[id] => bindings[id].revision < MaxUint64
    <2> DEFINE r == bindings[id]
    <2>1. r \in WideBinding /\ staged[id] = Transitioned(b, r)
      BY <1>1 DEF IsMap
    <2>2. /\ Transitioned(b, r) \in WideBinding /\ KeyOf(Transitioned(b, r)) = KeyOf(r)
          /\ ~FencedBy(b, r) /\ ~RetiredBy(b, r) => Transitioned(b, r) = r
      BY <2>1, TransitionOfBinding
    <2>3. CASE id \notin TakenOut(b)
      BY <2>1, <2>2, <2>3 DEF TakenOut, Touched
    <2>4. CASE id \in TakenOut(b)
      <3>1. r.revision < MaxUint64
        BY <2>4, Room
      <3>2. CASE DOMAIN b.fences = {k}
        <4>1. FencedBy(b, r) /\ ~RetiredBy(b, r) /\ r.state # "fenced"
          BY <1>5, <2>4, <3>2, TakenByClosing
        <4>2. Transitioned(b, r) = Bumped([r EXCEPT !.state = "fenced"])
          BY <4>1 DEF Transitioned
        <4>3. Bumped([r EXCEPT !.state = "fenced"]).state = "fenced"
          BY <2>1 DEF Bumped, WideBinding
        <4> QED
          BY <2>1, <2>2, <2>4, <3>1, <3>2, <4>2, <4>3
      <3>3. CASE DOMAIN b.fences = {}
        <4>1. ~FencedBy(b, r) /\ RetiredBy(b, r) /\ r.state # "retired"
          BY <1>5, <2>4, <3>3, TakenByClosing
        <4>2. Transitioned(b, r) = Bumped([r EXCEPT !.state = "retired"])
          BY <4>1 DEF Transitioned
        <4>3. Bumped([r EXCEPT !.state = "retired"]).state = "retired"
          BY <2>1 DEF Bumped, WideBinding
        <4> QED
          BY <2>1, <2>2, <2>4, <3>1, <3>3, <4>2, <4>3
      <3> QED
        BY <1>3, <3>2, <3>3
    <2> QED
      BY <2>3, <2>4
  <1>7. staged = TransitionedBindings(b) /\ DOMAIN staged = DOMAIN bindings
    BY DEF TransitionedBindings
  <1> HIDE DEF staged
  <1>8. \A id \in DOMAIN bindings :
           /\ IsRecord(bindings[id]) /\ IsRecord(staged[id])
           /\ {"source", "epoch", "gen", "resource", "state"} \subseteq DOMAIN staged[id]
    BY <1>1, <1>6, KindsAreRecords DEF IsMap
  <1>9. /\ DOMAIN Normalized(bindings, staged) = DOMAIN bindings
        /\ ~Overflows(Normalized(bindings, staged))
        /\ \A id \in DOMAIN bindings : \A f \in {"source", "epoch", "gen", "state"} :
              Normalized(bindings, staged)[id][f] = staged[id][f]
    BY <1>1, <1>6, <1>7, <1>8, NormalizedWithin
  <1>10. PostBindings(b) = Normalized(bindings, staged) /\ StagedBindings(b) = staged
    BY <1>2, <1>7 DEF PostBindings
  <1>11. \A id \in DOMAIN bindings :
            /\ staged[id].source = bindings[id].source
            /\ staged[id].epoch = bindings[id].epoch /\ staged[id].gen = bindings[id].gen
    BY <1>6 DEF KeyOf
  <1> QED
    BY <1>6, <1>7, <1>9, <1>10, <1>11

\* The fence, if there is one, closes the key's own cursor; no other changes.
LEMMA CursorsAsClosed ==
    ASSUME ClosingInv, NEW b, NEW m, NEW k, NEW evidence, Closing(b, m, k, evidence)
    PROVE  /\ DOMAIN PostCursors(b) = DOMAIN cursors
           /\ DOMAIN PostFences(b) = DOMAIN fences \cup DOMAIN b.fences
           /\ \A j \in DOMAIN cursors :
                 PostCursors(b)[j].fenced <=> j \in DOMAIN b.fences \/ cursors[j].fenced
           /\ \A j \in DOMAIN cursors : PostCursors(b)[j].fenced \in BOOLEAN
           /\ ~(Cardinality(DOMAIN PostFences(b)) > Limit["fences"])
  <1>0. Sole(b, k)
    BY ClosingKey
  <1>1. /\ TypeOK /\ Valid /\ Finite /\ b \in Batch /\ Key(b) = k /\ k \in DOMAIN cursors
        /\ DOMAIN b.fences = {k} \/ DOMAIN b.fences = {}
    BY DEF Closing, ClosingInv, KernelInv
  <1>2. /\ DOMAIN PostCursors(b) = DOMAIN cursors \cup {Key(b)}
        /\ \A j \in DOMAIN PostCursors(b) :
              PostCursors(b)[j].fenced <=> j \in DOMAIN b.fences \/ (j # Key(b) /\ cursors[j].fenced)
    BY <1>1, CursorStates
  <1>3. \A j \in DOMAIN PostCursors(b) : PostCursors(b)[j].fenced \in BOOLEAN
    BY <1>1, PostCursorsKind DEF IsMap, CursorRecord
  <1>4. DOMAIN PostFences(b) = DOMAIN fences \cup DOMAIN b.fences
    BY <1>0 DEF PostFences, With, Sole
  <1>5. IsFiniteSet(DOMAIN fences) /\ Cardinality(DOMAIN fences) \in Nat
    <2>1. DOMAIN fences \subseteq DOMAIN cursors
      BY <1>1, ValidOwners
    <2> QED
      BY <1>1, <2>1, FS_Subset, FS_CardinalityType DEF Finite
  <1>6. Cardinality(DOMAIN fences \cup {k}) = Cardinality(DOMAIN fences) + 1
    BY <1>0, <1>5, FS_AddElement DEF Sole
  <1>7. Cardinality(DOMAIN fences) < Limit["fences"] /\ Limit["fences"] \in Nat
    BY Room, PublicationAssumption DEF Collections
  <1>8. DOMAIN PostFences(b) = DOMAIN fences \/ DOMAIN PostFences(b) = DOMAIN fences \cup {k}
    BY <1>1, <1>4
  <1>9. ~(Cardinality(DOMAIN PostFences(b)) > Limit["fences"])
    BY <1>5, <1>6, <1>7, <1>8
  <1>10. ~cursors[k].fenced
    BY <1>0 DEF Sole
  <1> QED
    BY <1>1, <1>2, <1>3, <1>4, <1>9, <1>10

\* The links of those bindings are withdrawn, with the evidence of the fence; no
\* other link is written.
LEMMA LinksAsClosed ==
    ASSUME ClosingInv, NEW b, NEW m, NEW k, NEW evidence, Closing(b, m, k, evidence)
    PROVE  /\ DOMAIN PostLinks(b) = DOMAIN links /\ ~Overflows(PostLinks(b))
           /\ \A id \in DOMAIN links :
                 PostLinks(b)[id].state = IF id \in TakenOut(b) THEN "withdrawn" ELSE links[id].state
           /\ TransitionErrors(b) = {}
  <1>1. /\ IsMap(links, Binding, WideLink)
        /\ \A id \in DOMAIN links : links[id].revision \in Revision
    BY KernelKinds DEF ClosingInv, KernelInv
  <1>2. /\ b \in Batch /\ DOMAIN b.linkUpserts = {}
        /\ \A id \in TakenOut(b) : FenceEvidence(b, id) = evidence
    BY DEF Closing
  <1>3. \A id : Touched(b, id) <=> id \in TakenOut(b)
    BY DEF TakenOut, Touched
  <1> DEFINE staged == [id \in DOMAIN links |->
                          IF Touched(b, id) THEN WithdrawnLink(links[id], FenceEvidence(b, id))
                                            ELSE links[id]]
  <1>4. With(TransitionedLinks(b), b.linkUpserts) = staged
    BY <1>2, WithNothing DEF TransitionedLinks
  <1>5. \A id \in TakenOut(b) : FenceEvidence(b, id) \in SUBSET Evidence
    BY <1>2, BatchMaps DEF TakenOut, FenceEvidence, FencedBy, FencedKeys, IsMap
  <1>6. ASSUME NEW id \in DOMAIN links
        PROVE  /\ staged[id] \in WideLink
               /\ staged[id].state = IF id \in TakenOut(b) THEN "withdrawn" ELSE links[id].state
               /\ staged[id] # links[id] => links[id].revision < MaxUint64
    <2> DEFINE l == links[id]
               w == [l EXCEPT !.state = "withdrawn", !.basis = @ \cup FenceEvidence(b, id)]
    <2>1. l \in WideLink
      BY <1>1 DEF IsMap
    <2>2. CASE id \notin TakenOut(b)
      BY <1>3, <2>1, <2>2
    <2>3. CASE id \in TakenOut(b)
      <3>1. l.revision < MaxUint64
        BY <2>3, Room
      <3>2. staged[id] = WithdrawnLink(l, FenceEvidence(b, id))
        BY <1>3, <2>3
      <3>3. w \in WideLink /\ w.state = "withdrawn"
        BY <1>5, <2>1, <2>3 DEF WideLink
      <3>4. Bumped(w) \in WideLink /\ Bumped(w).state = "withdrawn"
        <4> HIDE DEF w
        <4> QED
          BY <3>3, BumpedIsWide DEF Bumped, WideLink
      <3>5. \/ WithdrawnLink(l, FenceEvidence(b, id)) = l /\ l.state = "withdrawn"
            \/ WithdrawnLink(l, FenceEvidence(b, id)) = Bumped(w)
        BY DEF WithdrawnLink
      <3> HIDE DEF w
      <3> QED
        BY <2>1, <2>3, <3>1, <3>2, <3>4, <3>5
    <2> QED
      BY <2>2, <2>3
  <1>7. DOMAIN staged = DOMAIN links
    OBVIOUS
  <1> HIDE DEF staged
  <1>8. \A id \in DOMAIN links : /\ IsRecord(links[id]) /\ IsRecord(staged[id])
                                 /\ "state" \in DOMAIN staged[id]
    BY <1>1, <1>6, KindsAreRecords DEF IsMap
  <1>9. /\ DOMAIN Normalized(links, staged) = DOMAIN links
        /\ ~Overflows(Normalized(links, staged))
        /\ \A id \in DOMAIN links : Normalized(links, staged)[id].state = staged[id].state
    BY <1>1, <1>6, <1>7, <1>8, NormalizedWithin
  <1>10. PostLinks(b) = Normalized(links, staged)
    BY <1>4 DEF PostLinks
  <1>11. ~\E id \in DOMAIN links :
             /\ Touched(b, id)
             /\ Cardinality(links[id].basis \cup FenceEvidence(b, id)) > MaxEvidence
    <2> SUFFICES ASSUME NEW id \in DOMAIN links, Touched(b, id)
                 PROVE  ~(Cardinality(links[id].basis \cup FenceEvidence(b, id)) > MaxEvidence)
      OBVIOUS
    <2>1. id \in TakenOut(b) \cap DOMAIN links /\ FenceEvidence(b, id) = evidence
      BY <1>2, <1>3
    <2>2. ~(Cardinality(links[id].basis \cup evidence) > MaxEvidence)
      BY <2>1, Room
    <2> QED
      BY <2>1, <2>2
  <1>12. TransitionErrors(b) = {}
    BY <1>11, Zenon DEF TransitionErrors, Flag
  <1> QED
    BY <1>6, <1>9, <1>10, <1>12

\* A withdrawal writes the availability and the revision.
LEMMA WithdrawalWrites ==
    ASSUME NEW o \in WideService \cup WideCapability
    PROVE  \A f \in DOMAIN o : f \notin {"revision", "availability"} => Withdrawn(o)[f] = o[f]
  BY DEF Withdrawn, Bumped, WideService, WideCapability

\* The objects of the bindings that leave service are withdrawn; no other changes.
ObjectsClosed(b, objects, new) ==
    /\ DOMAIN new = DOMAIN objects /\ ~Overflows(new)
    /\ \A id \in DOMAIN objects :
          /\ \A f \in DOMAIN objects[id] :
                f \notin {"revision", "availability"} => new[id][f] = objects[id][f]
          /\ new[id].availability = IF objects[id].binding \in TakenOut(b) THEN "withdrawn"
                                    ELSE objects[id].availability

\* Services and capabilities alike: those of the bindings are withdrawn and no
\* other is written.
LEMMA ObjectsAsClosed ==
    ASSUME NEW b, NEW objects, NEW upserts, DOMAIN upserts = {},
           \A id \in DOMAIN objects :
              /\ objects[id] \in WideService \cup WideCapability
              /\ objects[id].revision \in Revision
              /\ objects[id].binding \in TakenOut(b) => objects[id].revision < MaxUint64
    PROVE  ObjectsClosed(b, objects, Normalized(objects, StagedObjects(b, objects, upserts, {})))
  <1> DEFINE staged == [id \in DOMAIN objects |->
                          IF Touched(b, objects[id].binding) THEN Withdrawn(objects[id])
                                                             ELSE objects[id]]
  <1>1. \A id : Touched(b, id) <=> id \in TakenOut(b)
    BY DEF TakenOut, Touched
  <1>2. StagedObjects(b, objects, upserts, {}) = staged
    <2>1. With(staged, upserts) = staged
      BY WithNothing
    <2>2. StagedObjects(b, objects, upserts, {}) =
             [id \in DOMAIN With(staged, upserts) |->
                IF id \in {} \cap DOMAIN objects THEN Withdrawn(With(staged, upserts)[id])
                                                 ELSE With(staged, upserts)[id]]
      BY DEF StagedObjects
    <2> QED
      BY <2>1, <2>2
  <1>3. DOMAIN staged = DOMAIN objects
    OBVIOUS
  <1>4. ASSUME NEW id \in DOMAIN objects
        PROVE  /\ staged[id] \in WideService \cup WideCapability
               /\ \A f \in DOMAIN objects[id] :
                     f \notin {"revision", "availability"} => staged[id][f] = objects[id][f]
               /\ staged[id].availability = IF objects[id].binding \in TakenOut(b) THEN "withdrawn"
                                            ELSE objects[id].availability
               /\ staged[id] # objects[id] => objects[id].revision < MaxUint64
               /\ DOMAIN objects[id] \subseteq DOMAIN staged[id]
    <2>1. CASE objects[id].binding \in TakenOut(b)
      <3>1. staged[id] = Withdrawn(objects[id])
        BY <1>1, <2>1
      <3>2. DOMAIN objects[id] \subseteq DOMAIN Withdrawn(objects[id])
        BY DEF Withdrawn, Bumped
      <3> QED
        BY <2>1, <3>1, <3>2, WithdrawnObject, WithdrawalWrites
    <2>2. CASE objects[id].binding \notin TakenOut(b)
      BY <1>1, <2>2
    <2> QED
      BY <2>1, <2>2
  <1> HIDE DEF staged
  <1>5. \A o \in WideService \cup WideCapability : IsRecord(o) /\ "availability" \in DOMAIN o
    BY KindsAreRecords
  <1>6. /\ DOMAIN Normalized(objects, staged) = DOMAIN objects
        /\ ~Overflows(Normalized(objects, staged))
        /\ \A id \in DOMAIN objects : \A f \in DOMAIN staged[id] :
              f # "revision" => Normalized(objects, staged)[id][f] = staged[id][f]
    BY <1>3, <1>4, <1>5, NormalizedWithin
  <1>7. \A id \in DOMAIN objects :
           /\ \A f \in DOMAIN objects[id] : f \notin {"revision", "availability"} =>
                 Normalized(objects, staged)[id][f] = objects[id][f]
           /\ Normalized(objects, staged)[id].availability = staged[id].availability
    BY <1>4, <1>5, <1>6
  <1> QED
    BY <1>2, <1>4, <1>6, <1>7 DEF ObjectsClosed

\* Services and capabilities of the closing commit.
LEMMA ServicesAsClosed ==
    ASSUME ClosingInv, NEW b, NEW m, NEW k, NEW evidence, Closing(b, m, k, evidence)
    PROVE  /\ DOMAIN PostServices(b) = DOMAIN services /\ ~Overflows(PostServices(b))
           /\ \A id \in DOMAIN services :
                 /\ PostServices(b)[id].binding = services[id].binding
                 /\ PostServices(b)[id].epoch = services[id].epoch
                 /\ PostServices(b)[id].gen = services[id].gen
                 /\ PostServices(b)[id].availability =
                       IF services[id].binding \in TakenOut(b) THEN "withdrawn"
                                                               ELSE services[id].availability
  <1>1. DOMAIN b.serviceUpserts = {} /\ b.serviceWithdrawals = {}
    BY DEF Closing
  <1>2. \A id \in DOMAIN services : services[id] \in WideService /\ services[id].revision \in Revision
    BY KernelKinds DEF ClosingInv, KernelInv, IsMap
  <1>3. \A id \in DOMAIN services :
           services[id].binding \in TakenOut(b) => services[id].revision < MaxUint64
    BY Room
  <1>4. PostServices(b) = Normalized(services, StagedObjects(b, services, b.serviceUpserts, {}))
    BY <1>1 DEF PostServices, StagedServices
  <1>5. \A id \in DOMAIN services : {"binding", "epoch", "gen"} \subseteq DOMAIN services[id]
    BY <1>2 DEF WideService
  <1>6. \A id \in DOMAIN services :
           /\ services[id] \in WideService \cup WideCapability
           /\ services[id].revision \in Revision
           /\ services[id].binding \in TakenOut(b) => services[id].revision < MaxUint64
    BY <1>2, <1>3
  <1>7. ObjectsClosed(b, services, PostServices(b))
    BY <1>1, <1>4, <1>6, ObjectsAsClosed
  <1> QED
    BY <1>5, <1>7 DEF ObjectsClosed

\* The same for capabilities, which keep their service.
LEMMA CapabilitiesAsClosed ==
    ASSUME ClosingInv, NEW b, NEW m, NEW k, NEW evidence, Closing(b, m, k, evidence)
    PROVE  /\ DOMAIN PostCapabilities(b) = DOMAIN capabilities /\ ~Overflows(PostCapabilities(b))
           /\ \A id \in DOMAIN capabilities :
                 /\ PostCapabilities(b)[id].service = capabilities[id].service
                 /\ PostCapabilities(b)[id].binding = capabilities[id].binding
                 /\ PostCapabilities(b)[id].epoch = capabilities[id].epoch
                 /\ PostCapabilities(b)[id].gen = capabilities[id].gen
                 /\ PostCapabilities(b)[id].availability =
                       IF capabilities[id].binding \in TakenOut(b) THEN "withdrawn"
                                                                   ELSE capabilities[id].availability
  <1>1. DOMAIN b.capabilityUpserts = {} /\ b.capabilityWithdrawals = {}
    BY DEF Closing
  <1>2. \A id \in DOMAIN capabilities :
           capabilities[id] \in WideCapability /\ capabilities[id].revision \in Revision
    BY KernelKinds DEF ClosingInv, KernelInv, IsMap
  <1>3. \A id \in DOMAIN capabilities :
           capabilities[id].binding \in TakenOut(b) => capabilities[id].revision < MaxUint64
    BY Room
  <1>4. PostCapabilities(b) =
           Normalized(capabilities, StagedObjects(b, capabilities, b.capabilityUpserts, {}))
    BY <1>1 DEF PostCapabilities, StagedCapabilities
  <1>5. \A id \in DOMAIN capabilities :
           {"service", "binding", "epoch", "gen"} \subseteq DOMAIN capabilities[id]
    BY <1>2 DEF WideCapability
  <1>6. \A id \in DOMAIN capabilities :
           /\ capabilities[id] \in WideService \cup WideCapability
           /\ capabilities[id].revision \in Revision
           /\ capabilities[id].binding \in TakenOut(b) => capabilities[id].revision < MaxUint64
    BY <1>2, <1>3
  <1>7. ObjectsClosed(b, capabilities, PostCapabilities(b))
    BY <1>1, <1>4, <1>6, ObjectsAsClosed
  <1> QED
    BY <1>5, <1>7 DEF ObjectsClosed

\* The candidates that rest on what leaves service go, and nothing else changes:
\* what is left resolves, in the snapshot as it is staged and as it is committed.
LEMMA CandidatesAsClosed ==
    ASSUME ClosingInv, NEW b, NEW m, NEW k, NEW evidence, Closing(b, m, k, evidence)
    PROVE  /\ DOMAIN PostCandidates(b) \subseteq DOMAIN candidates
           /\ \A id \in DOMAIN PostCandidates(b) : PostCandidates(b)[id] = candidates[id]
           /\ CloseErrors(StagedCandidates(b), DOMAIN b.factUpserts, StagedBindings(b)) = {}
           /\ CloseErrors(PostCandidates(b), DOMAIN PostCandidates(b), PostBindings(b)) = {}
  <1> DEFINE left == Closed(candidates, {}, StagedBindings(b))
  <1>1. /\ TypeOK /\ Valid /\ DOMAIN b.factUpserts = {} /\ b.factWithdrawals = {}
    BY DEF Closing, ClosingInv, KernelInv
  <1>2. IsMap(candidates, Candidate, CandidateRecord) /\ IsFiniteSet(DOMAIN candidates)
    BY <1>1, PublicationAssumption, FS_Subset DEF TypeOK, IsMap
  <1>3. StagedCandidates(b) = candidates
    <2>1. With(candidates, b.factUpserts) = candidates
      BY <1>1, <1>2, WithNothing DEF IsMap
    <2> QED
      BY <1>1, <1>2, <2>1 DEF StagedCandidates, Without, IsMap
  <1>4. PostCandidates(b) = left
    BY <1>1, <1>3 DEF PostCandidates
  <1>5. DOMAIN left \subseteq DOMAIN candidates /\ \A id \in DOMAIN left : left[id] = candidates[id]
    BY DEF Closed
  <1>6. /\ ~(Cardinality(DOMAIN candidates) > 2 * MaxNodes)
        /\ ~(Cardinality(DOMAIN candidates) > MaxNodes)
    <2>1. CloseErrors(candidates, DOMAIN candidates, bindings) = {}
      BY <1>1 DEF Valid, SnapshotErrors
    <2>2. DOMAIN Closed(candidates, DOMAIN candidates, bindings) = DOMAIN candidates
      BY DEF Closed
    <2> QED
      BY <2>1, <2>2 DEF CloseErrors, Flag
  <1>7. Cardinality(DOMAIN candidates) \in Nat /\ MaxNodes \in Nat
    BY <1>2, FS_CardinalityType, GraphAssumption
  <1>8. /\ IsFiniteSet(DOMAIN left) /\ Cardinality(DOMAIN left) \in Nat
        /\ Cardinality(DOMAIN left) <= Cardinality(DOMAIN candidates)
    BY <1>2, <1>5, FS_Subset, FS_CardinalityType
  <1>9. ~(Cardinality(DOMAIN left) > 2 * MaxNodes) /\ ~(Cardinality(DOMAIN left) > MaxNodes)
    BY <1>6, <1>7, <1>8
  <1>10. \A id \in DOMAIN left : NodeErrors(left, PostBindings(b), id) = {}
    <2>1. /\ DOMAIN StagedBindings(b) = DOMAIN PostBindings(b)
          /\ \A id \in DOMAIN PostBindings(b) :
                /\ PostBindings(b)[id].source = StagedBindings(b)[id].source
                /\ PostBindings(b)[id].epoch = StagedBindings(b)[id].epoch
                /\ PostBindings(b)[id].gen = StagedBindings(b)[id].gen
                /\ PostBindings(b)[id].state = StagedBindings(b)[id].state
      BY BindingsAsClosed
    <2>2. \A c : PathErrors(c, PostBindings(b)) = PathErrors(c, StagedBindings(b))
      BY <2>1 DEF PathErrors, LifecycleError
    <2> QED
      BY <1>2, <2>2, ClosedStaysClosed
  <1> HIDE DEF left
  <1>11. CloseErrors(candidates, {}, StagedBindings(b)) = {}
    BY <1>6, <1>9 DEF CloseErrors, Flag, left
  <1>12. CloseErrors(left, DOMAIN left, PostBindings(b)) = {}
    <2>1. DOMAIN Closed(left, DOMAIN left, PostBindings(b)) = DOMAIN left
      BY DEF Closed
    <2>2. UNION {NodeErrors(left, PostBindings(b), id) : id \in DOMAIN left \cap DOMAIN left} = {}
      BY <1>10
    <2> QED
      BY <1>9, <2>1, <2>2 DEF CloseErrors, Flag
  <1> QED
    BY <1>1, <1>3, <1>4, <1>5, <1>11, <1>12

\* No envelope is new, and none moves past the end of its width.
LEMMA EnvelopesAsClosed ==
    ASSUME ClosingInv, NEW b, NEW m, NEW k, NEW evidence, Closing(b, m, k, evidence)
    PROVE  /\ \A key \in DOMAIN PostEnvelopes(b) : ~(PostEnvelopes(b)[key] > MaxUint64)
           /\ ~(Cardinality(DOMAIN PostEnvelopes(b)) > Limit["envelopes"])
  <1> DEFINE post == PostCandidates(b)
  <1>1. /\ DOMAIN post \subseteq DOMAIN candidates
        /\ \A id \in DOMAIN post : post[id] = candidates[id]
    BY CandidatesAsClosed
  <1>2. /\ TypeOK /\ Fits /\ Enveloped
    BY DEF ClosingInv, KernelInv
  <1>3. /\ DOMAIN PostEnvelopes(b) = {post[id].key : id \in DOMAIN post}
        /\ \A key \in DOMAIN PostEnvelopes(b) :
              PostEnvelopes(b)[key] = IF key \notin DOMAIN envelopes THEN 1
                                      ELSE IF Group(candidates, key) = Group(post, key)
                                           THEN envelopes[key] ELSE envelopes[key] + 1
    BY DEF PostEnvelopes
  <1> HIDE DEF post
  <1>4. DOMAIN PostEnvelopes(b) \subseteq DOMAIN envelopes
    BY <1>1, <1>2, <1>3 DEF Enveloped
  <1>5. \A key \in DOMAIN envelopes : envelopes[key] \in Revision /\ envelopes[key] < MaxUint64
    BY <1>2, Room DEF TypeOK, IsMap
  <1>6. \A key \in DOMAIN PostEnvelopes(b) : ~(PostEnvelopes(b)[key] > MaxUint64)
    BY <1>3, <1>4, <1>5, MaxUint64Assumption DEF Revision
  <1>7. IsFiniteSet(DOMAIN envelopes)
    <2> DEFINE name == [id \in DOMAIN candidates |-> candidates[id].key]
    <2>1. IsFiniteSet(DOMAIN candidates)
      BY <1>2, PublicationAssumption, FS_Subset DEF TypeOK, IsMap
    <2>2. /\ name \in [DOMAIN candidates -> DOMAIN envelopes]
          /\ \A key \in DOMAIN envelopes : \E id \in DOMAIN candidates : name[id] = key
      BY <1>2 DEF Enveloped
    <2>3. name \in Surjection(DOMAIN candidates, DOMAIN envelopes)
      BY <2>2 DEF Surjection
    <2> QED
      BY <2>1, <2>3, FS_Surjection
  <1>8. /\ Cardinality(DOMAIN PostEnvelopes(b)) <= Cardinality(DOMAIN envelopes)
        /\ Cardinality(DOMAIN PostEnvelopes(b)) \in Nat /\ Cardinality(DOMAIN envelopes) \in Nat
    BY <1>4, <1>7, FS_Subset, FS_CardinalityType
  <1>9. ~(Cardinality(DOMAIN envelopes) > Limit["envelopes"]) /\ Limit["envelopes"] \in Nat
    BY <1>2, PublicationAssumption DEF Fits, Collections
  <1> QED
    BY <1>6, <1>8, <1>9

\* The observations on the bindings that leave service, and the ages they and
\* the history have at the publication.
Left(b) == {id \in DOMAIN candidates : /\ Observed(candidates[id])
                                       /\ candidates[id].binding \in TakenOut(b)}
AgeOf(id, b, m) == EvaluateFreshness(candidates[id].times, candidates[id].policy, Context(b, m))
AgeOfKept(rid, b, m) == RetainedFreshness(retained[rid], Context(b, m))

\* Headroom, the part about observations.
LEMMA RoomForHistory ==
    ASSUME NEW b, NEW m, NEW k, NEW evidence, Closing(b, m, k, evidence)
    PROVE  /\ \A id \in Left(b) : AgeOf(id, b, m) # "invalid_time"
           /\ \A rid \in DOMAIN retained : AgeOfKept(rid, b, m) # "invalid_time"
           /\ Cardinality({id \in Left(b) : AgeOf(id, b, m) # "expired"})
                 + Cardinality({rid \in DOMAIN retained : AgeOfKept(rid, b, m) # "expired"})
              <= Limit["retained"]
  <1> DEFINE ages == [id \in Left(b) |-> AgeOf(id, b, m)]
             old  == [rid \in DOMAIN retained |-> AgeOfKept(rid, b, m)]
  <1>1. Headroom(k, TakenOut(b), evidence, Context(b, m))
    BY DEF Closing
  <1>2. /\ \A id \in Left(b) : ages[id] # "invalid_time"
        /\ \A rid \in DOMAIN retained : old[rid] # "invalid_time"
        /\ Cardinality({id \in Left(b) : ages[id] # "expired"})
              + Cardinality({rid \in DOMAIN retained : old[rid] # "expired"}) <= Limit["retained"]
    BY <1>1, Zenon DEF Headroom, Left, AgeOf, AgeOfKept
  <1>3. /\ \A id \in Left(b) : ages[id] = AgeOf(id, b, m)
        /\ \A rid \in DOMAIN retained : old[rid] = AgeOfKept(rid, b, m)
    OBVIOUS
  <1> HIDE DEF ages, old
  <1>4. /\ {id \in Left(b) : ages[id] # "expired"} = {id \in Left(b) : AgeOf(id, b, m) # "expired"}
        /\ {rid \in DOMAIN retained : old[rid] # "expired"}
              = {rid \in DOMAIN retained : AgeOfKept(rid, b, m) # "expired"}
    BY <1>3
  <1> QED
    BY <1>2, <1>3, <1>4

\* What the batch files is what is left behind, under its own identity.
FiledAs(rid, id, b) ==
    /\ rid = RetainedID(id, candidates[id])
    /\ NewlyRetained(b)[rid].candidate = candidates[id]
    /\ NewlyRetained(b)[rid].removal = Removal(StagedBindings(b)[candidates[id].binding])

\* The cascade files nothing but observations whose own binding leaves service.
LEMMA LeftIsFiled ==
    ASSUME ClosingInv, NEW b, NEW m, NEW k, NEW evidence, Closing(b, m, k, evidence)
    PROVE  \A rid \in DOMAIN NewlyRetained(b) : \E id \in Left(b) : FiledAs(rid, id, b)
  <1> DEFINE after == StagedBindings(b)
             ids == Leaving(DOMAIN candidates \ b.factWithdrawals, after)
  <1>1. Valid
    BY DEF ClosingInv, KernelInv
  <1>2. ids \subseteq Left(b)
    <2> SUFFICES ASSUME NEW id \in ids PROVE id \in Left(b)
      OBVIOUS
    <2>1. /\ id \in DOMAIN candidates /\ Observed(candidates[id])
          /\ candidates[id].binding \in DOMAIN after
          /\ after[candidates[id].binding].state # "current"
      BY DEF Leaving
    <2>2. PathErrors(candidates[id], bindings) = {}
      BY <1>1, <2>1, ValidPaths
    <2>3. candidates[id].binding \in DOMAIN bindings /\ bindings[candidates[id].binding].state = "current"
      BY <2>2 DEF PathErrors
    <2>4. candidates[id].binding \in TakenOut(b)
      BY <2>1, <2>3, BindingsAsClosed
    <2> QED
      BY <2>1, <2>4 DEF Left
  <1>3. NewlyRetained(b) = [rid \in {RetainedID(id, candidates[id]) : id \in ids} |->
                              [cand |-> rid[1], candidate |-> candidates[rid[1]],
                               removal |-> Removal(after[rid[4]])]]
    BY DEF NewlyRetained, Retaining
  <1> HIDE DEF ids, after
  <1>4. ASSUME NEW rid \in DOMAIN NewlyRetained(b)
        PROVE  \E id \in ids : /\ rid = RetainedID(id, candidates[id])
                               /\ NewlyRetained(b)[rid].candidate = candidates[id]
                               /\ NewlyRetained(b)[rid].removal = Removal(after[candidates[id].binding])
    <2>1. PICK id \in ids : rid = RetainedID(id, candidates[id])
      BY <1>3
    <2>2. rid[1] = id /\ rid[4] = candidates[id].binding
      BY <2>1 DEF RetainedID
    <2>3. NewlyRetained(b)[rid] = [cand |-> rid[1], candidate |-> candidates[rid[1]],
                                   removal |-> Removal(after[rid[4]])]
      BY <1>3
    <2> QED
      BY <2>1, <2>2, <2>3
  <1> QED
    BY <1>2, <1>4 DEF FiledAs, after

\* There is room for what the batch files, and its age can be told.
LEMMA RetainedAsClosed ==
    ASSUME ClosingInv, NEW b, NEW m, NEW k, NEW evidence, Closing(b, m, k, evidence)
    PROVE  /\ RetentionErrors(b, m) = {}
           /\ ~(Cardinality(DOMAIN PostRetained(b, m)) > Limit["retained"])
  <1> DEFINE new == NewlyRetained(b)
             staged == StagedRetained(b)
             young == {id \in Left(b) : AgeOf(id, b, m) # "expired"}
             kept  == {rid \in DOMAIN retained : AgeOfKept(rid, b, m) # "expired"}
             names == {RetainedID(id, candidates[id]) : id \in young}
  <1>1. TypeOK /\ Finite /\ b.factWithdrawals = {}
    BY DEF ClosingInv, KernelInv, Closing
  <1>2. /\ DOMAIN staged = DOMAIN retained \cup DOMAIN new
        /\ \A rid \in DOMAIN staged : staged[rid] = IF rid \in DOMAIN new THEN new[rid] ELSE retained[rid]
    BY <1>1 DEF StagedRetained, With, Without
  <1>3. ASSUME NEW rid \in DOMAIN new
        PROVE  \E id \in Left(b) : /\ rid = RetainedID(id, candidates[id])
                                   /\ RetainedFreshness(new[rid], Context(b, m)) = AgeOf(id, b, m)
    <2>1. PICK id \in Left(b) : FiledAs(rid, id, b)
      BY LeftIsFiled
    <2> QED
      BY <2>1 DEF FiledAs, RetainedFreshness, AgeOf
  <1> HIDE DEF new, staged
  <1>4. ~\E rid \in DOMAIN staged : RetainedFreshness(staged[rid], Context(b, m)) = "invalid_time"
    <2> SUFFICES ASSUME NEW rid \in DOMAIN staged
                 PROVE  RetainedFreshness(staged[rid], Context(b, m)) # "invalid_time"
      OBVIOUS
    <2>1. CASE rid \in DOMAIN new
      BY <1>2, <1>3, <2>1, RoomForHistory
    <2>2. CASE rid \notin DOMAIN new
      BY <1>2, <2>2, RoomForHistory DEF AgeOfKept
    <2> QED
      BY <2>1, <2>2
  <1>5. DOMAIN PostRetained(b, m) \subseteq names \cup kept
    <2> SUFFICES ASSUME NEW rid \in DOMAIN PostRetained(b, m) PROVE rid \in names \cup kept
      OBVIOUS
    <2>1. rid \in DOMAIN staged /\ RetainedFreshness(staged[rid], Context(b, m)) # "expired"
      BY DEF PostRetained, Without, staged
    <2>2. CASE rid \in DOMAIN new
      <3>1. PICK id \in Left(b) : /\ rid = RetainedID(id, candidates[id])
                                  /\ RetainedFreshness(new[rid], Context(b, m)) = AgeOf(id, b, m)
        BY <1>3, <2>2
      <3>2. id \in young
        BY <1>2, <2>1, <2>2, <3>1
      <3> QED
        BY <3>1, <3>2
    <2>3. CASE rid \notin DOMAIN new
      BY <1>2, <2>1, <2>3 DEF AgeOfKept
    <2> QED
      BY <2>2, <2>3
  <1>6. IsFiniteSet(young) /\ IsFiniteSet(kept)
    <2>1. young \subseteq DOMAIN candidates /\ kept \subseteq DOMAIN retained
      BY DEF Left
    <2>2. IsFiniteSet(DOMAIN candidates) /\ IsFiniteSet(DOMAIN retained)
      BY <1>1, PublicationAssumption, FS_Subset DEF TypeOK, IsMap, Finite
    <2> QED
      BY <2>1, <2>2, FS_Subset
  <1>7. IsFiniteSet(names) /\ Cardinality(names) <= Cardinality(young)
    <2> DEFINE name == [id \in young |-> RetainedID(id, candidates[id])]
    <2>1. name \in [young -> names] /\ \A n \in names : \E id \in young : name[id] = n
      OBVIOUS
    <2>2. name \in Surjection(young, names)
      BY <2>1 DEF Surjection
    <2> HIDE DEF young, names, name
    <2> QED
      BY <1>6, <2>2, FS_Surjection
  <1>8. Cardinality(young) + Cardinality(kept) <= Limit["retained"]
    BY RoomForHistory
  <1> HIDE DEF young, kept, names
  <1>9. /\ IsFiniteSet(names \cup kept)
        /\ Cardinality(names \cup kept) = Cardinality(names) + Cardinality(kept) - Cardinality(names \cap kept)
    BY <1>6, <1>7, FS_Union
  <1>10. Cardinality(DOMAIN PostRetained(b, m)) <= Cardinality(names \cup kept)
    BY <1>5, <1>9, FS_Subset
  <1>11. IsFiniteSet(names \cap kept) /\ IsFiniteSet(DOMAIN PostRetained(b, m))
    BY <1>5, <1>6, <1>9, FS_Subset
  <1>12. /\ Cardinality(names \cap kept) \in Nat /\ Cardinality(names) \in Nat
         /\ Cardinality(kept) \in Nat /\ Cardinality(young) \in Nat
         /\ Cardinality(DOMAIN PostRetained(b, m)) \in Nat
    BY <1>6, <1>7, <1>11, FS_CardinalityType
  <1>13. Limit["retained"] \in Nat
    BY PublicationAssumption DEF Collections
  <1>14. ~(Cardinality(DOMAIN PostRetained(b, m)) > Limit["retained"])
    BY <1>7, <1>8, <1>9, <1>10, <1>12, <1>13
  <1>15. RetentionErrors(b, m) = {}
    BY <1>4, <1>14 DEF RetentionErrors, Flag, staged
  <1> QED
    BY <1>14, <1>15

\* The batch is well formed and in its publisher's own hands.
LEMMA ClosingEnters ==
    ASSUME ClosingInv, NEW b, NEW m, NEW k, NEW evidence, Closing(b, m, k, evidence)
    PROVE  EntryErrors(b) = {}
  <1>0. Sole(b, k)
    BY ClosingKey
  <1>1. /\ b.malformed = {}
        /\ DOMAIN b.sourceUpserts = {} /\ DOMAIN b.bindingUpserts = {} /\ DOMAIN b.linkUpserts = {}
        /\ DOMAIN b.factUpserts = {} /\ b.factWithdrawals = {}
        /\ DOMAIN b.serviceUpserts = {} /\ b.serviceWithdrawals = {}
        /\ DOMAIN b.capabilityUpserts = {} /\ b.capabilityWithdrawals = {}
        /\ DOMAIN b.fences = {k} \/ DOMAIN b.fences = {}
    BY DEF Closing
  <1>2. \A j \in DOMAIN b.fences : j[1] = b.source /\ j[2] = b.epoch
    BY <1>0, <1>1 DEF Sole
  <1>3. PublisherTombstones(b) = {}
    BY <1>1 DEF PublisherTombstones, Flag
  <1>4. HeaderOwnershipErrors(b) = {}
    BY <1>1, <1>2 DEF HeaderOwnershipErrors, Flag
  <1>5. /\ ~ForeignObjects(b, services, b.serviceUpserts, b.serviceWithdrawals)
        /\ ~ForeignObjects(b, capabilities, b.capabilityUpserts, b.capabilityWithdrawals)
    BY <1>1 DEF ForeignObjects
  <1>6. RetainedOwnershipErrors(b) = {}
    BY <1>1, <1>5 DEF RetainedOwnershipErrors, Flag
  <1>7. StructureErrors(b) = {}
    BY <1>1, <1>3, <1>4 DEF StructureErrors
  <1> QED
    BY <1>6, <1>7 DEF EntryErrors

\* It is the next one of the one cursor of its source that can publish.
LEMMA ClosingIsNext ==
    ASSUME ClosingInv, NEW b, NEW m, NEW k, NEW evidence, Closing(b, m, k, evidence)
    PROVE  /\ Advances(b) /\ OrderErrors(b) = {}
           /\ EpochErrors(b) = {} /\ GenerationErrors(b) = {}
  <1>0. Sole(b, k)
    BY ClosingKey
  <1>1. /\ Key(b) = k /\ k \in DOMAIN cursors /\ b.seq = cursors[k].seq + 1 /\ b.sealed
        /\ b.expected = revisions.semantic /\ TypeOK
        /\ b.retirements = {} \/ b.retirements = {k[2]}
    BY DEF Closing, ClosingInv, KernelInv
  <1>2. cursors[k].seq \in Nat
    BY <1>1, MaxUint64Assumption DEF TypeOK, IsMap, CursorRecord, Revision
  <1>3. Advances(b)
    BY <1>1, <1>2 DEF Advances
  <1>4. /\ b.source = k[1] /\ b.epoch = k[2] /\ b.gen = k[3]
        /\ ~cursors[k].fenced
        /\ <<k[1], k[2]>> \in DOMAIN sources /\ sources[<<k[1], k[2]>>].state = "current"
    BY <1>0 DEF Sole
  <1>5. /\ \A s \in DOMAIN sources :
              s[1] = k[1] /\ s[2] # k[2] => sources[s].state # "current"
        /\ \A j \in DOMAIN cursors : j[1] = k[1] /\ j[2] = k[2] =>
              /\ j # k => cursors[j].fenced
              /\ ~(k[3] < j[3])
    BY <1>0 DEF Sole
  <1>6. OrderErrors(b) = {}
    BY <1>1, <1>4, <1>5 DEF OrderErrors, KnownCursor, Flag
  <1>7. EpochErrors(b) = {}
    BY <1>1, <1>4, <1>5 DEF EpochErrors, Flag
  <1>8. LiveKeys(b) \subseteq {k}
    BY <1>4, <1>5 DEF LiveKeys
  <1>9. k[3] \in Nat
    BY <1>0 DEF Sole
  <1>10. GenerationErrors(b) = {}
    BY <1>4, <1>8, <1>9 DEF GenerationErrors, Flag
  <1> QED
    BY <1>3, <1>6, <1>7, <1>10

\* No operation of it is refused.
LEMMA ClosingOperates ==
    ASSUME ClosingInv, NEW b, NEW m, NEW k, NEW evidence, Closing(b, m, k, evidence)
    PROVE  /\ SourceErrors(b) = {} /\ FenceErrors(b) = {} /\ BindingErrors(b) = {}
           /\ LinkErrors(b) = {} /\ FactUpsertErrors(b) = {} /\ FactWithdrawalErrors(b) = {}
           /\ ServiceErrors(b) = {} /\ CapabilityErrors(b) = {}
  <1>0. Sole(b, k)
    BY ClosingKey
  <1>1. /\ b.hook = {} /\ k \in DOMAIN cursors
        /\ DOMAIN b.sourceUpserts = {} /\ DOMAIN b.bindingUpserts = {} /\ DOMAIN b.linkUpserts = {}
        /\ DOMAIN b.factUpserts = {} /\ b.factWithdrawals = {}
        /\ DOMAIN b.serviceUpserts = {} /\ b.serviceWithdrawals = {}
        /\ DOMAIN b.capabilityUpserts = {} /\ b.capabilityWithdrawals = {}
        /\ DOMAIN b.fences = {k} \/ DOMAIN b.fences = {}
    BY DEF Closing
  <1>2. /\ b.source = k[1] /\ b.epoch = k[2] /\ b.gen = k[3] /\ k[3] \in Nat
        /\ ~cursors[k].fenced /\ k \notin DOMAIN fences
        /\ FencedKeys(b) = DOMAIN b.fences
    BY <1>0 DEF Sole
  <1>3. <<k[1], k[2]>> \in DOMAIN sources
    BY <1>0 DEF Sole
  <1>4. SourceErrors(b) = {}
    BY <1>1, <1>2, <1>3 DEF SourceErrors, Flag
  <1>5. FenceErrors(b) = {}
    BY <1>1, <1>2 DEF FenceErrors, Flag
  <1>6. BindingErrors(b) = {}
    BY <1>1 DEF BindingErrors
  <1>7. LinkErrors(b) = {}
    BY <1>1 DEF LinkErrors
  <1>8. ~(Cardinality(DOMAIN candidates) > 2 * MaxNodes)
    <2>1. /\ CloseErrors(candidates, DOMAIN candidates, bindings) = {}
          /\ IsFiniteSet(DOMAIN candidates)
      BY PublicationAssumption, FS_Subset
      DEF ClosingInv, KernelInv, Valid, SnapshotErrors, TypeOK, IsMap
    <2>2. DOMAIN Closed(candidates, DOMAIN candidates, bindings) = DOMAIN candidates
      BY DEF Closed
    <2> QED
      BY <2>1, <2>2 DEF CloseErrors, Flag
  <1>9. FactUpsertErrors(b) = {}
    BY <1>1, <1>8 DEF FactUpsertErrors, Flag
  <1>10. FactWithdrawalErrors(b) = {}
    BY <1>1 DEF FactWithdrawalErrors
  <1>11. ServiceErrors(b) = {}
    BY <1>1 DEF ServiceErrors, WithdrawalErrors
  <1>12. CapabilityErrors(b) = {}
    BY <1>1 DEF CapabilityErrors, WithdrawalErrors
  <1> QED
    BY <1>4, <1>5, <1>6, <1>7, <1>9, <1>10, <1>11, <1>12

\* The snapshot it leads to is within every bound and width.
LEMMA ClosingFits ==
    ASSUME ClosingInv, NEW b, NEW m, NEW k, NEW evidence, Closing(b, m, k, evidence)
    PROVE  ContentErrors(b, m) = {}
  <1> DEFINE src == PostSources(b)
             svc == PostServices(b)
             cap == PostCapabilities(b)
             env == PostEnvelopes(b)
             TooMany(map, name) == Cardinality(DOMAIN map) > Limit[name]
  <1>1. /\ DOMAIN src = DOMAIN sources /\ ~Overflows(src)
        /\ \A s \in DOMAIN sources : src[s].state = IF s = <<k[1], k[2]>> /\ k[2] \in b.retirements
                                                   THEN "retired" ELSE sources[s].state
    BY SourcesAsClosed
  <1>2. /\ DOMAIN PostBindings(b) = DOMAIN bindings /\ ~Overflows(PostBindings(b))
        /\ DOMAIN PostLinks(b) = DOMAIN links /\ ~Overflows(PostLinks(b))
    BY BindingsAsClosed, LinksAsClosed
  <1>3. /\ DOMAIN svc = DOMAIN services /\ ~Overflows(svc)
        /\ \A id \in DOMAIN services :
              /\ svc[id].binding = services[id].binding
              /\ svc[id].availability = IF services[id].binding \in TakenOut(b) THEN "withdrawn"
                                                               ELSE services[id].availability
    BY ServicesAsClosed
  <1>4. /\ DOMAIN cap = DOMAIN capabilities /\ ~Overflows(cap)
        /\ \A id \in DOMAIN capabilities :
              /\ cap[id].service = capabilities[id].service
              /\ cap[id].binding = capabilities[id].binding
              /\ cap[id].availability = IF capabilities[id].binding \in TakenOut(b) THEN "withdrawn"
                                        ELSE capabilities[id].availability
    BY CapabilitiesAsClosed
  <1>5. /\ ~(\E key \in DOMAIN env : env[key] > MaxUint64)
        /\ ~TooMany(env, "envelopes")
    BY EnvelopesAsClosed
  <1>6. ~TooMany(PostRetained(b, m), "retained")
    BY RetainedAsClosed
  <1>7. DOMAIN PostCursors(b) = DOMAIN cursors /\ ~TooMany(PostFences(b), "fences")
    BY CursorsAsClosed
  <1>8. /\ ~TooMany(sources, "sources") /\ ~TooMany(bindings, "bindings") /\ ~TooMany(links, "links")
        /\ ~TooMany(services, "services") /\ ~TooMany(capabilities, "capabilities")
        /\ ~TooMany(cursors, "cursors") /\ OneEpoch /\ OfItsService
    BY DEF ClosingInv, Fits
  <1> HIDE DEF src, svc, cap, env
  <1>9. ~(\E j, s \in DOMAIN src :
              /\ j # s /\ j[1] = s[1]
              /\ src[j].state = "current" /\ src[s].state = "current")
    BY <1>1, <1>8 DEF OneEpoch
  <1>10. ~(\E id \in DOMAIN cap :
              \/ cap[id].service \notin DOMAIN svc
              \/ svc[cap[id].service].binding # cap[id].binding
              \/ /\ cap[id].availability # "withdrawn"
                 /\ svc[cap[id].service].availability = "withdrawn")
    BY <1>3, <1>4, <1>8 DEF OfItsService
  <1>11. WidthErrors(b) = {}
    BY <1>1, <1>2, <1>3, <1>4, <1>5 DEF WidthErrors, Flag, src, svc, cap, env
  <1>12. ~(\/ TooMany(src, "sources") \/ TooMany(PostBindings(b), "bindings")
           \/ TooMany(PostLinks(b), "links") \/ TooMany(env, "envelopes")
           \/ TooMany(PostRetained(b, m), "retained")
           \/ TooMany(svc, "services") \/ TooMany(cap, "capabilities")
           \/ TooMany(PostFences(b), "fences") \/ TooMany(PostCursors(b), "cursors"))
    BY <1>1, <1>2, <1>3, <1>4, <1>5, <1>6, <1>7, <1>8
  <1> QED
    BY <1>9, <1>10, <1>11, <1>12, Zenon DEF ContentErrors, Flag, src, svc, cap, env

\* The revision vector has a next one.
LEMMA ClosingCounts ==
    ASSUME ClosingInv, NEW b, NEW m, NEW k, NEW evidence, Closing(b, m, k, evidence)
    PROVE  RevisionErrors(b, m) = {}
  <1> DEFINE next == PostRevisions(b, m)
  <1>1. /\ revisions \in [DOMAIN revisions -> 0..MaxUint64]
        /\ DOMAIN revisions = {"semantic", "identity", "facts", "services", "capabilities"}
    BY DEF ClosingInv, KernelInv, TypeOK
  <1>2. \A f \in DOMAIN revisions : revisions[f] < MaxUint64
    BY Room
  <1>3. MaxUint64 \in Nat \ {0}
    BY MaxUint64Assumption
  <1>4. \A f \in DOMAIN revisions : revisions[f] \in Nat /\ revisions[f] + 1 <= MaxUint64
    BY <1>1, <1>2, <1>3
  <1>5. \A changed : \A f \in DOMAIN revisions : ~(NextRevision(changed, revisions[f]) > MaxUint64)
    BY <1>3, <1>4 DEF NextRevision
  <1>6. DOMAIN next = DOMAIN revisions
    BY <1>1 DEF PostRevisions
  <1>7. ASSUME NEW f \in DOMAIN next PROVE ~(next[f] > MaxUint64)
    <2>1. CASE revisions.semantic = 0
      <3>1. next[f] = 1
        BY <1>1, <1>6, <2>1 DEF PostRevisions
      <3> QED
        BY <1>3, <3>1
    <2>2. CASE revisions.semantic # 0
      <3>1. next[f] = revisions.semantic + 1 \/ \E changed : next[f] = NextRevision(changed, revisions[f])
        <4> DEFINE idn == \/ PostSources(b) # sources \/ PostBindings(b) # bindings
                          \/ PostLinks(b) # links \/ PostFences(b) # fences
                   fct == \/ PostCandidates(b) # candidates \/ PostEnvelopes(b) # envelopes
                          \/ PostRetained(b, m) # retained
                   srv == PostServices(b) # services
                   cpb == PostCapabilities(b) # capabilities
        <4>1. next = [semantic |-> revisions.semantic + 1,
                      identity |-> NextRevision(idn, revisions.identity),
                      facts |-> NextRevision(fct, revisions.facts),
                      services |-> NextRevision(srv, revisions.services),
                      capabilities |-> NextRevision(cpb, revisions.capabilities)]
          BY <2>2 DEF PostRevisions
        <4> HIDE DEF next, idn, fct, srv, cpb
        <4> QED
          BY <1>1, <1>6, <4>1
      <3>2. ~(revisions.semantic + 1 > MaxUint64)
        BY <1>1, <1>3, <1>4
      <3> QED
        BY <1>5, <1>6, <3>1, <3>2
    <2> QED
      BY <2>1, <2>2
  <1> QED
    BY <1>7 DEF RevisionErrors, Flag

\* Of the cursors, fences and sources, the batch leaves a consistent set.
LEMMA ClosedCursors ==
    ASSUME ClosingInv, NEW b, NEW m, NEW k, NEW evidence, Closing(b, m, k, evidence)
    PROVE  /\ ~\E j \in DOMAIN PostFences(b) :
                  j \notin DOMAIN PostCursors(b) \/ ~PostCursors(b)[j].fenced
           /\ ~\E j \in DOMAIN PostCursors(b) :
                  \/ <<j[1], j[2]>> \notin DOMAIN PostSources(b)
                  \/ PostCursors(b)[j].fenced # (j \in DOMAIN PostFences(b))
           /\ ~\E i, j \in DOMAIN PostCursors(b) :
                  /\ i # j /\ i[1] = j[1] /\ i[2] = j[2]
                  /\ ~PostCursors(b)[i].fenced /\ ~PostCursors(b)[j].fenced
                  /\ PostSources(b)[<<j[1], j[2]>>].state = "current"
           /\ ~\E s \in DOMAIN PostSources(b) : \A j \in DOMAIN PostCursors(b) : <<j[1], j[2]>> # s
  <1> DEFINE src == PostSources(b)
             cur == PostCursors(b)
             fen == PostFences(b)
  <1>1. /\ DOMAIN src = DOMAIN sources
        /\ \A s \in DOMAIN sources : src[s].state = IF s = <<k[1], k[2]>> /\ k[2] \in b.retirements
                                                   THEN "retired" ELSE sources[s].state
    BY SourcesAsClosed
  <1>2. /\ DOMAIN cur = DOMAIN cursors /\ DOMAIN fen = DOMAIN fences \cup DOMAIN b.fences
        /\ \A j \in DOMAIN cursors : cur[j].fenced <=> j \in DOMAIN b.fences \/ cursors[j].fenced
        /\ \A j \in DOMAIN cursors : cur[j].fenced \in BOOLEAN
    BY CursorsAsClosed
  <1>3. Valid
    BY DEF ClosingInv, KernelInv
  <1>4. DOMAIN b.fences \subseteq DOMAIN cursors
    BY DEF Closing
  <1>5. /\ \A j \in DOMAIN fences : j \in DOMAIN cursors /\ cursors[j].fenced
        /\ \A j \in DOMAIN cursors : /\ <<j[1], j[2]>> \in DOMAIN sources
                                     /\ cursors[j].fenced = (j \in DOMAIN fences)
        /\ \A s \in DOMAIN sources : \E j \in DOMAIN cursors : <<j[1], j[2]>> = s
    BY <1>3, ValidOwners
  <1>6. \A i, j \in DOMAIN cursors :
            ~(/\ i # j /\ i[1] = j[1] /\ i[2] = j[2]
              /\ ~cursors[i].fenced /\ ~cursors[j].fenced
              /\ sources[<<j[1], j[2]>>].state = "current")
    BY <1>3, ValidOwners
  <1> HIDE DEF src, cur, fen
  <1>7. ~\E j \in DOMAIN fen : j \notin DOMAIN cur \/ ~cur[j].fenced
    BY <1>2, <1>4, <1>5
  <1>8. ~\E j \in DOMAIN cur : <<j[1], j[2]>> \notin DOMAIN src \/ cur[j].fenced # (j \in DOMAIN fen)
    <2> SUFFICES ASSUME NEW j \in DOMAIN cur
                 PROVE  <<j[1], j[2]>> \in DOMAIN src /\ cur[j].fenced = (j \in DOMAIN fen)
      OBVIOUS
    <2>1. j \in DOMAIN cursors /\ <<j[1], j[2]>> \in DOMAIN src
      BY <1>1, <1>2, <1>5
    <2>2. cursors[j].fenced <=> j \in DOMAIN fences
      BY <1>5, <2>1
    <2>3. cur[j].fenced <=> j \in DOMAIN fen
      BY <1>2, <2>1, <2>2
    <2>4. cur[j].fenced \in BOOLEAN
      BY <1>2, <2>1
    <2>5. cur[j].fenced = (j \in DOMAIN fen)
      <3>1. CASE j \in DOMAIN fen
        BY <2>3, <2>4, <3>1
      <3>2. CASE j \notin DOMAIN fen
        BY <2>3, <2>4, <3>2
      <3> QED
        BY <3>1, <3>2
    <2> QED
      BY <2>1, <2>5
  <1>9. ~\E i, j \in DOMAIN cur : /\ i # j /\ i[1] = j[1] /\ i[2] = j[2]
                                  /\ ~cur[i].fenced /\ ~cur[j].fenced
                                  /\ src[<<j[1], j[2]>>].state = "current"
    BY <1>1, <1>2, <1>5, <1>6
  <1>10. ~\E s \in DOMAIN src : \A j \in DOMAIN cur : <<j[1], j[2]>> # s
    BY <1>1, <1>2, <1>5
  <1> QED
    BY <1>7, <1>8, <1>9, <1>10 DEF src, cur, fen

\* Its bindings agree with them.
LEMMA ClosedBindings ==
    ASSUME ClosingInv, NEW b, NEW m, NEW k, NEW evidence, Closing(b, m, k, evidence)
    PROVE  \A id \in DOMAIN PostBindings(b) :
              LET r == PostBindings(b)[id]
                  s == <<r.source, r.epoch>>
              IN  ~(\/ s \notin DOMAIN PostSources(b) \/ KeyOf(r) \notin DOMAIN PostCursors(b)
                    \/ /\ r.state = "current"
                       /\ PostSources(b)[s].state # "current" \/ PostCursors(b)[KeyOf(r)].fenced
                    \/ r.state = "fenced"  /\ KeyOf(r) \notin DOMAIN PostFences(b)
                    \/ r.state = "retired" /\ PostSources(b)[s].state # "retired")
  <1> DEFINE src == PostSources(b)
             cur == PostCursors(b)
             fen == PostFences(b)
             bnd == PostBindings(b)
  <1>1. /\ DOMAIN src = DOMAIN sources
        /\ \A s \in DOMAIN sources : src[s].state = IF s = <<k[1], k[2]>> /\ k[2] \in b.retirements
                                                   THEN "retired" ELSE sources[s].state
    BY SourcesAsClosed
  <1>2. /\ DOMAIN cur = DOMAIN cursors /\ DOMAIN fen = DOMAIN fences \cup DOMAIN b.fences
        /\ \A j \in DOMAIN cursors : cur[j].fenced <=> j \in DOMAIN b.fences \/ cursors[j].fenced
    BY CursorsAsClosed
  <1>3. /\ DOMAIN bnd = DOMAIN bindings
        /\ \A id \in DOMAIN bindings :
              /\ bnd[id].source = bindings[id].source
              /\ bnd[id].epoch = bindings[id].epoch
              /\ bnd[id].gen = bindings[id].gen
              /\ bnd[id].state = IF id \notin TakenOut(b) THEN bindings[id].state
                                 ELSE IF DOMAIN b.fences = {k} THEN "fenced" ELSE "retired"
    BY BindingsAsClosed
  <1>4. /\ Valid
        /\ \/ DOMAIN b.fences = {k} /\ b.retirements = {}
           \/ DOMAIN b.fences = {} /\ b.retirements = {k[2]}
    BY DEF ClosingInv, KernelInv, Closing
  <1>5. /\ DOMAIN b.fences = {k} => TakenOut(b) = {id \in DOMAIN bindings : KeyOf(bindings[id]) = k}
        /\ DOMAIN b.fences = {} =>
              TakenOut(b) = {id \in DOMAIN bindings :
                               <<bindings[id].source, bindings[id].epoch>> = <<k[1], k[2]>>}
    BY TakenByClosing
  <1>6. \A id \in DOMAIN bindings :
           /\ <<bindings[id].source, bindings[id].epoch>> \in DOMAIN sources
           /\ KeyOf(bindings[id]) \in DOMAIN cursors
           /\ bindings[id].state = "current" =>
                 /\ sources[<<bindings[id].source, bindings[id].epoch>>].state = "current"
                 /\ ~cursors[KeyOf(bindings[id])].fenced
           /\ bindings[id].state = "fenced" => KeyOf(bindings[id]) \in DOMAIN fences
           /\ bindings[id].state = "retired" =>
                 sources[<<bindings[id].source, bindings[id].epoch>>].state = "retired"
    BY <1>4, ValidOwners
  <1> HIDE DEF src, cur, fen, bnd
  <1>7. ASSUME NEW id \in DOMAIN bnd
        PROVE  LET r == bnd[id]
                   s == <<r.source, r.epoch>>
               IN  ~(\/ s \notin DOMAIN src \/ KeyOf(r) \notin DOMAIN cur
                     \/ r.state = "current" /\ (src[s].state # "current" \/ cur[KeyOf(r)].fenced)
                     \/ r.state = "fenced"  /\ KeyOf(r) \notin DOMAIN fen
                     \/ r.state = "retired" /\ src[s].state # "retired")
    <2> DEFINE s == <<bindings[id].source, bindings[id].epoch>>
               j == KeyOf(bindings[id])
    <2>1. /\ id \in DOMAIN bindings /\ <<bnd[id].source, bnd[id].epoch>> = s /\ KeyOf(bnd[id]) = j
          /\ s \in DOMAIN sources /\ j \in DOMAIN cursors
          /\ src[s].state = IF s = <<k[1], k[2]>> /\ k[2] \in b.retirements
                            THEN "retired" ELSE sources[s].state
          /\ cur[j].fenced <=> j \in DOMAIN b.fences \/ cursors[j].fenced
          /\ bnd[id].state = IF id \notin TakenOut(b) THEN bindings[id].state
                             ELSE IF DOMAIN b.fences = {k} THEN "fenced" ELSE "retired"
      BY <1>1, <1>2, <1>3, <1>6 DEF KeyOf
    <2>2. /\ bindings[id].state = "current" => sources[s].state = "current" /\ ~cursors[j].fenced
          /\ bindings[id].state = "fenced" => j \in DOMAIN fences
          /\ bindings[id].state = "retired" => sources[s].state = "retired"
      BY <1>6, <2>1
    <2>3. /\ DOMAIN b.fences = {k} => (id \in TakenOut(b) <=> j = k)
          /\ DOMAIN b.fences = {} => (id \in TakenOut(b) <=> s = <<k[1], k[2]>>)
      BY <1>5, <2>1
    <2> HIDE DEF s, j
    <2>4. CASE DOMAIN b.fences = {k} /\ b.retirements = {}
      BY <1>1, <1>2, <2>1, <2>2, <2>3, <2>4
    <2>5. CASE DOMAIN b.fences = {} /\ b.retirements = {k[2]}
      BY <1>1, <1>2, <2>1, <2>2, <2>3, <2>5
    <2> QED
      BY <1>4, <2>4, <2>5
  <1> QED
    BY <1>7 DEF src, cur, fen, bnd

\* What hangs off a binding that left service is withdrawn.
LEMMA ClosedObjects ==
    ASSUME ClosingInv, NEW b, NEW m, NEW k, NEW evidence, Closing(b, m, k, evidence)
    PROVE  /\ ~\E id \in DOMAIN PostLinks(b) :
                  \/ id \notin DOMAIN PostBindings(b)
                  \/ PostLinks(b)[id].state # "withdrawn" /\ PostBindings(b)[id].state # "current"
           /\ ~\E objects \in {PostServices(b), PostCapabilities(b)} : \E id \in DOMAIN objects :
                  LET o == objects[id]
                  IN  \/ o.binding \notin DOMAIN PostBindings(b)
                      \/ PostBindings(b)[o.binding].epoch # o.epoch
                      \/ PostBindings(b)[o.binding].gen # o.gen
                      \/ o.availability # "withdrawn" /\ PostBindings(b)[o.binding].state # "current"
  <1> DEFINE bnd == PostBindings(b)
             lnk == PostLinks(b)
             svc == PostServices(b)
             cap == PostCapabilities(b)
             Off(old, new) ==
                /\ DOMAIN new = DOMAIN old
                /\ \A id \in DOMAIN old :
                      /\ new[id].binding = old[id].binding
                      /\ new[id].epoch = old[id].epoch
                      /\ new[id].gen = old[id].gen
                      /\ new[id].availability = IF old[id].binding \in TakenOut(b) THEN "withdrawn"
                                                ELSE old[id].availability
                      /\ old[id].binding \in DOMAIN bindings
                      /\ bindings[old[id].binding].epoch = old[id].epoch
                      /\ bindings[old[id].binding].gen = old[id].gen
                      /\ old[id].availability # "withdrawn" =>
                            bindings[old[id].binding].state = "current"
             Sound(o) == ~(\/ o.binding \notin DOMAIN bnd
                           \/ bnd[o.binding].epoch # o.epoch \/ bnd[o.binding].gen # o.gen
                           \/ o.availability # "withdrawn" /\ bnd[o.binding].state # "current")
  <1>1. /\ DOMAIN bnd = DOMAIN bindings
        /\ \A id \in DOMAIN bindings :
              /\ bnd[id].epoch = bindings[id].epoch
              /\ bnd[id].gen = bindings[id].gen
              /\ bnd[id].state = IF id \notin TakenOut(b) THEN bindings[id].state
                                 ELSE IF DOMAIN b.fences = {k} THEN "fenced" ELSE "retired"
    BY BindingsAsClosed
  <1>2. /\ DOMAIN lnk = DOMAIN links
        /\ \A id \in DOMAIN links :
              lnk[id].state = IF id \in TakenOut(b) THEN "withdrawn" ELSE links[id].state
    BY LinksAsClosed
  <1>3. Valid
    BY DEF ClosingInv, KernelInv
  <1>4. /\ \A id \in DOMAIN links :
              /\ id \in DOMAIN bindings
              /\ links[id].state # "withdrawn" => bindings[id].state = "current"
        /\ \A objects \in {services, capabilities} : \A id \in DOMAIN objects :
              /\ objects[id].binding \in DOMAIN bindings
              /\ bindings[objects[id].binding].epoch = objects[id].epoch
              /\ bindings[objects[id].binding].gen = objects[id].gen
              /\ objects[id].availability # "withdrawn" =>
                    bindings[objects[id].binding].state = "current"
    BY <1>3, ValidOwners
  <1>5. Off(services, svc)
    BY <1>4, ServicesAsClosed
  <1>6. Off(capabilities, cap)
    BY <1>4, CapabilitiesAsClosed
  <1> HIDE DEF bnd, lnk, svc, cap
  <1>7. ~\E id \in DOMAIN lnk :
            id \notin DOMAIN bnd \/ (lnk[id].state # "withdrawn" /\ bnd[id].state # "current")
    BY <1>1, <1>2, <1>4
  <1>8. ASSUME NEW old, NEW new, Off(old, new) PROVE \A id \in DOMAIN new : Sound(new[id])
    BY <1>1, <1>8
  <1>9. \A objects \in {svc, cap} : \A id \in DOMAIN objects : Sound(objects[id])
    <2> HIDE DEF Off, Sound
    <2> QED
      BY <1>5, <1>6, <1>8
  <1> QED
    BY <1>7, <1>9 DEF bnd, lnk, svc, cap

\* The paths of the snapshot it leads to are consistent.
LEMMA ClosingLeavesPaths ==
    ASSUME ClosingInv, NEW b, NEW m, NEW k, NEW evidence, Closing(b, m, k, evidence)
    PROVE  LifecycleErrors(PostSources(b), PostFences(b), PostCursors(b), PostBindings(b),
                           PostLinks(b), PostServices(b), PostCapabilities(b)) = {}
  <1>1. /\ ~\E j \in DOMAIN PostFences(b) :
               j \notin DOMAIN PostCursors(b) \/ ~PostCursors(b)[j].fenced
        /\ ~\E j \in DOMAIN PostCursors(b) :
               \/ <<j[1], j[2]>> \notin DOMAIN PostSources(b)
               \/ PostCursors(b)[j].fenced # (j \in DOMAIN PostFences(b))
        /\ ~\E i, j \in DOMAIN PostCursors(b) :
               /\ i # j /\ i[1] = j[1] /\ i[2] = j[2]
               /\ ~PostCursors(b)[i].fenced /\ ~PostCursors(b)[j].fenced
               /\ PostSources(b)[<<j[1], j[2]>>].state = "current"
        /\ ~\E s \in DOMAIN PostSources(b) : \A j \in DOMAIN PostCursors(b) : <<j[1], j[2]>> # s
    BY ClosedCursors, Zenon
  <1>2. ~\E id \in DOMAIN PostBindings(b) :
            LET r == PostBindings(b)[id]
                s == <<r.source, r.epoch>>
            IN  \/ s \notin DOMAIN PostSources(b) \/ KeyOf(r) \notin DOMAIN PostCursors(b)
                \/ r.state = "current" /\ (PostSources(b)[s].state # "current" \/ PostCursors(b)[KeyOf(r)].fenced)
                \/ r.state = "fenced"  /\ KeyOf(r) \notin DOMAIN PostFences(b)
                \/ r.state = "retired" /\ PostSources(b)[s].state # "retired"
    BY ClosedBindings, Zenon
  <1>3. /\ ~\E id \in DOMAIN PostLinks(b) :
               \/ id \notin DOMAIN PostBindings(b)
               \/ PostLinks(b)[id].state # "withdrawn" /\ PostBindings(b)[id].state # "current"
        /\ ~\E objects \in {PostServices(b), PostCapabilities(b)} : \E id \in DOMAIN objects :
               LET o == objects[id]
               IN  \/ o.binding \notin DOMAIN PostBindings(b)
                   \/ PostBindings(b)[o.binding].epoch # o.epoch
                   \/ PostBindings(b)[o.binding].gen # o.gen
                   \/ o.availability # "withdrawn" /\ PostBindings(b)[o.binding].state # "current"
    BY ClosedObjects, Zenon
  <1> QED
    BY <1>1, <1>2, <1>3, Zenon DEF LifecycleErrors, Flag

\* What Snapshot.Validate asks of one retained observation.
Historical(record, src, fen, bnd) ==
    LET c == record.candidate
    IN  ~(\/ c.binding \notin DOMAIN bnd
          \/ LET r == bnd[c.binding]
             IN  \/ r.state = "current" \/ KeyOf(r) # KeyOf(c)
                 \/ record.removal = "generation_fence" /\ KeyOf(r) \notin DOMAIN fen
                 \/ /\ record.removal = "source_retirement" \/ r.state = "retired"
                    /\ \/ <<r.source, r.epoch>> \notin DOMAIN src
                       \/ src[<<r.source, r.epoch>>].state # "retired"
                 \/ record.removal = "source_retirement" /\ r.state # "retired")

\* What leaves service is filed as history of a tombstone, and what was history
\* of one is so still.
LEMMA ClosingLeavesHistory ==
    ASSUME ClosingInv, NEW b, NEW m, NEW k, NEW evidence, Closing(b, m, k, evidence)
    PROVE  HistoryErrors(PostSources(b), PostFences(b), PostBindings(b), PostRetained(b, m)) = {}
  <1> DEFINE src == PostSources(b)
             fen == PostFences(b)
             bnd == PostBindings(b)
             ret == PostRetained(b, m)
  <1>1. /\ DOMAIN src = DOMAIN sources
        /\ \A s \in DOMAIN sources : src[s].state = IF s = <<k[1], k[2]>> /\ k[2] \in b.retirements
                                                   THEN "retired" ELSE sources[s].state
    BY SourcesAsClosed
  <1>2. DOMAIN fen = DOMAIN fences \cup DOMAIN b.fences
    BY CursorsAsClosed
  <1>3. /\ DOMAIN bnd = DOMAIN bindings
        /\ \A id \in DOMAIN bindings :
              /\ bnd[id].source = bindings[id].source
              /\ bnd[id].epoch = bindings[id].epoch
              /\ bnd[id].gen = bindings[id].gen
              /\ bnd[id].state = IF id \notin TakenOut(b) THEN bindings[id].state
                                 ELSE IF DOMAIN b.fences = {k} THEN "fenced" ELSE "retired"
    BY BindingsAsClosed
  <1>4. \A id \in DOMAIN bindings : bnd[id].state = StagedBindings(b)[id].state
    BY BindingsAsClosed
  <1>5. /\ Valid
        /\ \/ DOMAIN b.fences = {k} /\ b.retirements = {}
           \/ DOMAIN b.fences = {} /\ b.retirements = {k[2]}
        /\ sources[<<k[1], k[2]>>].state = "current"
    BY DEF ClosingInv, KernelInv, Closing, Live
  <1>6. /\ DOMAIN b.fences = {k} => TakenOut(b) = {id \in DOMAIN bindings : KeyOf(bindings[id]) = k}
        /\ DOMAIN b.fences = {} =>
              TakenOut(b) = {id \in DOMAIN bindings :
                               <<bindings[id].source, bindings[id].epoch>> = <<k[1], k[2]>>}
    BY TakenByClosing
  <1>7. \A id \in DOMAIN bindings :
           /\ <<bindings[id].source, bindings[id].epoch>> \in DOMAIN sources
           /\ bindings[id].state = "fenced" => KeyOf(bindings[id]) \in DOMAIN fences
           /\ bindings[id].state = "retired" =>
                 sources[<<bindings[id].source, bindings[id].epoch>>].state = "retired"
    BY <1>5, ValidOwners
  <1>8. Sole(b, k)
    BY ClosingKey
  <1>9. k \notin DOMAIN fences
    BY <1>8 DEF Sole
  <1>10. /\ \A id \in DOMAIN bindings : bindings[id].state \in {"current", "fenced", "retired"}
    BY DEF ClosingInv, KernelInv, TypeOK, IsMap, BindingRecord
  <1>11. \A rid \in DOMAIN retained : Historical(retained[rid], sources, fences, bindings)
    <2>1. HistoryErrors(sources, fences, bindings, retained) = {}
      BY <1>5 DEF Valid, SnapshotErrors
    <2>2. ~\E rid \in DOMAIN retained :
             LET c == retained[rid].candidate
             IN  \/ c.binding \notin DOMAIN bindings
                 \/ LET r == bindings[c.binding]
                    IN  \/ r.state = "current" \/ KeyOf(r) # KeyOf(c)
                        \/ retained[rid].removal = "generation_fence" /\ KeyOf(r) \notin DOMAIN fences
                        \/ /\ retained[rid].removal = "source_retirement" \/ r.state = "retired"
                           /\ \/ <<r.source, r.epoch>> \notin DOMAIN sources
                              \/ sources[<<r.source, r.epoch>>].state # "retired"
                        \/ retained[rid].removal = "source_retirement" /\ r.state # "retired"
      BY <2>1, Zenon DEF HistoryErrors, Flag
    <2> QED
      BY <2>2, Zenon DEF Historical
  <1>12. \A rid \in DOMAIN ret :
            /\ rid \in DOMAIN NewlyRetained(b) => ret[rid] = NewlyRetained(b)[rid]
            /\ rid \notin DOMAIN NewlyRetained(b) =>
                  rid \in DOMAIN retained /\ ret[rid] = retained[rid]
    BY RetainedAfter
  <1> HIDE DEF src, fen, bnd, ret
  <1>13. ASSUME NEW id \in DOMAIN bindings
         PROVE  /\ KeyOf(bnd[id]) = KeyOf(bindings[id])
                /\ <<bnd[id].source, bnd[id].epoch>> = <<bindings[id].source, bindings[id].epoch>>
                /\ id \in TakenOut(b) => /\ bindings[id].state # "retired"
                                         /\ DOMAIN b.fences = {k} => /\ bindings[id].state # "fenced"
                                                                     /\ bnd[id].state = "fenced"
                                                                     /\ KeyOf(bindings[id]) \in DOMAIN fen
                                         /\ DOMAIN b.fences = {} =>
                                              /\ bnd[id].state = "retired"
                                              /\ src[<<bindings[id].source, bindings[id].epoch>>].state = "retired"
                /\ bindings[id].state = "retired" =>
                      src[<<bindings[id].source, bindings[id].epoch>>].state = "retired"
    <2>1. /\ KeyOf(bnd[id]) = KeyOf(bindings[id])
          /\ <<bnd[id].source, bnd[id].epoch>> = <<bindings[id].source, bindings[id].epoch>>
      BY <1>3 DEF KeyOf
    <2> DEFINE s == <<bindings[id].source, bindings[id].epoch>>
    <2>2. /\ s \in DOMAIN sources
          /\ bindings[id].state = "retired" => sources[s].state = "retired"
          /\ bindings[id].state = "retired" => src[s].state = "retired"
          /\ src[s].state = IF s = <<k[1], k[2]>> /\ k[2] \in b.retirements
                            THEN "retired" ELSE sources[s].state
      BY <1>1, <1>7
    <2>3. id \in TakenOut(b) => s = <<k[1], k[2]>>
      BY <1>5, <1>6 DEF KeyOf
    <2>4. id \in TakenOut(b) => bindings[id].state # "retired"
      BY <1>5, <2>2, <2>3
    <2>5. id \in TakenOut(b) /\ DOMAIN b.fences = {k} =>
             /\ KeyOf(bindings[id]) = k /\ bindings[id].state # "fenced" /\ bnd[id].state = "fenced"
             /\ KeyOf(bindings[id]) \in DOMAIN fen
      BY <1>2, <1>3, <1>6, <1>7, <1>9
    <2>6. id \in TakenOut(b) /\ DOMAIN b.fences = {} => bnd[id].state = "retired" /\ src[s].state = "retired"
      BY <1>3, <1>5, <2>2, <2>3
    <2> QED
      BY <2>1, <2>2, <2>4, <2>5, <2>6
  <1>14. ASSUME NEW rid \in DOMAIN ret PROVE Historical(ret[rid], src, fen, bnd)
    <2>1. CASE rid \in DOMAIN NewlyRetained(b)
      <3>1. PICK id \in Left(b) : FiledAs(rid, id, b)
        BY <2>1, LeftIsFiled
      <3> DEFINE c == candidates[id]
                 r == bnd[c.binding]
                 o == bindings[c.binding]
      <3>2. /\ ret[rid].candidate = c
            /\ ret[rid].removal = Removal(StagedBindings(b)[c.binding])
        BY <1>12, <2>1, <3>1 DEF FiledAs
      <3>3. id \in DOMAIN candidates /\ Observed(c) /\ c.binding \in TakenOut(b)
        BY DEF Left
      <3>4. PathErrors(c, bindings) = {}
        BY <1>5, <3>3, ValidPaths
      <3>5. /\ c.binding \in DOMAIN bindings /\ KeyOf(o) = KeyOf(c)
        BY <3>4 DEF PathErrors, Flag, KeyOf
      <3>6. /\ ret[rid].removal = Removal(r) /\ KeyOf(r) = KeyOf(c)
            /\ <<r.source, r.epoch>> = <<o.source, o.epoch>> /\ <<o.source, o.epoch>> \in DOMAIN src
            /\ \/ r.state = "fenced" /\ KeyOf(o) \in DOMAIN fen
               \/ r.state = "retired" /\ src[<<o.source, o.epoch>>].state = "retired"
            /\ c.binding \in DOMAIN bnd
        BY <1>1, <1>3, <1>4, <1>5, <1>7, <1>13, <3>2, <3>3, <3>5 DEF Removal
      <3> HIDE DEF c
      <3> QED
        BY <3>2, <3>5, <3>6 DEF Historical, Removal
    <2>2. CASE rid \notin DOMAIN NewlyRetained(b)
      <3> DEFINE record == retained[rid]
                 c == record.candidate
                 r == bnd[c.binding]
                 o == bindings[c.binding]
      <3>1. rid \in DOMAIN retained /\ ret[rid] = record
        BY <1>12, <2>2
      <3>2. Historical(record, sources, fences, bindings)
        BY <1>11, <3>1
      <3> HIDE DEF record
      <3>3. /\ c.binding \in DOMAIN bindings /\ o.state # "current" /\ KeyOf(o) = KeyOf(c)
            /\ record.removal = "generation_fence" => KeyOf(o) \in DOMAIN fences
            /\ record.removal = "source_retirement" => o.state = "retired"
        BY <3>2 DEF Historical
      <3>4. /\ c.binding \in DOMAIN bnd /\ KeyOf(r) = KeyOf(c)
            /\ <<r.source, r.epoch>> = <<o.source, o.epoch>> /\ <<o.source, o.epoch>> \in DOMAIN src
            /\ r.state # "current"
            /\ r.state = "retired" => src[<<o.source, o.epoch>>].state = "retired"
            /\ o.state = "retired" => r.state = "retired"
        BY <1>1, <1>3, <1>5, <1>7, <1>10, <1>13, <3>3
      <3>5. KeyOf(o) \in DOMAIN fences => KeyOf(r) \in DOMAIN fen
        BY <1>2, <3>3, <3>4
      <3> QED
        BY <3>1, <3>3, <3>4, <3>5 DEF Historical
    <2> QED
      BY <2>1, <2>2
  <1>15. ~\E rid \in DOMAIN ret :
             LET c == ret[rid].candidate
             IN  \/ c.binding \notin DOMAIN bnd
                 \/ LET r == bnd[c.binding]
                    IN  \/ r.state = "current" \/ KeyOf(r) # KeyOf(c)
                        \/ ret[rid].removal = "generation_fence" /\ KeyOf(r) \notin DOMAIN fen
                        \/ /\ ret[rid].removal = "source_retirement" \/ r.state = "retired"
                           /\ \/ <<r.source, r.epoch>> \notin DOMAIN src
                              \/ src[<<r.source, r.epoch>>].state # "retired"
                        \/ ret[rid].removal = "source_retirement" /\ r.state # "retired"
    BY <1>14, Zenon DEF Historical
  <1> QED
    BY <1>15, Zenon DEF HistoryErrors, Flag, src, fen, bnd, ret

\* Nothing stands in the way of closing a path for which there is room.
LEMMA ClosingIsAccepted ==
    ASSUME ClosingInv, NEW b, NEW m, NEW k, NEW evidence, Closing(b, m, k, evidence)
    PROVE  Verdict(b, m) = {}
  <1>1. EntryErrors(b) = {} /\ Advances(b) /\ OrderErrors(b) = {}
    BY ClosingEnters, ClosingIsNext
  <1>2. ~Malformed(b)
    BY <1>1 DEF Malformed, RankedBefore
  <1>3. ApplyToErrors(b, m) = {}
    <2>1. EpochErrors(b) = {} /\ GenerationErrors(b) = {}
      BY ClosingIsNext
    <2>2. TransitionErrors(b) = {}
      BY LinksAsClosed
    <2>3. /\ CloseErrors(StagedCandidates(b), DOMAIN b.factUpserts, StagedBindings(b)) = {}
          /\ RetentionErrors(b, m) = {} /\ ContentErrors(b, m) = {}
      BY CandidatesAsClosed, RetainedAsClosed, ClosingFits
    <2> QED
      BY <2>1, <2>2, <2>3, ClosingOperates DEF ApplyToErrors
  <1>4. RevisionErrors(b, m) = {}
    BY ClosingCounts
  <1>5. ValidateErrors(b, m) = {}
    BY ClosingLeavesPaths, ClosingLeavesHistory, CandidatesAsClosed DEF ValidateErrors, SnapshotErrors
  <1> QED
    BY <1>1, <1>2, <1>3, <1>4, <1>5 DEF Verdict, CommitErrors

\* The batch of a live key that has no operation.
LEMMA BareBatchIs ==
    ASSUME TypeOK, NEW k \in DOMAIN cursors, cursors[k].seq < MaxUint64,
           NEW now, now.wall \in TimePoint
    PROVE  /\ BareBatch(k, now) \in Batch /\ Key(BareBatch(k, now)) = k
           /\ BareBatch(k, now).seq = cursors[k].seq + 1
           /\ BareBatch(k, now).expected = revisions.semantic /\ BareBatch(k, now).sealed
           /\ BareBatch(k, now).observedAt = now.wall
           /\ BareBatch(k, now).malformed = {} /\ BareBatch(k, now).hook = {}
           /\ DOMAIN BareBatch(k, now).sourceUpserts = {}
           /\ DOMAIN BareBatch(k, now).bindingUpserts = {} /\ DOMAIN BareBatch(k, now).linkUpserts = {}
           /\ DOMAIN BareBatch(k, now).factUpserts = {} /\ BareBatch(k, now).factWithdrawals = {}
           /\ DOMAIN BareBatch(k, now).serviceUpserts = {} /\ BareBatch(k, now).serviceWithdrawals = {}
           /\ DOMAIN BareBatch(k, now).capabilityUpserts = {}
           /\ BareBatch(k, now).capabilityWithdrawals = {}
           /\ BareBatch(k, now).retirements = {} /\ DOMAIN BareBatch(k, now).fences = {}
  <1> DEFINE b == BareBatch(k, now)
             d == CHOOSE x \in Digest : TRUE
  <1>1. /\ k[1] \in Source /\ k[2] \in Epoch /\ k[3] \in Generation /\ k = <<k[1], k[2], k[3]>>
        /\ cursors[k] \in CursorRecord
    BY DEF TypeOK, IsMap, CursorKey
  <1>2. cursors[k].seq + 1 \in Revision /\ cursors[k].digest \in Digest
    BY <1>1, MaxUint64Assumption DEF CursorRecord, Revision
  <1>3. d \in Digest
    BY <1>2
  <1>4. revisions.semantic \in 0..MaxUint64
    BY DEF TypeOK
  <1>5. ASSUME NEW D, NEW R PROVE <<>> \in Map(D, R)
    <2>1. IsMap(<<>>, D, R)
      BY EmptyIsMap
    <2> QED
      BY <2>1, IsMapInMap
  <1>6. b = [source |-> k[1], epoch |-> k[2], gen |-> k[3], seq |-> cursors[k].seq + 1,
             expected |-> revisions.semantic, digest |-> d, sealed |-> TRUE,
             observedAt |-> now.wall, malformed |-> {}, hook |-> {},
             sourceUpserts |-> <<>>, retirements |-> {}, bindingUpserts |-> <<>>, linkUpserts |-> <<>>,
             factUpserts |-> <<>>, factWithdrawals |-> {}, serviceUpserts |-> <<>>,
             serviceWithdrawals |-> {}, capabilityUpserts |-> <<>>, capabilityWithdrawals |-> {},
             fences |-> <<>>]
    BY DEF BareBatch
  <1> HIDE DEF b, d
  <1>7. b \in Batch
    BY <1>1, <1>2, <1>3, <1>4, <1>5, <1>6 DEF Batch
  <1>8. Key(b) = k
    BY <1>1, <1>6 DEF Key
  <1>9. DOMAIN <<>> = {}
    OBVIOUS
  <1> QED
    BY <1>6, <1>7, <1>8, <1>9 DEF b

\* Fencing the generation of a live key closes it.
LEMMA FenceCloses ==
    ASSUME ClosingInv, NEW k \in DOMAIN cursors, Live(k), NEW e \in Evidence,
           NEW wall \in TimePoint, NEW mono \in MonotonicPoint,
           Headroom(k, {id \in DOMAIN bindings : KeyOf(bindings[id]) = k}, {e},
                    [wall |-> wall, mono |-> mono])
    PROVE  Closing(FenceBatch(k, {e}, [wall |-> wall, mono |-> mono]), mono, k, {e})
  <1> DEFINE now == [wall |-> wall, mono |-> mono]
             c == BareBatch(k, now)
             b == FenceBatch(k, {e}, now)
             mine == {id \in DOMAIN bindings : KeyOf(bindings[id]) = k}
  <1>1. TypeOK /\ now.wall = wall /\ cursors[k].seq < MaxUint64
    BY DEF ClosingInv, KernelInv, Headroom
  <1>2. /\ c \in Batch /\ Key(c) = k
        /\ c.seq = cursors[k].seq + 1 /\ c.expected = revisions.semantic /\ c.sealed
        /\ c.observedAt = now.wall /\ c.malformed = {} /\ c.hook = {}
        /\ DOMAIN c.sourceUpserts = {} /\ DOMAIN c.bindingUpserts = {} /\ DOMAIN c.linkUpserts = {}
        /\ DOMAIN c.factUpserts = {} /\ c.factWithdrawals = {}
        /\ DOMAIN c.serviceUpserts = {} /\ c.serviceWithdrawals = {}
        /\ DOMAIN c.capabilityUpserts = {} /\ c.capabilityWithdrawals = {}
        /\ c.retirements = {}
    BY <1>1, BareBatchIs
  <1>3. b = [c EXCEPT !.fences = [j \in {k} |-> {e}]]
    BY DEF FenceBatch
  <1>4. k \in CursorKey
    BY <1>1 DEF TypeOK, IsMap
  <1>5. [j \in {k} |-> {e}] \in Map(CursorKey, SUBSET Evidence)
    BY <1>4, IsMapInMap DEF IsMap
  <1> HIDE DEF c, now, b
  <1>6. /\ b \in Batch /\ Key(b) = k
        /\ b.seq = cursors[k].seq + 1 /\ b.expected = revisions.semantic /\ b.sealed
        /\ b.observedAt = now.wall /\ b.malformed = {} /\ b.hook = {}
        /\ DOMAIN b.sourceUpserts = {} /\ DOMAIN b.bindingUpserts = {} /\ DOMAIN b.linkUpserts = {}
        /\ DOMAIN b.factUpserts = {} /\ b.factWithdrawals = {}
        /\ DOMAIN b.serviceUpserts = {} /\ b.serviceWithdrawals = {}
        /\ DOMAIN b.capabilityUpserts = {} /\ b.capabilityWithdrawals = {}
        /\ b.retirements = {} /\ b.fences = [j \in {k} |-> {e}]
    BY <1>2, <1>3, <1>5 DEF Batch, Key
  <1>7. DOMAIN b.fences = {k} /\ b.fences[k] = {e}
    BY <1>6
  <1>8. /\ \A r : FencedBy(b, r) <=> KeyOf(r) = k
        /\ \A r : ~RetiredBy(b, r)
    BY <1>6, <1>7 DEF FencedBy, FencedKeys, RetiredBy, Retiring
  <1>9. TakenOut(b) = mine
    BY <1>8 DEF TakenOut, Touched
  <1>10. \A id \in mine : FenceEvidence(b, id) = {e}
    BY <1>7, <1>8 DEF FenceEvidence
  <1>11. Context(b, mono) = now
    BY <1>1, <1>6 DEF Context, now
  <1>12. Headroom(k, TakenOut(b), {e}, Context(b, mono))
    BY <1>9, <1>11 DEF now
  <1> HIDE DEF mine
  <1>13. Closing(b, mono, k, {e})
    BY <1>6, <1>7, <1>9, <1>10, <1>12 DEF Closing
  <1> QED
    BY <1>13 DEF b, now

\* Retiring the epoch of a live key closes it.
LEMMA RetirementCloses ==
    ASSUME ClosingInv, NEW k \in DOMAIN cursors, Live(k),
           NEW wall \in TimePoint, NEW mono \in MonotonicPoint,
           Headroom(k, {id \in DOMAIN bindings :
                          <<bindings[id].source, bindings[id].epoch>> = <<k[1], k[2]>>}, {},
                    [wall |-> wall, mono |-> mono])
    PROVE  Closing(RetireBatch(k, [wall |-> wall, mono |-> mono]), mono, k, {})
  <1> DEFINE now == [wall |-> wall, mono |-> mono]
             c == BareBatch(k, now)
             b == RetireBatch(k, now)
             all == {id \in DOMAIN bindings :
                       <<bindings[id].source, bindings[id].epoch>> = <<k[1], k[2]>>}
  <1>1. TypeOK /\ Valid /\ now.wall = wall /\ cursors[k].seq < MaxUint64
    BY DEF ClosingInv, KernelInv, Headroom
  <1>2. /\ c \in Batch /\ Key(c) = k
        /\ c.seq = cursors[k].seq + 1 /\ c.expected = revisions.semantic /\ c.sealed
        /\ c.observedAt = now.wall /\ c.malformed = {} /\ c.hook = {}
        /\ DOMAIN c.sourceUpserts = {} /\ DOMAIN c.bindingUpserts = {} /\ DOMAIN c.linkUpserts = {}
        /\ DOMAIN c.factUpserts = {} /\ c.factWithdrawals = {}
        /\ DOMAIN c.serviceUpserts = {} /\ c.serviceWithdrawals = {}
        /\ DOMAIN c.capabilityUpserts = {} /\ c.capabilityWithdrawals = {}
        /\ DOMAIN c.fences = {}
    BY <1>1, BareBatchIs
  <1>3. b = [c EXCEPT !.retirements = {k[2]}]
    BY DEF RetireBatch
  <1>4. k \in CursorKey
    BY <1>1 DEF TypeOK, IsMap
  <1>5. {k[2]} \in SUBSET Epoch
    BY <1>4 DEF CursorKey
  <1> HIDE DEF c, now, b
  <1>6. /\ b \in Batch /\ Key(b) = k
        /\ b.seq = cursors[k].seq + 1 /\ b.expected = revisions.semantic /\ b.sealed
        /\ b.observedAt = now.wall /\ b.malformed = {} /\ b.hook = {}
        /\ DOMAIN b.sourceUpserts = {} /\ DOMAIN b.bindingUpserts = {} /\ DOMAIN b.linkUpserts = {}
        /\ DOMAIN b.factUpserts = {} /\ b.factWithdrawals = {}
        /\ DOMAIN b.serviceUpserts = {} /\ b.serviceWithdrawals = {}
        /\ DOMAIN b.capabilityUpserts = {} /\ b.capabilityWithdrawals = {}
        /\ b.retirements = {k[2]} /\ DOMAIN b.fences = {}
    BY <1>2, <1>3, <1>5 DEF Batch, Key
  <1>7. <<k[1], k[2]>> \in DOMAIN StagedSources(b)
    <2>1. <<k[1], k[2]>> \in DOMAIN sources
      BY <1>1, ValidOwners
    <2> QED
      BY <2>1 DEF StagedSources, With
  <1>8. b.source = k[1]
    BY <1>6 DEF Key
  <1>9. /\ \A r : ~FencedBy(b, r)
        /\ \A r : RetiredBy(b, r) <=> <<r.source, r.epoch>> = <<k[1], k[2]>>
    BY <1>6, <1>7, <1>8 DEF FencedBy, FencedKeys, RetiredBy, Retiring
  <1>10. TakenOut(b) = all
    BY <1>9 DEF TakenOut, Touched
  <1>11. \A id \in all : FenceEvidence(b, id) = {}
    BY <1>9 DEF FenceEvidence
  <1>12. Context(b, mono) = now
    BY <1>1, <1>6 DEF Context, now
  <1>13. Headroom(k, TakenOut(b), {}, Context(b, mono))
    BY <1>10, <1>12 DEF now
  <1> HIDE DEF all
  <1>14. Closing(b, mono, k, {})
    BY <1>6, <1>10, <1>11, <1>13 DEF Closing
  <1> QED
    BY <1>14 DEF b, now

\* The kernel never refuses, for good, the batch that every replacement of a
\* driver needs: whatever batches were accepted before, the live publisher of a
\* source can fence its generation and can retire its epoch, if no counter, bound
\* or clock named by Headroom is in the way (Apply, transitionBinding).
THEOREM PathsCanAlwaysBeClosed == Spec => []PathsCanBeClosed
  <1>1. ASSUME ClosingInv PROVE PathsCanBeClosed
    <2>1. ASSUME NEW k \in DOMAIN cursors, NEW e \in Evidence, Live(k),
                 NEW wall \in TimePoint, NEW mono \in MonotonicPoint
          PROVE  LET now  == [wall |-> wall, mono |-> mono]
                     mine == {id \in DOMAIN bindings : KeyOf(bindings[id]) = k}
                     all  == {id \in DOMAIN bindings :
                                <<bindings[id].source, bindings[id].epoch>> = <<k[1], k[2]>>}
                 IN  /\ Headroom(k, mine, {e}, now) => Verdict(FenceBatch(k, {e}, now), mono) = {}
                     /\ Headroom(k, all, {}, now) => Verdict(RetireBatch(k, now), mono) = {}
      <3> DEFINE now  == [wall |-> wall, mono |-> mono]
                 mine == {id \in DOMAIN bindings : KeyOf(bindings[id]) = k}
                 all  == {id \in DOMAIN bindings :
                            <<bindings[id].source, bindings[id].epoch>> = <<k[1], k[2]>>}
      <3>1. ASSUME Headroom(k, mine, {e}, now) PROVE Verdict(FenceBatch(k, {e}, now), mono) = {}
        <4>1. Closing(FenceBatch(k, {e}, now), mono, k, {e})
          BY <1>1, <2>1, <3>1, FenceCloses
        <4> QED
          BY <1>1, <4>1, ClosingIsAccepted
      <3>2. ASSUME Headroom(k, all, {}, now) PROVE Verdict(RetireBatch(k, now), mono) = {}
        <4>1. Closing(RetireBatch(k, now), mono, k, {})
          BY <1>1, <2>1, <3>2, RetirementCloses
        <4> QED
          BY <1>1, <4>1, ClosingIsAccepted
      <3> QED
        BY <3>1, <3>2
    <2> QED
      BY <2>1 DEF PathsCanBeClosed
  <1>2. ClosingInv => PathsCanBeClosed
    BY <1>1
  <1> QED
    BY <1>2, ClosingInvHolds, PTL
=============================================================================
