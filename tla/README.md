# TLA+ models of helianthus-semreg

`helianthus-semreg` is the protocol-neutral semantic registry of a building
energy gateway.  Drivers of native sources publish what they know about one
asset into a *publication kernel*; readers take immutable snapshots from it,
evaluate how old each fact is, select a candidate to present, admit operations
against a snapshot and project it to other protocols.  Nothing in it does I/O:
it is a set of in-memory kernels behind mutexes, called concurrently, whose
inputs are records produced elsewhere, possibly late, twice, or on another clock.

This directory models those kernels in TLA+, together with the drivers, readers,
receivers and native owners around them, checks them with TLC on small
instances and proves nearly all of what is checked with TLAPS for every instance.

## 1. Inventory

| component | source (`src/semreg/v1/`) | state it keeps | operations | made correct by |
|---|---|---|---|---|
| publication kernel | `publication.go`, `types.go` | current snapshot, one replay result per cursor | `NewPublicationKernel`, `Apply`, `Current`, `CurrentAt`, `Fork` | one writer per source, permanent tombstones, exactly-once commits, exact revisions, isolation of sources, every path can be closed |
| derivation graph | `publication.go` (`closeCandidateGraph`) | none (part of `Apply`) | closing a staged candidate map | no inferred fact outlives what it was inferred from; the kernel's own transitions never fail on it; the walk's answer does not depend on its order |
| retained history | `publication.go` (retention loop) | `retained` part of the snapshot | retain, sweep, withdraw | nothing lost with its path, never rewritten, never authority, kept its term |
| freshness and evaluation | `evaluation_selection.go` | none | `EvaluateSnapshot`, `CurrentAt` | a definite age is a true age; honest readers are answered |
| presentation selection | `evaluation_selection.go` | registered policies | `RegisterSelectionPolicy`, `SelectPresentation`, `ValidateSelection` | a selection belongs to one snapshot and one view |
| rejection identifiers | `validation.go` | none | ranking | which stage of `Apply` is reached |
| record validation, strict decoding | `validation.go`, `collector.go` | none | `Validate`, `Decode`, `CanonicalJSON`, digests | a defect is reported whatever else is wrong, and none that is not there |
| definition registry, pack hooks | `validation.go`, `hook_inputs.go`, `pack_metadata.go` | frozen definition tables, one lock per hook | `NewRegistry`, `NewPackMetadataRegistry`, their queries, hooks | one owner per definition in any order of registration; relations closed in a pack; hooks never entered twice |
| operation kernel | `operation/` | admissions by idempotency key, terminal records | `Admit`, `Record`, `RecordRejection`, `EnterCausal`, route refusals | one admission and one outcome per key; a readback proves what it claims; commands come to rest; every call returns |
| projection | `projection/` | none | `Project`, `ValidateReport`, `DerivePackAvailability`, aliases | complete accounting; bound to one snapshot; nothing looks better than it is |
| domain packs | `packs/` | none | stateless hooks over tables | a precondition or readback speaks of the thing it is about |
| catalog | `catalog/` | none | `Decode`, `Validate` | no two readings of an accepted document |

How they interact.  A driver reads the snapshot and calls `Apply` with a batch that names the semantic
revision it was computed from and a sequence number of its own cursor
`(source, epoch, generation)`.  `Apply` runs under the kernel's write lock and
replaces the snapshot or leaves everything alone.  Readers hold deep copies:
whatever they do next is against a snapshot that may no longer be current, on a
clock that may have restarted.  The operation kernel has a lock of its own, which
it gives up while hooks and the authority resolver run, and is handed snapshots by
its callers; the native owner that executes an admitted operation is outside
the repository.

What is hard here: late batches of replaced drivers; lost answers and resent
batches; composing an upsert, a fence and a retirement of one object in one
batch; the cascade over derivations; history that must survive its path but
never speak for it; clocks that restart; counters and collections that only
grow towards a limit; readers and admissions working on stale snapshots; drivers
whose every commit invalidates the batches of all others; forks whose equal
revisions mean different contents; locks taken inside locks; commands whose effects
are reported back; documents of which only a part can be read.
`PROJECT.json` lists each of these at its line, under "hazards".

## 2. Modules

| module | models | kind |
|---|---|---|
| `Errors` | identifiers and ranks (`errorRanks`, `bestError`) | operators |
| `Freshness` | `evaluateFreshness`, `evaluateCrossEpoch`, `classifyElapsed`, `combineFreshness`, `effectiveAvailability` | operators |
| `CandidateGraph` | `closeCandidateGraph`, the resolver | operators (recursive functions) |
| `Publication` | the publication kernel: `Apply` as `Commit`, `Replay`, `Reject` | state machine |
| `Authority` | what the kernel promises: who may publish | abstract specification |
| `SnapshotView` | `EvaluateSnapshot`: a snapshot at an instant | operators |
| `Evaluation` | evaluation, `CurrentAt`, selection, readers; clocks as environment | state machine |
| `Operation` | the operation kernel: `Admit` (and `Install`, its end), `Record`, `RecordRejection` | state machine |
| `Site` | both kernels, the native owner between them, everyone's clocks | composition |
| `Delivery` | drivers that publish over a lossy path, retry, crash and succeed one another | composition, fairness |
| `Resolver` | `findCycles`, `resolve`, `resolveCycle`: the two walks of the graph, step by step | state machine against `CandidateGraph` |
| `Definitions` | `NewRegistry`, `NewPackMetadataRegistry` and their queries | state machine |
| `Projection` | publication points and `Fork`, `Project`, `ValidateReport`, `DerivePackAvailability` | state machine |
| `Wire` | `decodeRecord` and `collector.go` on documents that a sender edits | recursive operators |
| `Locks` | every lock of both kernels and the calls that take them | state machine, fairness |
| `Relay` | `EnterCausal` at the receivers of a site | state machine, fairness |
| `StoragePack` | the hooks of `packs/storage` as the kernels call them | state machine |
| `Catalog` | `catalog.Decode` on documents that their authors edit | state machine |
| `MCPublication`, `MCSite`, `MCDelivery`, `MCWire` | publishers, callers, owners, drivers and documents offered to TLC, values for constants | model checking |
| `MCReaders`, `SmallGraphs` | `Evaluation`, an instance of it and one of `Resolver`; the graphs it walks | model checking |
| `MCExchange` | `Projection` and `Relay`, and further instances of both | model checking |
| `MCPacks` | `Definitions`, `Catalog`, and two instances of `StoragePack` | model checking |
| `MCLocks` | `Locks`, and one further instance of it | model checking |
| `PublicationProofs` | `Publication`: types, `Authority` and its refinement, what no sequence of commits does to a snapshot and its history, that its paths can be closed | proofs |
| `ReadingProofs` | derivations and ages of any snapshot | lemmas |
| `EvaluationProofs`, `SiteProofs`, `DeliveryProofs`, `ProjectionProofs` | theorems about the modules they are named after | proofs |
| `ConcurrencyProofs` | `Locks` and `Relay` | proofs |
| `PacksProofs` | `Definitions`, `Catalog` and `StoragePack` | proofs |

`Publication` extends `Freshness` and `CandidateGraph`, and instantiates
`Authority` with a refinement mapping (`Rights`).  `SnapshotView` extends the same
two; `Evaluation` extends it and keeps only the part of the snapshot a reader can
tell apart.  `Operation` extends `SnapshotView` too, and takes snapshots as
arguments, as the code does; `Site` extends `Publication` and `Operation` and
hands real snapshots from the one to the other.  `Delivery` extends `Publication`,
`Resolver` extends `CandidateGraph`, `Projection` extends `SnapshotView`.  The
others stand by themselves and extend at most `Errors`.

### State and code

`Publication` has one variable per collection of `Snapshot`, as a finite map
from identity to record (the maps `applyTo` builds before it sorts them back
into slices), plus `revisions`, `evaluatedAt` and `replays` (per cursor, the
semantic revision of the snapshot a replay answers with).  A batch is a record
with one member per member of `PublicationBatch`.  `Post...(b)` operators give
each collection after the batch in the code's order: sources; fences before
retirements; binding, link, fact, service and capability operations; the
cascade; retention; the sweep; normalisation of revisions.  `...Errors(b)`
operators give what each part of `applyTo` reports.  `Commit` requires the
verdict to be empty and assigns all collections at once, as the code swaps the
working copy in; `Replay` and `Reject` change nothing.  `Commit` includes
everything the code does before it answers: normalisation, sweep, envelope
rebuild and the final `Snapshot.Validate` (`ValidateErrors`).

What a member check needs no state for (JSON shape, enums, order, text,
decimal values, pack hooks) is represented by what it reports: the sets
`malformed` and `hook` of the batch.  They are inputs, so every outcome of those
checks is possible; the type `Batch` is looser than the validated Go type
(it allows, for example, an empty evidence basis), which only adds behaviours.
A digest of bytes is the value itself; `sealed` says whether the batch carries
the digest of its own bytes.  `MaxUint64` is a constant and every increment is
followed by the width check the code has, so overflow is modelled and is
reached by TLC with small values.

`applyTo` continues after a failed operation to collect more errors.  The
model's verdict is empty exactly when the code's is; which of several errors
ranks first is not claimed.

In `Evaluation`, `now` and the member `received` of an observation are true
time, which the code never sees; the monotonic clock is exact within one boot,
the UTC clock is within the uncertainty it states, any other wall clock says
anything.  The views and selections carry the value whose digest the code
computes.  `Fetch`/`Evaluate` are separate steps, `CurrentAt` is one (one read
lock), and `Select` works on whatever pair the reader then holds.

`Operation` has the admission table, one pending call per concurrent caller of
`Admit`, and, as history, the admissions handed out.  `Admit` is the call up to
the point where everything is prepared: it looks the key up under the lock and then
works without it; `Install` is its last part, again under the lock.  Between the
two any other call may run.  `Record` holds the admission's own lock and
`RecordRejection` the kernel's, so each is one step.  `AdmissionErrors`,
`RouteErrors`, `WellFormed`, `Supported`, `RecordHolds`, `ReadbackHolds` and
`RouteIsCurrent` are the checks of `Admit`, `routes`, `Validate`,
`outcomeCombinationError`, `Record`, `validateReadback` and
`snapshotRouteCurrent`.  The answers of packs and of the authority resolver are
inputs; equal intents stand for equal canonical bytes.

In `Site`, `Submit`, `Finish`, `Report` and `Refuse` are `Admit`, `Install`,
`Record` and `RecordRejection` with a snapshot the caller fetched some time ago
(`held`), `Publish` is an accepted `Apply`.  `Dispatch` and `Complete` belong to
the native owner and are external: it starts an operation once, if the admission's
guard claims hold on the snapshot of that moment, and logs by its own clock when
it started and ended.  Its reports carry that log; everything it might conclude from
it (every outcome, with any readback in a fetched snapshot) is tried.  Kernels,
drivers and owner run under different monotonic clocks, which only inexact UTC
readings relate.

`Delivery` makes each delivered batch one `Apply` (`Commit`, `Replay` or `Reject`).
What a driver does is external, and it relies on nothing but what `Current` and
`Apply` return; `published` counts the commits that carried an observation and is
history.  `Resolver` has the maps of `candidateGraphResolver` as variables, turns
its recursion into stacks of frames, and takes one call, one input or one return
as one step.  `Definitions` registers its sources in every order.  In
`Projection` a snapshot is its own id, since the id is the digest of all of it.

In `Locks` a call is the sequence of its lock operations, hook calls and accesses to
what a lock protects; the programs (`Apply`, `Fork`, `Admit`, `Record`, ...) are
read off the functions of the same names, and the steps give `sync.Mutex` and
`sync.RWMutex` their documented meaning, waiting writers keeping new readers
out.  The other modules take such calls for single steps; `Locks` is where that
is justified.

`Wire` works on JSON trees over a small schema: a batch or a snapshot with one
record of each nature the code treats differently (documents with a
discriminator, collections keyed by one or several members, conditional members,
a causal context, a number with a domain).  `Shape`, `Knowable`, `Validate` are
`validateShapeWithNumberDomain`, `independentlyKnowableErrors` and the typed
`Validate`; texts are classes (well formed, malformed) or sequences of digits.

In `Relay` receivers, links and issuers are external.  A receiver that acts passes
the context `EnterCausal` returned on, and its new state is reported with a
context of its own.  `StoragePack` keeps one row of `definitions.go` of each
kind (with and without bounds, quantity and symbol, pack and interface).  In
`Catalog` a member has a name, whether it is written in the right case, and a value
out of the classes that some check tells apart.

## 3. Runs

Most properties are safety properties: the kernels never act on their own.
That a call can succeed is stated as a state predicate (`PathsCanBeClosed`,
`HonestReadersAreAnswered`, `OperationsCanBeClosed`, `EverySnapshotIsReadable`): in
every reachable state the call is accepted unless a named limit is reached.
Liveness is claimed where several actors wait for or undo one another:

* `Delivery`: a started driver that does not crash goes on reading and
  reconsidering (`WF` of `Read` and `Reconsider`), and what is sent arrives unless it
  is one of the faults its `Workload` allows (`WF` of `Arrival`).  Nobody has to start, and no
  answer has to arrive.  `Apply` itself is a bounded computation under one lock.
* `Locks`: a goroutine that can take a step takes one (`WF` of `Step` for each
  caller), which the Go scheduler gives, and hooks return.  No order among
  waiters is assumed, since calls are finite in number.
* `Relay`: links keep delivering (`WF` of `Arrive`).  No clock has to move, so
  what ends a command is its path and its budget, not its expiry.

Some questions need different instances: one source with every operation, or two
sources with fewer.  Instead of one constant per difference a behaviour plays one
*scene*, chosen in its initial state and kept (`cast` in `MCPublication` and
`MCSite`, `scene` elsewhere): who is there, what they may do, when, how often.
`MCReaders`, `MCExchange`, `MCLocks` and `MCPacks` extend the modules whose
properties they check, with constants in the configuration that cover their scenes, and
instantiate them again with fewer where a scene needs fewer.  What a scene does not use
stays in an initial state (`MCPacks`, `MCExchange`) or is absent.  `MCSite` picks from the calls that `SiteNext` allows, so that what is
proved of `SiteSpec` holds of it.

Publishers in `MCPublication` offer, in each state and for each header, a
prepared hand-over batch with up to `ops` more operations, the same operations
unprepared, and (`faults`) stale, resent, corrupted, malformed and out-of-sequence
variants.  Sources, epochs, bindings, candidates and evidence are only ever
compared for equality, so TLC explores them up to symmetry.  `MaxUint64` bounds
every counter, so the number of commits too; the kernel itself refuses more,
and the state graph is finite without a constraint.

| run | scenes | properties |
|---|---|---|
| `lifecycle` | *lifecycle*: 1 source, 2 epochs, 2 generations, one object of each kind, all operations, faults, 4 commits; *handover*: 1 epoch, 2 generations, 2 bindings, 2 candidates, two operations per batch, 5 commits | `GenerationsTakeTurns`, `HistoryIsNotAuthority`, `NothingComesBack`, `RevisionsAreExact`, `ObservationsAreKept` |
| `closing` | *closing*: new objects at revision 1 or `MaxUint64`, one fence slot, one evidence per basis; *retention*: one slot of history, instants before and after the retention deadline, derivations | `TypeOK`, `PathsCanBeClosed`, `InferencesRestOnWhatTheySaw` |
| `sources` | *neighbours*: 2 sources sharing epoch names, generation numbers and ids; *history*: 2 sources, instants over a restart | `SourcesAreIsolated`, `ImplementsAuthority`, `HistoryIsImmutable` |
| `readers` | *ages*: true time 0..4, two boots, UTC off by up to 1, a lying local clock; *selecting*: 3 commits, fetch/evaluate/select in any order; *walking*: all graphs on 3 candidates over one declared path, cycles and dangling inputs included, all declarations of 2 paths, a fenced path, limits of 2 nodes, depth 2, 1 path | `AgesAreTrue`, `HonestReadersAreAnswered`, `HistoryLastsItsTerm`; `SelectionsAreBound`; `WalkIsExact` |
| `exchange` | *accounts*: up to 2 requested items and 2 dispositions; *reports*: 2 publication points, a report over facts of either; *views*: facts of a shipped pack, of one that is not shipped, and unknown to its pack, capabilities that their pack accepts or not, ages on both sides of each limit; *hops*: 3 receivers, budgets 2..4 under a limit of 3, no time passes; *time*: 2 receivers, true time 0..6, clocks off by 1, lives around the limit | `ReportsAreTrue`; `AvailabilityIsTrue`, `EverySnapshotIsReadable`; `NobodyActsTwiceOrLate`, `CommandsComeToRest` |
| `site` | *admission*: 2 callers, 2 keys, 1 place, 2 generations of a route that is degraded, unlinked, unqualified, fenced, replaced, 3 commits; *confirmation*: 1 operation, true time 0..2, two monotonic clocks, UTC off by 1, observations up to 1 late, 2 values, 2 commits; *timely*: conditional intents, 2 candidates, 2 values, true time 0..3, two deadlines, 3 commits; *unowned*: as *confirmation* with one exact clock, and facts that no pack of the operation kernel owns, 3 commits | `AnswersAgree`, `RejectedIsNeverRun`, `GuardsCoverTheRoute`, `OperationsCanBeClosed`, `OutcomesAreFinal`, `AppliedWasSeen`, `AdmissionsAreJustified` |
| `delivery` | a driver and its successor, 2 observations each, 2 faults; a driver, its successor under the next generation and one under a new epoch, 1 fault; drivers of 2 sources, 1 fault | `ExactlyOnce`, `EveryDriverSettles` |
| `packs` | *registries*: lists of up to 3 packs, each sound or with one mistake, all orders; *families*: a catalog of 2 families, 2 edits; *guarding*: 2 interfaces, interlocks that trip and clear, decimals of 2 exponents; *confirming*: the charge limit and the interlock, every readback | `OneOwnerInAnyOrder`, `RelationsCanBeUsed`; `OneReading`; `IntentsWereSafe`; `VerdictsAreExact` |
| `documents` | a batch with candidates, a causal context and fences, or a snapshot with 2 envelopes, 2 edits | `NothingKnowableIsHidden`, `ReportIsTrue` |
| `wire_fences` | a batch with fences of generations 9 and 10; **violated** | `OrderIsJudgedAlike` |
| `wire_keys` | a snapshot with 2 envelopes of one fact, 2 edits; **violated** | `UnrelatedMembersHideNoKey` |
| `locks` | *points*: 3 callers, a point and its fork, 4 calls; *operations*: 3 callers of the operation kernel, one admission, 3 calls | `HooksAreSerialized`, `NobodySeesHalf`, `EveryCallReturns` |

Several of these are conjunctions of parts that have names of their own in the
modules: `NothingComesBack` of `TombstonesStay` and `CursorsMove`, `WalkIsExact` of
`CyclesAreExact`, `NoReentry` and the agreement with `CandidateGraph`,
`OneOwnerInAnyOrder` of `OneOwner` and `RefusalIsOrderless`, `RelationsCanBeUsed` of
`RelationsAreClosed` and `RegistriesAgree`, `IntentsWereSafe` of `InterlockIsHonoured`
and `PreconditionsWereTrue`, `ReportsAreTrue` of `AccountIsExact` and `ReportsAreBound`,
`ReportIsTrue` of `NoDefectIsMadeUp` and `MembersHaveNoOrder`, `NobodyActsTwiceOrLate` of
`NobodyActsTwice` and `NobodyActsLate`.  Each part has a mutant of its own.

Why these bounds are enough to be interesting: two epochs and two generations
give every hand-over including a return to an older one; four to five commits
allow publish, hand over, publish again, late batch; one binding per generation and
one service, link and capability below it exercise every transition; two
candidates give a derivation, its input, and reuse of an id; instants lie on
both sides of each freshness limit and of a restart; the limits are set to be hit.
Two callers and one place give every race for a key and for the last place; a
reading error of one tick on each side is enough to reverse any two neighbouring
events, and two ticks of time to separate them again.  Three candidates give two
cycles that share a member and a candidate below them; three callers give a reader
behind a writer behind a reader; two edits of a document give a defect and something
that may hide it.  `documents` uses counters of one digit, for the reason
`wire_fences` shows.
Every property has a mutant of the code's definitions that violates it
under the same configuration (`PROJECT.json`, "mutants").

Deadlock checking is off where the system really stops: when drivers have settled,
calls are used up, nothing travels any more, or documents, registries and reports are
done (`exchange`, `packs`, `delivery`, `locks`, `documents`, `wire_fences`, `wire_keys`).  In
`readers` the clock, boots and commits of the first two scenes may stop, and do so by an
explicit step; a walk may not.

### What the runs show

* A right to publish moves from driver to driver and never returns
  (`GenerationsTakeTurns`, `ImplementsAuthority`), whatever late or resent
  batch arrives (`NothingComesBack`).
* Tombstones are permanent even for services and capabilities withdrawn on a
  binding that stays current (`NothingComesBack`).
* A batch that composes several transitions of one object still moves it exactly
  one revision (`RevisionsAreExact`).
* A source cannot touch another's objects, observations or cursors through shared
  names, nor its history, from which its commits only take what has expired
  (`SourcesAreIsolated`).
* A live publisher can always fence or retire itself, except at a limit that
  `Headroom` names: a counter at the end of its width, a full fence
  collection, full history, a full evidence basis, a clock behind a receipt
  (`PathsCanBeClosed`).  The limits are real consequences of the code: history
  of one source can refuse the fence of another until something expires.
* Observations are kept when their path goes, once, unchanged, until their own
  deadline (`ObservationsAreKept`, `HistoryIsNotAuthority`,
  `HistoryIsImmutable`, `HistoryLastsItsTerm`).
* Over restarts and drifting clocks a definite freshness is true, and a reader
  with an honest UTC clock is always answered (`AgesAreTrue`,
  `HonestReadersAreAnswered`).

* However calls race for a key or for the last place, everyone who is answered
  holds the one admission, and neither it nor its record ever changes
  (`AnswersAgree`, `OutcomesAreFinal`); what was started is never on record as
  rejected (`RejectedIsNeverRun`).
* An intent is let through only in time and on facts that are fresh and
  undisputed by true time (`AdmissionsAreJustified`), and an operation is recorded
  as applied only on an observation its own driver made after the call ended
  (`AppliedWasSeen`), although no two participants share a clock.
* The guard claims the owner rechecks cover the route except for two things: the
  identity link may have lost its qualification and the service may have become
  unfit, and only the identity and service revisions would show it
  (`GuardsCoverTheRoute`).
* A started operation can always be closed (`OperationsCanBeClosed`), with one
  exception the property names: if the owner's clock epoch is not the
  kernel's and it started within twice the stated uncertainties after the admission,
  `Record` refuses every evidence of it.
* Drivers that lose batches and answers can make every observation count exactly
  once by resending the same bytes and by looking for their own digest in the
  cursor (`ExactlyOnce`).  Though every commit makes all other batches stale, all
  drivers settle, successors included (`EveryDriverSettles`).
* The memoising walk over the derivation graph computes what the order-free
  definition says on all small graphs; its own guard against re-entering a candidate
  never decides, because cycles are collapsed first (`WalkIsExact`).
* The registries accept a list of packs or not whatever its order, and then
  agree on what is defined (`OneOwnerInAnyOrder`, `RelationsCanBeUsed`).
* Reports and availability views are about one snapshot and survive neither a fork at
  the same revisions nor a view somebody made look fresher; degraded
  capabilities do not make a snapshot unreadable (`ReportsAreTrue`,
  `AvailabilityIsTrue`, `EverySnapshotIsReadable`).
* What can be known of a half-readable document is reported, and nothing else
  (`NothingKnowableIsHidden`, `ReportIsTrue`).
* No two calls take locks in opposite orders, no call waits for itself, and
  forks do not enter a shared hook at the same time (`EveryCallReturns`,
  `HooksAreSerialized`, `NobodySeesHalf`).
* A command comes to rest even if no clock ever moves, no receiver acts twice along
  one way, and none acts when the longest lifetime is over (`CommandsComeToRest`,
  `NobodyActsTwiceOrLate`).  More is not claimed: two ways that meet may bring one
  command to one receiver twice.  The path knows the way a copy came and no other, and
  `EnterCausal` keeps no state; what makes the two one is the idempotency key of the
  intents they become (`AnswersAgree`).
* A storage limit is only changed while the interlock of that very interface is
  clear in the snapshot of the admission (`IntentsWereSafe`, `VerdictsAreExact`).
* Whatever member of an accepted catalog a JSON reader finds, it finds what the decoder
  bound (`OneReading`).  The property says nothing of absent members; see below.

### Findings

`wire_fences` is expected to fail.  `collectionCompare` (`collector.go:107`) compares
the `driver_generation` of fences and cursors as text, the typed validation as
numbers (`compareFence`, `publication.go:215`).  A batch whose fences of generations 9
and 10 are in canonical order is accepted when it can be bound; with one unrelated
defect, such as a `hop_count` beyond its domain, it is reported as
`noncanonical_order`, which ranks before the defect it has.  The comment above
`collectionKeyFields` (`collector.go:9`) says that unrelated members must not
fabricate a key and that the same projection guards both comparisons.  Only the
reported identifier is wrong; the batch is refused either way.

`wire_keys` is expected to fail.  `wireCollectionErrors` reads an element's key off the
members that make it up and gives it up on any shape error inside one of them
(`collector.go:229`).  The key of an envelope is itself a record, so a member that
`FactKey` does not define, and that binding passes over, suppresses it.  Two envelopes of
one fact, one of them with such a member, in a snapshot that also lacks its contract, are
reported as `invalid_contract`, although `duplicate_key` ranks before that and is in the
document.  The same comment (`collector.go:9`) says that unrelated members must not
suppress a supplied key.  `NothingKnowableIsHidden` is therefore stated for keys with
nothing else written into them, and holds.

One disagreement has no run.  `fixtures/README.md:201` says that the catalog validator
"does not yet enforce" required-member presence.  The code does: `requireCanonicalMembers`
(`catalog/catalog.go:173`) refuses a catalog with an absent member, and `Catalog.Canonical`
says so too.  The text looks older than the code, and since it is not clear which of the
two is meant to last, no property claims either.

## 4. Proofs

The theorems hold for any number of sources, epochs, generations, objects, batches,
drivers, callers, keys, points, receivers, packs, definitions, documents and facts.  TLC checks the same properties, by the same
names, on the instances of section 3.  What is assumed of the constants is named in
the modules that declare them:

| assumption | what it says | why the code justifies it |
|---|---|---|
| `MaxUint64Assumption`, `GraphAssumption`, `PublicationAssumption`, `OperationAssumption` | limits are naturals, generations are Uint64, candidate ids are finitely many | constants of the code; an identifier has at most 128 bytes |
| `DeliveryAssumption` | every driver publishes under a cursor key of its own; its records are well typed | the driver's side of the protocol is external, and one driver owns one generation |
| `EvaluationAssumption`, `SiteAssumption`, `RelayAssumption` | clocks are as close as the uncertainty they state; terms and limits are numbers | what a `TimePoint` claims; a clock that lies about its uncertainty makes every age wrong |
| `LocksAssumption` | calls name points that exist; "no call" is not a call | types of the code |
| `ProjectionAssumption` | items and candidate keys are ordered like numbers, outcomes and capabilities are records | types of the code; identifiers are compared as texts, of which only the order is used |
| `DefinitionsAssumption` | lists are lists and operations are records; no pack is the nil interface | types of the code |
| `StoragePackAssumption` | facts, values and intents are of the kinds `Key` and `Value`; a width of exponents | `semreg.Value` after its own validation (`canonicalDecimal`), which runs before any hook |
| `NoneIsNothing`, in the theorems that need it | the absent member is not a record | a nil pointer in the code |

### The publication kernel (`PublicationProofs`)

* `TypeCorrect`: `Spec => []TypeOK`.  Each collection is a map of records of
  its kind.  The staged maps are not: the kernel's increments can leave the width
  of Uint64.  The proof therefore carries a wider record type (`Wide...`)
  through staging, transition and normalisation, and comes back to the
  narrow one through `WidthErrors(b) = {}`.
* `AuthorityImplemented`: `Spec => ImplementsAuthority`, the refinement of
  `Authority` by the kernel.  The inductive invariant is `TypeOK` and
  `Anchored`: a cursor's epoch is a known source and every known source has a
  cursor.  Without it, a step could publish under a key whose epoch state is
  unknown, and the mapping (live cursors, closed cursors, ended epochs) could not
  be computed.  A commit maps to `Publish(k, closing, ending)` with `closing`
  the live keys the batch fences or retires; `Replay` and `Reject` stutter.
* `OneWriterHolds` and `OneWriterPerSource`: `Authority` alone keeps one writer per
  source, and so does the kernel, through the mapping.
* `NothingEverComesBack`, `RevisionsMoveExactly`, `InferencesStandStill`: the action
  properties of the same names in the runs.  Their invariant is `KernelInv`: `TypeOK`
  and `Valid`, which says that the snapshot passes its own validation.  The operation
  checks look only at what the batch names; that what it does *not* name stays sound
  follows from the validation of the last snapshot, hence `Valid`.  The proofs follow
  the records of one collection through `Staged...`, the transitions and normalisation
  (`KindsAreRecords`, and one lemma per stage).
* `HistoryHasNoAuthority`, `HistoryOutlivesEverything`, `NoObservationIsLost`: on `HistoryInv`,
  which adds `Filed`, every retained observation is filed under its own identity.
  Without it a commit could file another observation in its place.
* `GenerationsInTurn`: on `TurnsInv`, which adds `OneEpoch`.  `GenerationsTakeTurns` orders
  the publications of a cursor by the semantic revisions its replays answer with; that no
  earlier epoch is still current is what makes a publication the latest of its source.
* `NoSourceReachesAnother`: the objects and observations of another source are neither in the
  batch's reach nor swept by its cascade, since the bindings they rest on are not.  An
  inference may fall with an input from any source, and the property does not promise more.
  For the history of another source it rests on `HistoryInv`: what a commit retains anew comes
  from bindings the batch put out of service, hence of its own source (`NewHistoryIsOwn`).
* `PathsCanAlwaysBeClosed`: `Spec => []PathsCanBeClosed`.  This one asks that a call succeeds, so
  every error set of Apply has to be empty for the batch that fences or retires (`Closing`),
  the validation of the whole next snapshot included.  `KernelInv` says that the snapshot
  passed its validation, which is not enough: `ClosingInv` adds `OneEpoch`; that no collection is
  beyond its bound (`Fits`); that a capability goes with its service (`OfItsService`: otherwise a
  withdrawal of the path could leave an available capability on a withdrawn service); that a
  later generation has fenced all earlier ones (`Succeeded`: otherwise the publisher's own
  generation would count as regressed); that envelopes are those of the candidates (`Enveloped`);
  and that cursors and history are finite, so that their number is one (`Finite`).  The argument
  goes collection by collection (`SourcesAsClosed` to `RetainedAsClosed`: what the batch writes, and
  that `Headroom` leaves it room), then error set by error set (`ClosingEnters` to `ClosingLeavesHistory`),
  and meets in `ClosingIsAccepted`.

### Readers (`ReadingProofs`, `EvaluationProofs`)

* `DependenciesWithin` and `DependenciesPresent` say how far `Dependencies` reaches.  The recursive
  function behind it is unfolded level by level (`DependencyLevels`) and the levels are
  compared by their least counterexample (`LeastNumber`, from the well-foundedness of the
  naturals).  This replaces an induction theorem with an operator parameter, which the
  provers cannot instantiate.
* `DependenciesAreClosed` and `ClosedStaysClosed`: what a dependency rests on is a dependency, and
  what the cascade leaves resolves in itself.  So a snapshot that a cascade has run over passes
  the graph validation of `Snapshot.Validate` in one more run.
* `AgesAreAlwaysTrue`, `HistoryLastsForItsTerm`, `HonestReadersAreAlwaysAnswered`: on `ReadInv`.
  Every reading in the current snapshot, of its publication and of each of its records, is
  one the clocks gave at some instant not in the future (`Read`), and retained observations
  belong to epochs that ended before.  `AgeIsTrue` is the arithmetic of
  `evaluateFreshness` over both clocks, `WallBounds` that of two UTC readings.
* `SelectionsAreAlwaysBound`: on `BoundInv`.  Among all snapshots anyone holds a revision names
  one, and the view in hand is the view of the held snapshot of its revision, if there is one.

### Drivers (`DeliveryProofs`)

* `DeliveryRunsTheKernel`: every step of `Delivery` is a step or a stutter of `Publication`, so
  everything above holds there.
* `CommittedExactlyOnce`: on `DeliveryInv`.  Every batch on its way was composed by its
  driver for one of its jobs, at a revision not in the future; a cursor holds the bytes
  of a batch of its driver; a job was published once if it is done and not at all
  otherwise, where *done* is read off the driver and the cursor together.  A batch whose
  observation is already in carries a revision the snapshot has left behind, and
  this is what makes the kernel refuse it.

### Operations (`SiteProofs`)

About `SiteSpec`, in which the participants may call with any intent, outcome,
acknowledgement and readback; `MCSite` picks from these.

* `OutcomesStand`, `AnswersNeverDiffer`: on `TableOK`, the shape and the bound of the table.
* `NothingRunIsRejected`: on `StartedOnRoutes`, what was started has an admission with a route, and
  only an admission without one is rejected.
* `GuardsCoverRoutes`: on `RoutesKnown`.  Every snapshot a caller holds was current (`Past`) and
  every admission names the route of such a snapshot (`Routed`).  Since no revision
  counter goes back, equal revisions mean that the objects of the route are what they were.
* `OperationsClose`, `AppliedOperationsWereSeen`, `AdmissionsStand`: on `DatesOK` and `FactsDated`,
  all times on record are honest readings of instants that are over.

### Relays and locks (`ConcurrencyProofs`)

* `ActedOnceAndInTime`: on `RelayInv`.  A context on its way names the whole way it
  came and was issued by a clock off by at most its uncertainty.  *Once* is once along
  each way, as the property says.
* `OneHookAtATime`, `NobodySeesHalfACommit`: on `LocksInv`.  A call stands in its program where the locks
  it holds say (`Placed`, `Exclusive`), the two halves of a point's state differ only
  under its write lock (`Whole`), and what a reader has read so far is still true (`SeenOK`).

### Projections (`ProjectionProofs`)

On `ReaderInv`, about any number of publication points and forks: every snapshot anyone holds
is whole, a draft report is typed, and what `Project` and `DerivePackAvailability` returned is
still what they would return.

* `ReportsAreAlwaysTrue`: `ProjectionReport.Validate` counts and compares neighbours, the
  property speaks of the account as a whole.  Between the two stand lemmas about ascending
  sequences: one without repetitions that has the members and the length of another is the other.
  A snapshot's id is the digest of all of it, so a report of one point validates at no fork of it,
  equal revisions or not.
* `AvailabilityIsAlwaysTrue`: a view is only taken if it is the one `EvaluateSnapshot` would have
  made, whoever made it.
* `ReadersAreNeverRefused`: `DerivePackAvailability` evaluates the snapshot again and compares, and
  has each pack check the structure of its capabilities.  Neither ever stands in the way of a
  snapshot of known definitions.  The property supposes metadata of every shipped pack,
  without which the code refuses every snapshot.

### Packs (`PacksProofs`)

* `OwnersAreUnique`, `RelationsAreAlwaysUsable`: on `HooksOwnTheirOwn` (what a registered hook lists is
  its own) and `IndexInv`: the metadata index holds exactly what the sources taken so far say, each of
  which would have been taken alone, and it is given up only over a source that is wrong
  or a pack that comes twice.  That is why the order cannot matter.
* `CatalogReadsOneWay`: on `DocumentIsListed`.  `encoding/json` binds the last member whose name
  matches in any case; the decoder counts members and compares names.  The proof shows that
  what passes has no member twice, so that last and only are the same.
* `IntentsAreAlwaysSafe`, `VerdictsAreAlwaysExact`: on `StorageInv`.  The hooks compare decimals as
  values here and as numbers there.  The lemmas on powers of ten show that a decimal without
  trailing zeros has one notation, by which the two come to the same, for exponents of any width.

### Only model-checked

* Liveness: `EveryDriverSettles`, `EveryCallReturns`, `CommandsComeToRest`.  The prover has no
  rule for fairness.
* `WalkIsExact`: `Resolver` runs recursion on stacks of unbounded depth, and what its walk
  computes is an induction over the graph.
* `Wire` declares recursive operators, which the provers' encoding does not admit
  (`NothingKnowableIsHidden`, `ReportIsTrue`; `OrderIsJudgedAlike` and
  `UnrelatedMembersHideNoKey` are false).

## 5. Abstractions

* One asset per kernel; a batch for another asset is refused before any state is
  looked at and is one of the `malformed` batches.
* Conflicts of an envelope are a function of its candidates, so
  an envelope is its revision.
* In `Publication` the graph's traversal and its strongly connected components are
  modelled by reachability, which `Resolver` justifies; limits on nodes, depth and
  paths are constants.
* Wall and monotonic clocks are external; publishers in `Evaluation` are honest.
* An operation's arguments, effect rule and constraints appear as what packs say of
  them: which capabilities match (`wanted`, `unmet`), what a predicate holds for
  (`accepts`), what a value read back means (`judge`).  A candidate's quality is
  part of its value (`Promoted`, `Good`).  The packs' verdict on the records of a snapshot
  (`snapshotPackError`) is a verdict on the keys of its facts (`OwnedFacts`).
* What packs say of fields, dimensions, values, services and constraints to
  `DerivePackAvailability` is in the constants `Metadata` and `Accepted` and in the
  capabilities a driver offers.  Services appear as those of the capabilities.
* Of a fact key `Wire` keeps the fact it names and whatever else a sender writes into it.
* Outside `Locks`, locks are modelled by the atomicity they give: `Apply` and
  `CurrentAt` are one step each.  `SelectionKernel.mu` guards one map and calls
  nothing, and is left out of `Locks`.
* The commits of `Projection` and `StoragePack` are those of `Publication`, reduced to
  what these readers tell apart.

## 6. Plan

Done: 1. `Freshness`, `Errors`, `CandidateGraph`; 2. `Publication` and its
runs; 3. `Authority` and the refinement; 4. `PublicationProofs` (types,
refinement); 5. `Evaluation` (ages, readers, selection); 6. `Operation` and
`Site` (admission, recording, readback over real snapshots); 7. `Delivery`
(lost batches and answers, retries, crashes, liveness); 8. `Resolver` against
`CandidateGraph`; 9. `Definitions`, `Projection` with `Fork`, `Wire`, `Locks`, `Relay`,
`StoragePack`, `Catalog`.

10. Theorems about the publication kernel, its history, its readers, the drivers that
publish, the operation kernel between its callers and its owner, relays and locks,
projections, registries, the catalog and the storage pack (section 4).

Left: nothing the provers can reach; what stays with TLC is listed under "Only model-checked".

## 7. Not modelled

* Canonical JSON and digests: they stand for the contents they are computed from.
* UTF-8, escape and number syntax (`validateUnicodeEscapes`, the token reader), the
  effective field metadata of Go types (`buildJSONFieldMetadata`), text rules.
* Records the schema of `Wire` leaves out; they are handled by the same generic code.
* The tables of the other domain packs: the same hooks over other rows.
* `ProjectionManifest` and `CompatibilityAlias`: checks of one record each.
* `AdmitSelectionRoute`, `AdmitAliasRoute`, `ValidateRetry`: they refuse, or judge one
  record, and change nothing.
* `hook_inputs.go` copies what hooks are given; the models have no aliasing.
* Fixtures, scripts and author evidence.

Met while modelling and claimed by no property, since no document, comment or test
says what the code should do: a `no_effect` outcome may rest on a readback received
before the dispatch (`record.go:230`); a commit is accepted whose candidates were
received after the publication instant (`publication.go:442`); the intent hook and the
fact hooks of one pack instance run under different locks (`admission.go:214`), and a
hook that panics leaves the first of them locked (`admission.go:184`); guard claims do
not pin preconditions, so an interlock may trip between admission and dispatch.
