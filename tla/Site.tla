-------------------------------- MODULE Site ---------------------------------
(***************************************************************************)
(* The publication kernel and the operation kernel of one asset, side by   *)
(* side.  They share no state: a caller fetches a snapshot from the one    *)
(* (Current) and hands it to the other (Admit, Record), at a time of its   *)
(* own choosing.  Between the two stands the native owner, which is not    *)
(* part of this repository: it rechecks an admission's GuardClaims against *)
(* the snapshot that is current when it starts the native call, starts each*)
(* operation at most once, and reports what it saw as evidence.            *)
(*                                                                         *)
(* Every participant reads clocks of its own.  A monotonic clock (a clock  *)
(* epoch) counts exactly from an unknown start; a UTC reading is off by at *)
(* most the uncertainty it states.  `now` is true time and no participant  *)
(* sees it.                                                                *)
(***************************************************************************)
EXTENDS Publication, Operation

CONSTANTS ClockStart,    \* clock epoch -> true time at which it reads 0
          KernelClock,   \* the clock epoch of admissions and publications
          OwnerClocks,   \* clock epochs the native owner may be running under
          Reading,       \* errors of a UTC reading: [off, unc]
          MaxNow,        \* true time runs from 0 to MaxNow
          MaxCommits     \* commits the publishers make

ASSUME SiteAssumption ==
    /\ ClockStart \in [DOMAIN ClockStart -> Int]
    /\ {KernelClock} \cup OwnerClocks \subseteq DOMAIN ClockStart
    /\ MaxNow \in Nat
    /\ \A r \in Reading : r.unc \in Nat /\ r.off \in -r.unc .. r.unc
    /\ \A t \in 0..MaxNow :
          [epoch |-> KernelClock, ns |-> t - ClockStart[KernelClock]] \in MonotonicPoint
    /\ \A p \in Policy : p.fresh \in Nat

VARIABLES now,      \* true time
          held,     \* caller -> the snapshot it fetched, or None
          native    \* key -> [delivery, started, completed], the owner's log

siteVars == <<vars, operationVars, now, held, native>>

-----------------------------------------------------------------------------
(* Clocks. *)

MonoAt(epoch, t) == [epoch |-> epoch, ns |-> t - ClockStart[epoch]]
WallAt(t) == {[clock |-> UTC, ns |-> t + r.off, unc |-> r.unc] : r \in Reading}
Contexts(epochs) == {[wall |-> w, mono |-> MonoAt(e, now)] : w \in WallAt(now), e \in epochs}

TrueTime(mono) == ClockStart[mono.epoch] + mono.ns

Tick ==
    /\ now < MaxNow
    /\ now' = now + 1
    /\ UNCHANGED <<vars, operationVars, held, native>>

-----------------------------------------------------------------------------
(* Snapshots. *)

\* Current: the immutable snapshot of the last commit.
Snapshot ==
    [revision |-> revisions.semantic, revisions |-> revisions, at |-> evaluatedAt,
     sources |-> sources, bindings |-> bindings, links |-> links, services |-> services,
     capabilities |-> capabilities, candidates |-> candidates, retained |-> retained,
     fences |-> fences]

Fetch(x) ==
    /\ revisions.semantic > 0
    /\ calls[x] = None
    /\ held' = [held EXCEPT ![x] = Snapshot]
    /\ UNCHANGED <<vars, operationVars, now, native>>

Publish(b) ==
    /\ revisions.semantic < MaxCommits
    /\ Commit(b, MonoAt(KernelClock, now))
    /\ UNCHANGED <<operationVars, now, held, native>>

-----------------------------------------------------------------------------
(* Operations. *)

Submit(x, c, intent, granted) ==
    /\ held[x] # None
    /\ Admit(x, held[x], c, intent, granted)
    /\ UNCHANGED <<vars, now, held, native>>

Finish(x) ==
    /\ Install(x)
    /\ UNCHANGED <<vars, now, held, native>>

\* The native owner starts an admitted operation; the call may turn out never
\* to have been sent.
Dispatch(key, c, delivery) ==
    /\ key \in DOMAIN admissions \ DOMAIN native
    /\ GuardsHold(admissions[key], Snapshot)
    /\ native' = [k \in DOMAIN native \cup {key} |->
                     IF k = key THEN [delivery |-> delivery, started |-> c, completed |-> None]
                                ELSE native[k]]
    /\ UNCHANGED <<vars, operationVars, now, held>>

Complete(key, c) ==
    /\ key \in DOMAIN native
    /\ native[key].delivery = "sent" /\ native[key].completed = None
    /\ native' = [native EXCEPT ![key].completed = c]
    /\ UNCHANGED <<vars, operationVars, now, held>>

\* The evidence the owner has of an operation it started.
DispatchOf(key) ==
    [delivery |-> native[key].delivery, possible |-> native[key].delivery # "not_sent",
     started |-> native[key].started, completed |-> native[key].completed]

RecordOf(key, outcome, ack, readback) ==
    LET a == admissions[key]
    IN  [intent |-> a.intent, at |-> a.at.wall, revisions |-> a.revisions, route |-> a.route,
         dispatch |-> DispatchOf(key), ack |-> ack, readback |-> readback,
         outcome |-> outcome, error |-> None]

\* A readback of candidate id in snapshot s, as the route's owner reports it.
ReadbackOf(key, s, id, c) ==
    LET a == admissions[key]
    IN  [cand |-> id, revision |-> s.candidates[id].revision, revisions |-> s.revisions,
         binding |-> a.route.binding, source |-> a.route.source, epoch |-> a.route.epoch,
         gen |-> a.route.gen, evaluation |-> c,
         relation |-> a.intent.judge[s.candidates[id].value]]

Report(key, outcome, ack, readback, s) ==
    /\ key \in DOMAIN native
    /\ Record(key, RecordOf(key, outcome, ack, readback), s)
    /\ UNCHANGED <<vars, now, held, native>>

Refuse(intent, error) ==
    /\ RecordRejection(intent, error)
    /\ UNCHANGED <<vars, now, held, native>>

SiteInit ==
    /\ Init
    /\ OperationInit
    /\ now = 0
    /\ held = [x \in Caller |-> None]
    /\ native = <<>>

\* Drivers date what they received by clocks of their own, at the time they did.
DatedHonestly(times) ==
    \E t \in Int, e \in DOMAIN ClockStart :
        t <= now /\ times.receipt = MonoAt(e, t) /\ times.receivedAt \in WallAt(t)

HonestBatches ==
    {b \in Batch : \A id \in DOMAIN b.factUpserts : DatedHonestly(b.factUpserts[id].times)}

IsIntent(intent) ==
    \A t \in {intent.deadline, intent.expires} : t.ns \in Int /\ t.unc \in Nat

\* Everything every participant may do; the model checker picks from it.
SiteNext ==
    \/ Tick
    \/ \E b \in HonestBatches : Publish(b)
    \/ \E x \in Caller :
          \/ Fetch(x)
          \/ Finish(x)
          \/ \E c \in Contexts({KernelClock}), granted \in BOOLEAN :
                \E intent : IsIntent(intent) /\ Submit(x, c, intent, granted)
    \/ \E intent, error : Refuse(intent, error)
    \/ \E key : \E c \in Contexts(OwnerClocks) :
          Complete(key, c) \/ \E delivery : Dispatch(key, c, delivery)
    \/ \E key, outcome, ack, readback : \E s \in {None} \cup {held[x] : x \in Caller} :
          Report(key, outcome, ack, readback, s)

SiteSpec == SiteInit /\ [][SiteNext]_siteVars

-----------------------------------------------------------------------------
(* Properties. *)

\* Whoever was given an admission for an intent holds the one in the table,
\* whatever calls raced for its key, and the table never outgrows its bound
\* (the second look at the table at the end of Admit).
AnswersAgree ==
    /\ Cardinality(DOMAIN admissions) <= MaxOperations
    /\ \A a \in answered :
          /\ a.intent.key \in DOMAIN admissions
          /\ admissions[a.intent.key].intent = a.intent
          /\ admissions[a.intent.key].route = a.route

\* An admission and its terminal record are never replaced or forgotten, by no
\* retry, race or late evidence (Record, RecordRejection, Admit).
OutcomesAreFinal ==
    [][\A key \in DOMAIN admissions :
          /\ key \in DOMAIN admissions'
          /\ [admissions'[key] EXCEPT !.record = None] = [admissions[key] EXCEPT !.record = None]
          /\ admissions[key].record # None => admissions'[key].record = admissions[key].record
      ]_siteVars

\* What the native owner started is never on record as rejected: a rejection
\* only closes intents that nobody can hold an admission of (RecordRejection).
RejectedIsNeverRun ==
    \A key \in DOMAIN native :
        admissions[key].record # None => admissions[key].record.outcome # "rejected"

\* An operation is only recorded as applied on an observation that the driver
\* of the admitted route really received after the native call really ended,
\* whichever clocks dated the two (validateReadback, receiptAfterDispatch).
AppliedWasSeen ==
    [][\A key \in DOMAIN admissions :
          LET r == admissions'[key].record
          IN  admissions[key].record = None /\ r # None /\ r.outcome = "applied" =>
                 \E x \in Caller :
                    /\ held[x] # None /\ held[x].revisions = r.readback.revisions
                    /\ LET c == held[x].candidates[r.readback.cand]
                       IN  /\ PathOf(c) = <<r.route.binding, r.route.source, r.route.epoch,
                                            r.route.gen>>
                           /\ TrueTime(c.times.receipt) > TrueTime(native[key].completed.mono)
                           /\ r.intent.judge[c.value] = "confirms"
      ]_siteVars

\* When an intent is let through, its deadline and its causal budget have really
\* not passed, and what it is conditioned on was really received no longer ago
\* than its policy allows and is disputed by no other candidate (deadlineError,
\* causalAdmissionError, preconditionError).
AdmissionsAreJustified ==
    [][\A x \in Caller :
          calls[x] = None /\ calls'[x] # None =>
              LET intent == calls'[x].intent
              IN  /\ \A t \in {intent.deadline, intent.expires} : now < t.ns - t.unc
                  /\ \A p \in intent.preconditions :
                        LET c == held[x].candidates[p.cand]
                        IN  /\ c.revision = p.revision
                            /\ now - TrueTime(c.times.receipt) < c.policy.fresh
                            /\ \A d \in DOMAIN held[x].candidates :
                                  held[x].candidates[d].key = c.key =>
                                      held[x].candidates[d].value \in {c.value} \cup (Value \ Promoted)
      ]_siteVars

\* What may go wrong on a route between admission and dispatch without its guard
\* claims noticing: they cover the capability, the source, the epoch, the
\* generation and the binding, but neither the identity link nor the service.
Unguarded == {"identity_not_qualified", "capability_not_qualified", "capability_unavailable"}

\* While an admission's guard claims hold on the current snapshot, its route is
\* the admitted one and only the link or the service can have become unfit; it
\* is fit if the identity and service revisions have not moved either
\* (GuardClaims, nextRevisionVector).
GuardsCoverTheRoute ==
    \A key \in DOMAIN admissions :
        LET a == admissions[key]
        IN  GuardsHold(a, Snapshot) =>
               LET errors == RouteErrors(Snapshot, a.intent, a.route.capability)
               IN  /\ RouteVia(Snapshot, a.route.capability) = a.route
                   /\ errors \subseteq Unguarded
                   /\ (/\ revisions.identity = a.revisions.identity
                       /\ revisions.services = a.revisions.services) => errors = {}

\* The order of admission and start is plain to the code: one clock epoch saw
\* both, or they are further apart than the errors of their readings.
PlainOrder(a, start) ==
    \/ a.mono.epoch = start.mono.epoch
    \/ TrueTime(start.mono) - TrueTime(a.mono) >= 2 * (a.wall.unc + start.wall.unc)

\* An operation that was started can be closed with what the owner knows, in
\* every state and whatever has become of its route, when the order of its
\* admission and its start is plain (Record, contextsChronological).
OperationsCanBeClosed ==
    \A key \in DOMAIN native :
        (/\ admissions[key].record = None
         /\ PlainOrder(admissions[key].at, native[key].started)) =>
            RecordHolds(key, [RecordOf(key, IF native[key].delivery = "not_sent"
                                            THEN "failed_no_contact" ELSE "indeterminate",
                                       None, None) EXCEPT !.dispatch.completed = None], None)
=============================================================================
