------------------------------ MODULE Operation ------------------------------
(***************************************************************************)
(* The operation kernel (operation/admission.go, record.go, validation.go).*)
(* Admit checks an intent against a snapshot its caller supplies and keeps *)
(* one admission per idempotency key; Record and RecordRejection give that *)
(* admission its one terminal record.  Admissions are never removed.       *)
(*                                                                         *)
(* Admit looks the key up, gives its lock back while it evaluates the      *)
(* snapshot and calls packs and the authority resolver, and takes the lock *)
(* again to install what it prepared: Admit and Install below.             *)
(*                                                                         *)
(* An intent is a record; two intents have the same canonical bytes iff    *)
(* they are equal.  What needs no state is part of it: `malformed` and     *)
(* `hook` are what its own validation and the packs report, `wanted` the   *)
(* capability instances its requirement matches, `unmet` those whose       *)
(* constraints refuse its arguments, `judge` how its effect rule relates a *)
(* value read back, `accepts` what a precondition's predicate holds for.   *)
(***************************************************************************)
EXTENDS SnapshotView

CONSTANTS Caller,           \* concurrent callers of Admit
          MaxOperations,    \* maxRetainedOperations
          Promoted,         \* values carried by qualified and promoted candidates
          Good,             \* ... that are also valid and available
          OwnedFacts,       \* fact keys the kernel's packs define
          None

ASSUME OperationAssumption == MaxOperations \in Nat \ {0} /\ Good \subseteq Promoted

VARIABLES admissions,   \* idempotency key -> admission
          calls,        \* caller -> admission prepared but not installed, or None
          answered      \* admissions handed to callers, [intent, route]

operationVars == <<admissions, calls, answered>>

-----------------------------------------------------------------------------
(* Time. *)

\* wallChronological: end is certainly not before start.
WallChronological(start, end, strict) ==
    /\ start.clock = UTC /\ end.clock = UTC
    /\ IF strict THEN end.ns - end.unc > start.ns + start.unc
                 ELSE end.ns - end.unc >= start.ns + start.unc

\* Mutant: a context must be strictly later.
StrictlyChronological(start, end) ==
    IF start.mono.epoch = end.mono.epoch THEN end.mono.ns > start.mono.ns
    ELSE WallChronological(start.wall, end.wall, TRUE)

\* contextsChronological
Chronological(start, end) ==
    IF start.mono.epoch = end.mono.epoch THEN end.mono.ns >= start.mono.ns
    ELSE WallChronological(start.wall, end.wall, FALSE)

\* Mutant: readings are taken as exact.
DeadlineByReading(wall, deadline) == wall.clock = UTC /\ wall.ns < deadline.ns

\* deadlineError: certainly before the deadline.
InTime(wall, deadline) ==
    /\ wall.clock = UTC /\ deadline.clock = UTC
    /\ wall.ns + wall.unc < deadline.ns - deadline.unc

\* Mutant: a receipt by another clock epoch is taken at its reading.
ReceiptByReading(context, times) ==
    IF context.mono.epoch = times.receipt.epoch THEN times.receipt.ns > context.mono.ns
    ELSE times.receivedAt.ns > context.wall.ns

\* receiptAfterDispatch
ReceiptAfter(context, times) ==
    IF context.mono.epoch = times.receipt.epoch THEN times.receipt.ns > context.mono.ns
    ELSE WallChronological(context.wall, times.receivedAt, TRUE)

-----------------------------------------------------------------------------
(* Facts an operation may rely on. *)

\* deriveConflicts, candidateInOpenConflict: every promoted candidate of a fact
\* with two promoted values is in conflict.
InConflict(s, id) ==
    /\ s.candidates[id].value \in Promoted
    /\ \E d, e \in {x \in DOMAIN s.candidates : /\ s.candidates[x].key = s.candidates[id].key
                                               /\ s.candidates[x].value \in Promoted} :
          s.candidates[d].value # s.candidates[e].value

Eligible(s, c, id) ==
    /\ s.candidates[id].value \in Good
    /\ FactFreshness(s, id, c) = "fresh"
    /\ ~InConflict(s, id)

\* preconditionError, for one precondition.
Met(s, c, p) ==
    /\ p.cand \in DOMAIN s.candidates
    /\ s.candidates[p.cand].key = p.fact
    /\ s.candidates[p.cand].revision = p.revision
    /\ Eligible(s, c, p.cand)
    /\ p.accepts[s.candidates[p.cand].value]

-----------------------------------------------------------------------------
(* Routes. *)

\* What keeps capability id from carrying the intent (the loop of routes).
RouteErrors(s, intent, id) ==
    LET cap == s.capabilities[id]
        stale == Flag(cap.revision # intent.capRevision, "revision_conflict")
    IN  IF cap.binding \notin DOMAIN s.bindings \/ cap.service \notin DOMAIN s.services
        THEN stale \cup {"dangling_reference"}
        ELSE
        LET svc == s.services[cap.service]
            bnd == s.bindings[cap.binding]
            src == <<bnd.source, bnd.epoch>>
        IN  stale
            \cup Flag(\/ cap.binding \notin DOMAIN s.links
                      \/ s.links[cap.binding].state # "qualified"
                      \/ svc.binding # cap.binding, "identity_not_qualified")
            \cup Flag(\/ {bnd.epoch, cap.epoch, svc.epoch} # {intent.epoch}
                      \/ src \notin DOMAIN s.sources
                      \/ s.sources[src].state # "current"
                      \/ bnd.state = "retired", "stale_source_epoch")
            \cup Flag(\/ {bnd.gen, cap.gen, svc.gen} # {intent.gen}
                      \/ bnd.state = "fenced", "stale_driver_generation")
            \cup Flag(~cap.qualified \/ ~svc.qualified, "capability_not_qualified")
            \cup Flag(\E a \in {cap.availability, svc.availability} :
                         \/ a \in {"unavailable", "withdrawn"}
                         \/ a = "degraded" /\ ~intent.degraded, "capability_unavailable")
            \cup Flag(id \in intent.unmet, "ambiguous_route")

\* routes: the capabilities that can carry the intent.
Routes(s, intent) ==
    {id \in intent.wanted \cap DOMAIN s.capabilities : RouteErrors(s, intent, id) = {}}

RouteVia(s, id) ==
    LET cap == s.capabilities[id]
    IN  [capability |-> id, service |-> cap.service, binding |-> cap.binding,
         source |-> s.bindings[cap.binding].source, epoch |-> cap.epoch, gen |-> cap.gen]

\* Mutant: the claims do not pin the capability's revisions.
GuardsByName(admission, s) ==
    LET route == admission.route
    IN  /\ route # None
        /\ route.capability \in DOMAIN s.capabilities
        /\ s.bindings[route.binding].state = "current"
        /\ s.sources[<<route.source, route.epoch>>].state = "current"
        /\ <<route.source, route.epoch, route.gen>> \notin DOMAIN s.fences

\* GuardClaims.  What the native owner finds when it rechecks them on snapshot s.
GuardsHold(admission, s) ==
    LET route == admission.route
    IN  /\ route # None
        /\ route.capability \in DOMAIN s.capabilities
        /\ s.capabilities[route.capability].revision = admission.intent.capRevision
        /\ s.revisions.capabilities = admission.intent.capabilities
        /\ s.bindings[route.binding].state = "current"
        /\ s.sources[<<route.source, route.epoch>>].state = "current"
        /\ <<route.source, route.epoch, route.gen>> \notin DOMAIN s.fences

-----------------------------------------------------------------------------
(* Admit. *)

IntentErrors(intent) == intent.malformed \cup intent.hook

\* snapshotPackError: every fact of the snapshot has a pack that owns it, whether
\* the intent rests on it or not.
PackErrors(s) ==
    Flag(\E id \in DOMAIN s.candidates : s.candidates[id].key \notin OwnedFacts,
         "definition_owner_missing")

\* Everything Admit collects between its two looks at the table.
AdmissionErrors(s, c, intent, granted) ==
    LET evaluation == EvaluationErrors(s, c)
    IN  IntentErrors(intent) \cup PackErrors(s) \cup evaluation
        \cup Flag(\/ s.revisions.semantic # intent.semantic
                  \/ s.revisions.capabilities # intent.capabilities, "revision_conflict")
        \cup Flag(c.wall.clock # UTC, "invalid_time")
        \cup Flag(~InTime(c.wall, intent.deadline), "deadline_expired")
        \cup Flag(intent.reflected, "echo_suppressed")
        \cup Flag(~InTime(c.wall, intent.expires), "causal_budget_exceeded")
        \cup Flag(evaluation = {} /\ \E p \in intent.preconditions : ~Met(s, c, p),
                  "precondition_failed")
        \cup Flag(Cardinality(Routes(s, intent)) # 1, "ambiguous_route")
        \cup Flag(~granted, "authority_missing")

Answer(admission) == answered \cup {[intent |-> admission.intent, route |-> admission.route]}

\* lookupIdempotency: the same bytes get the same admission, whatever has become
\* of it; other bytes under its key are a conflict.
AdmitKnown(x, intent) ==
    /\ calls[x] = None
    /\ IntentErrors(intent) = {}
    /\ intent.key \in DOMAIN admissions
    /\ admissions[intent.key].intent = intent
    /\ answered' = Answer(admissions[intent.key])
    /\ UNCHANGED <<admissions, calls>>

\* The intent can be admitted as far as the snapshot goes.
AdmitNew(x, s, c, intent, granted) ==
    /\ calls[x] = None
    /\ intent.key \notin DOMAIN admissions
    /\ AdmissionErrors(s, c, intent, granted) = {}
    /\ calls' = [calls EXCEPT ![x] =
          [intent |-> intent, at |-> c, revisions |-> s.revisions,
           route |-> RouteVia(s, CHOOSE id \in Routes(s, intent) : TRUE), record |-> None]]
    /\ UNCHANGED <<admissions, answered>>

AdmitRefused(x, s, c, intent, granted) ==
    /\ calls[x] = None
    /\ IF intent.key \in DOMAIN admissions /\ IntentErrors(intent) = {}
       THEN admissions[intent.key].intent # intent
       ELSE AdmissionErrors(s, c, intent, granted) # {}
    /\ UNCHANGED operationVars

Admit(x, s, c, intent, granted) ==
    \/ AdmitKnown(x, intent)
    \/ AdmitNew(x, s, c, intent, granted)
    \/ AdmitRefused(x, s, c, intent, granted)

Full == Cardinality(DOMAIN admissions) >= MaxOperations

Put(admission) ==
    [key \in DOMAIN admissions \cup {admission.intent.key} |->
        IF key = admission.intent.key THEN admission ELSE admissions[key]]

\* Mutant: the table is not looked at again after the lock was given up.
InstallUnseen(x) ==
    /\ calls[x] # None
    /\ ~Full \/ calls[x].intent.key \in DOMAIN admissions
    /\ admissions' = Put(calls[x])
    /\ answered' = Answer(calls[x])
    /\ calls' = [calls EXCEPT ![x] = None]

\* The end of Admit, under the lock: another call may have taken the key or the
\* last place.
Install(x) ==
    /\ calls[x] # None
    /\ calls' = [calls EXCEPT ![x] = None]
    /\ LET new == calls[x]
           key == new.intent.key
       IN  \/ /\ key \in DOMAIN admissions
              /\ answered' = IF admissions[key].intent = new.intent THEN Answer(admissions[key])
                                                                    ELSE answered
              /\ UNCHANGED admissions
           \/ /\ key \notin DOMAIN admissions /\ Full
              /\ UNCHANGED <<admissions, answered>>
           \/ /\ key \notin DOMAIN admissions /\ ~Full
              /\ admissions' = Put(new)
              /\ answered' = Answer(new)

-----------------------------------------------------------------------------
(* Record. *)

\* outcomeCombinationError: the evidence each outcome needs and excludes.
Supported(r) ==
    LET d   == r.dispatch
        rel == IF r.readback = None THEN None ELSE r.readback.relation
    IN  CASE r.outcome = "failed_no_contact" ->
                d.delivery = "not_sent" /\ ~d.possible /\ r.ack = None /\ rel = None
          [] r.outcome = "acknowledged_unverified" ->
                /\ d.delivery = "sent" /\ d.possible
                /\ r.ack # None /\ r.ack.state \in {"accepted", "provisional"}
                /\ rel \in {None, "inconclusive"}
          [] r.outcome = "applied" ->
                d.delivery = "sent" /\ d.possible /\ d.completed # None /\ rel = "confirms"
          [] r.outcome = "no_effect" -> d.delivery = "sent" /\ rel # "confirms"
          [] r.outcome = "conflict" -> d.delivery = "sent" /\ d.possible /\ rel = "contradicts"
          [] r.outcome = "indeterminate" ->
                d.delivery # "not_sent" /\ d.possible /\ rel \in {None, "inconclusive"}

\* ExecutionRecord.Validate and DispatchEvidence.Validate.
WellFormed(r) ==
    IF r.outcome = "rejected"
    THEN /\ r.error # None
         /\ \A f \in {"at", "revisions", "route", "dispatch", "ack", "readback"} : r[f] = None
    ELSE /\ r.error = None /\ r.at # None /\ r.revisions # None /\ r.route # None
         /\ r.dispatch # None
         /\ r.dispatch.completed # None => Chronological(r.dispatch.started, r.dispatch.completed)
         /\ r.dispatch.delivery = "not_sent" => ~r.dispatch.possible
         /\ Supported(r)

\* sameRecordAdmission
SameAdmission(r, admission) ==
    /\ r.intent = admission.intent /\ r.route = admission.route
    /\ r.at = admission.at.wall /\ r.revisions = admission.revisions

\* snapshotRouteCurrent: the admitted route is still there.
RouteIsCurrent(s, route) ==
    LET key == <<route.source, route.epoch, route.gen>>
        On(o) == /\ o.binding = route.binding /\ o.epoch = route.epoch /\ o.gen = route.gen
                 /\ o.availability # "withdrawn"
    IN  /\ <<route.source, route.epoch>> \in DOMAIN s.sources
        /\ s.sources[<<route.source, route.epoch>>].state = "current"
        /\ key \notin DOMAIN s.fences
        /\ route.binding \in DOMAIN s.bindings
        /\ s.bindings[route.binding].state = "current"
        /\ LET b == s.bindings[route.binding] IN <<b.source, b.epoch, b.gen>> = key
        /\ route.binding \in DOMAIN s.links /\ s.links[route.binding].state = "qualified"
        /\ route.service \in DOMAIN s.services /\ On(s.services[route.service])
        /\ route.capability \in DOMAIN s.capabilities /\ On(s.capabilities[route.capability])
        /\ s.capabilities[route.capability].service = route.service

\* validateReadback: the readback is a fresh observation of the intended fact
\* along the admitted route, in a snapshot after the admitted one, received
\* after the dispatch it is said to confirm or contradict.
ReadbackHolds(r, s) ==
    LET rb    == r.readback
        route == r.route
        path  == <<rb.binding, rb.source, rb.epoch, rb.gen>>
        c     == s.candidates[rb.cand]
    IN  /\ PackErrors(s) = {}
        /\ s.revisions = rb.revisions
        /\ rb.revisions.semantic > r.revisions.semantic
        /\ path = <<route.binding, route.source, route.epoch, route.gen>>
        /\ rb.cand \in DOMAIN s.candidates /\ c.revision = rb.revision
        /\ Observed(c) /\ PathOf(c) = path /\ c.key = r.intent.fact
        /\ RouteIsCurrent(s, route)
        /\ EvaluationErrors(s, rb.evaluation) = {}
        /\ Eligible(s, rb.evaluation, rb.cand)
        /\ r.outcome = "applied" => ReceiptAfter(r.dispatch.completed, c.times)
        /\ r.outcome = "conflict" => ReceiptAfter(r.dispatch.started, c.times)
        /\ r.intent.judge[c.value] = rb.relation

\* Everything Record checks of a first record; s may be None.
RecordHolds(key, r, s) ==
    /\ WellFormed(r)
    /\ r.intent.key = key
    /\ SameAdmission(r, admissions[key])
    /\ r.dispatch # None
    /\ Chronological(admissions[key].at, r.dispatch.started)
    /\ r.ack # None /\ r.ack.at.clock = r.dispatch.started.wall.clock
          => LET start == r.dispatch.started.wall
             IN  r.ack.at.ns - r.ack.at.unc >= start.ns + start.unc
    /\ r.readback # None => s # None /\ ReadbackHolds(r, s)

\* Mutant: a later record replaces the first one.
RecordAgain(key, r, s) ==
    /\ key \in DOMAIN admissions
    /\ RecordHolds(key, r, s)
    /\ admissions' = [admissions EXCEPT ![key].record = r]
    /\ UNCHANGED <<calls, answered>>

\* Record on the admission of key: the first record stands; the same one again
\* is answered and any other refused (the caller sees that in `admissions`).
Record(key, r, s) ==
    /\ key \in DOMAIN admissions
    /\ \/ /\ admissions[key].record = None
          /\ RecordHolds(key, r, s)
          /\ admissions' = [admissions EXCEPT ![key].record = r]
       \/ /\ admissions[key].record # None \/ ~RecordHolds(key, r, s)
          /\ UNCHANGED admissions
    /\ UNCHANGED <<calls, answered>>

Rejection(intent, error) ==
    [intent |-> intent, at |-> None, revisions |-> None, route |-> None, dispatch |-> None,
     ack |-> None, readback |-> None, outcome |-> "rejected", error |-> error]

\* Mutant: a rejection closes an admission that has no record yet.
RejectOpen(intent, error) ==
    /\ intent.malformed = {}
    /\ \/ /\ intent.key \notin DOMAIN admissions /\ ~Full
          /\ admissions' = Put([intent |-> intent, at |-> None, revisions |-> None,
                                route |-> None, record |-> Rejection(intent, error)])
       \/ /\ intent.key \in DOMAIN admissions
          /\ admissions[intent.key].intent = intent
          /\ admissions[intent.key].record = None
          /\ admissions' = [admissions EXCEPT ![intent.key].record = Rejection(intent, error)]
    /\ UNCHANGED <<calls, answered>>

\* RecordRejection: an intent that was never admitted is closed for good; one
\* whose key is taken is left alone, and answered if it is this very rejection.
RecordRejection(intent, error) ==
    /\ \/ /\ intent.malformed = {}
          /\ intent.key \notin DOMAIN admissions
          /\ ~Full
          /\ admissions' = Put([intent |-> intent, at |-> None, revisions |-> None,
                                route |-> None, record |-> Rejection(intent, error)])
       \/ /\ intent.malformed # {} \/ intent.key \in DOMAIN admissions \/ Full
          /\ UNCHANGED admissions
    /\ UNCHANGED <<calls, answered>>

OperationInit ==
    /\ admissions = <<>>
    /\ calls = [x \in Caller |-> None]
    /\ answered = {}
=============================================================================
