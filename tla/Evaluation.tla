----------------------------- MODULE Evaluation ------------------------------
(***************************************************************************)
(* Reading a snapshot at an instant (evaluation_selection.go, CurrentAt):  *)
(* how old each fact is, by clocks that restart and drift, and which       *)
(* candidate a presentation policy picks.                                  *)
(*                                                                         *)
(* The clocks are the environment.  A monotonic clock counts exactly but   *)
(* only within one boot; the UTC clock is off by at most the uncertainty   *)
(* it states; any other wall clock may say anything.  `now` and the field  *)
(* `received` of an observation are true time, which the code never sees.  *)
(*                                                                         *)
(* The commits that change the snapshot are Publication's, reduced to what *)
(* a reader can tell apart: an observation is published, a fact is inferred*)
(* from another one, or the source of all observations is retired.         *)
(***************************************************************************)
EXTENDS SnapshotView

CONSTANTS Candidate, FactKey, Policy, PolicyID,
          Local,       \* a wall clock other than UTC
          LocalReadings, \* what it may say
          MaxNow,      \* true time runs from 0 to MaxNow
          MaxUnc,      \* the largest uncertainty a UTC reading states
          MaxBoots,    \* number of monotonic clock epochs
          MaxCommits,  \* number of commits
          None

ASSUME EvaluationAssumption ==
    /\ UTC # Local /\ LocalReadings \subseteq Int
    /\ {MaxNow, MaxUnc, MaxBoots, MaxCommits} \subseteq Nat
    /\ \A p \in Policy : {p.fresh, p.retain, p.maxUnc} \subseteq Nat

VARIABLES
    now,        \* true time
    boot,       \* [epoch, started] the running clock epoch and when it began
    current,    \* the kernel's snapshot, or None
    policies,   \* registered selection policies
    shown,      \* the reader's copy of a snapshot, or None
    view,       \* the reader's evaluation view, or None
    selection   \* the reader's last selection, or None

clocks == <<now, boot>>
reader == <<shown, view, selection>>
vars   == <<now, boot, current, policies, shown, view, selection>>

-----------------------------------------------------------------------------
(* Clocks. *)

MonotonicNow == [epoch |-> boot.epoch, ns |-> now - boot.started]

WallNow ==
    (UNION {{[clock |-> UTC, ns |-> n, unc |-> u] : n \in now - u .. now + u} : u \in 0..MaxUnc})
    \cup {[clock |-> Local, ns |-> n, unc |-> 0] : n \in LocalReadings}

Contexts == [wall : WallNow, mono : {MonotonicNow}]

Tick == /\ now < MaxNow
        /\ now' = now + 1
        /\ UNCHANGED <<boot, current, policies, reader>>

Restart == /\ boot.epoch < MaxBoots
           /\ boot' = [epoch |-> boot.epoch + 1, started |-> now]
           /\ UNCHANGED <<now, current, policies, reader>>

-----------------------------------------------------------------------------
(* Commits, as a reader sees them (Publication). *)

\* Retained observations that have reached their deadline go with any commit.
Kept(ret, c) == [rid \in {r \in DOMAIN ret : Age(ret[r].candidate, c) # "expired"} |-> ret[rid]]

CanKeep(ret, c) == \A rid \in DOMAIN ret : Age(ret[rid].candidate, c) # "invalid_time"

Revision == IF current = None THEN 0 ELSE current.revision

Committed(cands, ret, c) ==
    [revision   |-> Revision + 1,
     candidates |-> cands, retained |-> Kept(ret, c), at |-> c]

Now(field) == IF current = None THEN <<>> ELSE current[field]

Room == Revision < MaxCommits

\* An observation is published as it is received (a delay would only move `at`
\* on, as later commits do).  It takes its candidate's place, and what was
\* inferred from the old one is dropped.
Publish(id, key, p) ==
    /\ Room
    /\ \E c \in Contexts :
          LET old   == Now("candidates")
              rest  == {d \in DOMAIN old \ {id} : id \notin Dependencies(old, d)}
              fresh == [assertion |-> "observed", key |-> key,
                        times |-> [receivedAt |-> c.wall, receipt |-> c.mono],
                        policy |-> p, received |-> now,
                        revision |-> IF id \in DOMAIN old THEN old[id].revision + 1 ELSE 1]
          IN  /\ CanKeep(Now("retained"), c)
              /\ current' = Committed([d \in rest \cup {id} |-> IF d = id THEN fresh ELSE old[d]],
                                      Now("retained"), c)
    /\ UNCHANGED <<clocks, policies, reader>>

Infer(id, from, key, p) ==
    /\ current # None
    /\ Room
    /\ id \notin DOMAIN current.candidates
    /\ from \in DOMAIN current.candidates
    /\ \E c \in Contexts :
          LET old == current.candidates
              new == [assertion |-> "inferred", key |-> key,
                      inputs |-> {[cand |-> from, revision |-> old[from].revision]},
                      times |-> [receivedAt |-> c.wall, receipt |-> c.mono],
                      policy |-> p, revision |-> 1]
          IN  /\ CanKeep(current.retained, c)
              /\ current' = Committed([d \in DOMAIN old \cup {id} |-> IF d = id THEN new ELSE old[d]],
                                      current.retained, c)
    /\ UNCHANGED <<clocks, policies, reader>>

\* The source is retired: its observations become history.  An observation is
\* kept under its candidate, its revision and the epoch that ends, which the
\* last snapshot of the epoch stands for.
Retire ==
    /\ current # None
    /\ Room
    /\ \E c \in Contexts :
          LET old  == current.candidates
              gone == {<<id, old[id].revision, Revision>> :
                        id \in {d \in DOMAIN old : Observed(old[d])}}
              ret  == [rid \in gone \cup DOMAIN current.retained |->
                          IF rid \in gone THEN [candidate |-> old[rid[1]]] ELSE current.retained[rid]]
          IN  CanKeep(ret, c) /\ current' = Committed(<<>>, ret, c)
    /\ UNCHANGED <<clocks, policies, reader>>

-----------------------------------------------------------------------------
(* The reader. *)

\* Current: a copy of the snapshot.
Fetch ==
    /\ current # None
    /\ shown' = current
    /\ UNCHANGED <<clocks, current, policies, view, selection>>

\* EvaluateSnapshot on the copy the reader holds.
Evaluate ==
    /\ shown # None
    /\ \E c \in Contexts : /\ EvaluationErrors(shown, c) = {}
                           /\ view' = View(shown, c)
    /\ UNCHANGED <<clocks, current, policies, shown, selection>>

\* CurrentAt: both under one read lock.
CurrentAt ==
    /\ current # None
    /\ \E c \in Contexts : /\ EvaluationErrors(current, c) = {}
                           /\ view' = View(current, c)
    /\ shown' = current
    /\ UNCHANGED <<clocks, current, policies, selection>>

\* RegisterSelectionPolicy: a policy is registered once.
Register(p) ==
    /\ p \notin policies
    /\ policies' = policies \cup {p}
    /\ UNCHANGED <<clocks, current, reader>>

\* Mutant: candidates and revisions are compared, the snapshot is not.
BindingByRevision(s, v) ==
    Flag(\E id \in DOMAIN v.facts \cap DOMAIN s.candidates :
            s.candidates[id].revision # v.facts[id].revision, "revision_conflict")
    \cup Flag(DOMAIN v.facts # DOMAIN s.candidates, "dangling_reference")

\* snapshotViewBinding
BindingErrors(s, v) ==
    Flag(v.snapshot # s.revision, "revision_conflict")
    \cup Flag(\E id \in DOMAIN v.facts \cap DOMAIN s.candidates :
                 s.candidates[id].revision # v.facts[id].revision, "revision_conflict")
    \cup Flag(DOMAIN v.facts # DOMAIN s.candidates, "dangling_reference")

\* SelectPresentation: the policy may return any candidate of the envelope, or
\* one that is not.  `made` remembers what the reader held; no code reads it.
Select(key, p, choice) ==
    /\ shown # None /\ view # None
    /\ BindingErrors(shown, view) = {}
    /\ \E id \in DOMAIN shown.candidates : shown.candidates[id].key = key
    /\ p \in policies
    /\ choice \in DOMAIN shown.candidates
    /\ shown.candidates[choice].key = key
    /\ selection' = [snapshot |-> shown.revision, digest |-> view, context |-> view.context,
                     key |-> key, policy |-> p, cand |-> choice,
                     revision |-> shown.candidates[choice].revision,
                     made |-> [snapshot |-> shown, view |-> view]]
    /\ UNCHANGED <<clocks, current, policies, shown, view>>

\* ValidateSelection
SelectionErrors(s, v, sel) ==
    BindingErrors(s, v)
    \cup Flag(\/ sel.snapshot # s.revision \/ sel.digest # v \/ sel.context # v.context,
              "revision_conflict")
    \cup (IF sel.cand \in DOMAIN s.candidates /\ s.candidates[sel.cand].key = sel.key
          THEN Flag(s.candidates[sel.cand].revision # sel.revision, "revision_conflict")
          ELSE {"dangling_reference"})
    \cup (IF sel.cand \in DOMAIN v.facts
          THEN Flag(v.facts[sel.cand].revision # sel.revision, "revision_conflict")
          ELSE {"dangling_reference"})

-----------------------------------------------------------------------------
Init ==
    /\ now = 0 /\ boot = [epoch |-> 1, started |-> 0]
    /\ current = None /\ policies = {}
    /\ shown = None /\ view = None /\ selection = None

Next ==
    \/ Tick \/ Restart \/ Retire
    \/ \E id \in Candidate, key \in FactKey, p \in Policy : Publish(id, key, p)
    \/ \E id, from \in Candidate, key \in FactKey, p \in Policy : Infer(id, from, key, p)
    \/ Fetch \/ Evaluate \/ CurrentAt
    \/ \E p \in PolicyID : Register(p)
    \/ \E key \in FactKey, p \in PolicyID, choice \in Candidate : Select(key, p, choice)

Spec == Init /\ [][Next]_vars

-----------------------------------------------------------------------------
(* Properties. *)

\* What a classification promises about the true age of an observation.
Truly(r, freshness) ==
    LET age == now - r.received
    IN  CASE freshness = "fresh"   -> age < r.policy.fresh
          [] freshness = "stale"   -> age >= r.policy.fresh /\ age < r.policy.retain
          [] freshness = "expired" -> age >= r.policy.retain
          [] OTHER -> TRUE

\* Nothing is said to be younger, or older, than it is.  Whatever boots lie
\* between receipt and reading and whatever the wall clocks say within their
\* uncertainty, a definite freshness of an observation is its true one, and a
\* fact inferred through any number of steps is fresh only while every
\* observation below it truly is (evaluateFreshness, evaluateCrossEpoch,
\* combineFreshness).
AgesAreTrue ==
    current # None =>
        \A c \in Contexts :
            EvaluationErrors(current, c) = {} =>
                LET v == View(current, c)
                    cands == current.candidates
                IN  /\ \A id \in DOMAIN cands :
                          Observed(cands[id]) => Truly(cands[id], v.facts[id].freshness)
                    /\ \A id \in DOMAIN cands : v.facts[id].freshness = "fresh" =>
                          \A d \in {d \in Dependencies(cands, id) : Observed(cands[d])} :
                              Truly(cands[d], "fresh")
                    /\ \A rid \in DOMAIN v.retained : Truly(current.retained[rid].candidate, v.retained[rid])

\* History is not cut short: an observation whose retention has not truly ended
\* is never dropped by a commit, even one made after a restart (the retention
\* loop of applyTo, judged by evaluateCrossEpoch).
HistoryLastsItsTerm ==
    [][current # None /\ current' # None =>
          \A rid \in DOMAIN current.retained \ DOMAIN current'.retained :
              LET c == current.retained[rid].candidate
              IN  now - c.received >= c.policy.retain]_vars

\* A reader whose clock keeps to its stated uncertainty can always read: the
\* evaluation of a snapshot is refused only for an elapsed interval wider than
\* 64 bits or because a clock other than UTC went backwards over a restart
\* (contextNotEarlierThanSnapshot, EvaluateSnapshot).
HonestReadersAreAnswered ==
    current # None =>
        \A c \in Contexts :
            \/ EvaluationErrors(current, c) = {}
            \/ now + 4 * MaxUnc > MaxUint64
            \/ c.wall.clock = Local /\ current.at.wall.clock = Local
                  /\ c.mono.epoch # current.at.mono.epoch

\* A selection is about one snapshot read at one instant: it is only made from
\* a view of the very snapshot it names, however snapshots and views were
\* fetched in between, it validates against that pair, and against no other
\* pair the reader ever holds (SelectPresentation, ValidateSelection).
SelectionsAreBound ==
    selection # None =>
        LET made == selection.made
        IN  /\ made.view = View(made.snapshot, made.view.context)
            /\ SelectionErrors(made.snapshot, made.view, selection) = {}
            /\ shown # made.snapshot \/ view # made.view
                  => SelectionErrors(shown, view, selection) # {}
=============================================================================
