------------------------------ MODULE Delivery -------------------------------
(***************************************************************************)
(* Drivers that publish to the kernel over an unreliable path, as the      *)
(* native owners around this module do.  A driver reads the snapshot,      *)
(* computes a batch from its revision and sends it; the batch or its       *)
(* answer may be lost, late or repeated; a driver that hears nothing sends *)
(* the same bytes again or reads again and computes another batch.         *)
(* Meanwhile successors under later generations and other epochs start,    *)
(* and drivers crash.                                                      *)
(*                                                                         *)
(* The kernel is Publication's: every delivery is one Apply.  The drivers  *)
(* are code outside this repository; all they rely on is what Current and  *)
(* Apply return: the revision, their own cursor (sequence, digest, fenced),*)
(* the sources, and whether the batch was accepted.                        *)
(***************************************************************************)
EXTENDS Publication

CONSTANTS Driver,        \* driver processes
          Identity,      \* the key each of them publishes under
          NativeObject,  \* the binding each of them owns
          Reading,       \* the candidate each of them observes
          Jobs,          \* observations a driver may have to publish, 1..Jobs
          Workload,      \* [jobs, faults]: who has to publish how much, and how
                         \* many batches get lost and drivers crash meanwhile
          Now,           \* the instant of everything
          Proof          \* the evidence a successor fences with

\* No two drivers publish under one key: whoever starts a driver gives it a
\* generation of its own.
ASSUME DeliveryAssumption ==
    /\ Identity \in [Driver -> CursorKey]
    /\ \A d, e \in Driver : Identity[d] = Identity[e] => d = e
    /\ NativeObject \in [Driver -> Binding]
    /\ Reading \in [Driver -> Candidate]
    /\ Jobs \in Nat
    /\ \A w \in Workload : w.jobs \in [Driver -> 0..Jobs] /\ w.faults \in Nat
    /\ Now \in [wall : TimePoint, mono : MonotonicPoint]
    /\ Proof \in Evidence
    /\ Driver \X (1..Jobs) \subseteq Value
    /\ Driver \X (1..Jobs) \X Revision \X (0..MaxUint64) \subseteq Digest
    /\ Profile # {} /\ Resource # {} /\ FactKey # {} /\ Policy # {}

VARIABLES
    session,    \* driver -> its volatile state
    net,        \* batches on their way
    faults,     \* how many faults may still happen
    published   \* <<driver, job>> -> number of commits that carried it (not in the code)

around == <<session, net, faults, published>>
all    == <<vars, around>>

Job == 1..Jobs

\* What a batch carries and whose it is.  The digest stands for the bytes.
Bytes(d, job, seq, expected) == <<d, job, seq, expected>>
Sender(b) == b.digest[1]
Carried(digest) == <<digest[1], digest[2]>>

-----------------------------------------------------------------------------
(* What a driver makes of the snapshot it reads. *)

\* The driver's cursor holds the digest of one of its attempts at this job.
Accepted(d) ==
    LET k == Identity[d]
    IN  k \in DOMAIN cursors /\ Carried(cursors[k].digest) = <<d, session[d].job>>

\* The snapshot says that the driver's time is over.
Superseded(d) ==
    LET k == Identity[d]
        s == <<k[1], k[2]>>
    IN  \/ s \in DOMAIN sources /\ sources[s].state = "retired"
        \/ k \in DOMAIN cursors /\ cursors[k].fenced
        \/ \E j \in DOMAIN cursors : j[1] = k[1] /\ j[2] = k[2] /\ j[3] > k[3]

\* The batch that publishes the current job: whatever a hand-over needs, the
\* driver's binding if it is new, and the observation.
Compose(d) ==
    LET k      == Identity[d]
        id     == Reading[d]
        bare   == BareBatch(k, Now)
        others == {s \in DOMAIN sources : s[1] = k[1] /\ s[2] # k[2] /\ sources[s].state = "current"}
        older  == {j \in DOMAIN cursors : j[1] = k[1] /\ j[2] = k[2] /\ j[3] < k[3]
                                          /\ ~cursors[j].fenced}
        IfNew(map, x, record) == IF x \in DOMAIN map THEN <<>> ELSE [y \in {x} |-> record]
    IN  [bare EXCEPT
            !.digest = Bytes(d, session[d].job, bare.seq, bare.expected),
            !.sourceUpserts = IfNew(sources, <<k[1], k[2]>>,
                [profile |-> CHOOSE p \in Profile : TRUE, registry |-> Proof,
                 state |-> "current", revision |-> 1]),
            !.retirements = {s[2] : s \in others},
            !.fences = [j \in older |-> {Proof}],
            !.bindingUpserts = IfNew(bindings, NativeObject[d],
                [source |-> k[1], epoch |-> k[2], gen |-> k[3],
                 resource |-> CHOOSE r \in Resource : TRUE, state |-> "current", revision |-> 1]),
            !.factUpserts = [c \in {id} |->
                [assertion |-> "observed", key |-> CHOOSE f \in FactKey : TRUE,
                 value |-> <<d, session[d].job>>, source |-> k[1], binding |-> NativeObject[d],
                 epoch |-> k[2], gen |-> k[3],
                 times |-> [receivedAt |-> Now.wall, receipt |-> Now.mono],
                 policy |-> CHOOSE p \in Policy : TRUE,
                 revision |-> IF id \in DOMAIN candidates THEN candidates[id].revision + 1 ELSE 1]]]

-----------------------------------------------------------------------------
(* Drivers. *)

In(d, state) == session[d].state = state

\* A driver that waits remembers the bytes it sent; any other has none.
Session(d, state, b) == [session EXCEPT ![d].state = state, ![d].batch = b]

\* The current job is done.
Advance(d) ==
    IF session[d].job = session[d].jobs THEN Session(d, "finished", Never)
    ELSE [session EXCEPT ![d].state = "reading", ![d].job = @ + 1, ![d].batch = Never]

Start(d) ==
    /\ In(d, "down") /\ session[d].jobs > 0
    /\ session' = Session(d, "reading", Never)
    /\ UNCHANGED <<vars, net, faults, published>>

\* Current, and what follows from it.
Read(d) ==
    /\ In(d, "reading")
    /\ \/ Accepted(d) /\ session' = Advance(d) /\ UNCHANGED net
       \/ /\ ~Accepted(d) /\ Superseded(d)
          /\ session' = Session(d, "superseded", Never)
          /\ UNCHANGED net
       \/ /\ ~Accepted(d) /\ ~Superseded(d)
          /\ LET b == Compose(d)
             IN  session' = Session(d, "waiting", b) /\ net' = net \cup {b}
    /\ UNCHANGED <<vars, faults, published>>

\* No answer for some time, rightly or not: the driver sends its bytes again...
Resend(d) ==
    /\ In(d, "waiting")
    /\ session[d].batch \notin net
    /\ net' = net \cup {session[d].batch}
    /\ UNCHANGED <<vars, session, faults, published>>

\* ... or reads again.
Reconsider(d) ==
    /\ In(d, "waiting")
    /\ session' = Session(d, "reading", Never)
    /\ UNCHANGED <<vars, net, faults, published>>

-----------------------------------------------------------------------------
(* The kernel's end. *)

\* The driver that waits for this batch learns the answer; no other one does.
Answer(b, ok) ==
    LET d == Sender(b)
    IN  /\ In(d, "waiting") /\ session[d].batch = b
        /\ session' = IF ok THEN Advance(d) ELSE Session(d, "reading", Never)

\* Apply on one delivered batch.  The answer may get lost; a late one is a lost
\* one followed by the driver's own reading.
Deliver(b) ==
    /\ b \in net
    /\ net' = net \ {b}
    /\ \E ok \in BOOLEAN :
          /\ \/ ok /\ Commit(b, Now.mono)
                /\ published' = [published EXCEPT ![Carried(b.digest)] = @ + 1]
             \/ ok /\ Replay(b, Now.mono) /\ UNCHANGED published
             \/ ~ok /\ Reject(b, Now.mono) /\ UNCHANGED published
          /\ Answer(b, ok) \/ UNCHANGED session
    /\ UNCHANGED faults

-----------------------------------------------------------------------------
(* Faults. *)

Fault == faults > 0 /\ faults' = faults - 1

Lose == /\ Fault
        /\ \E b \in net : net' = net \ {b}
        /\ UNCHANGED <<vars, session, published>>

Crash(d) ==
    /\ Fault
    /\ In(d, "reading") \/ In(d, "waiting")
    /\ session' = Session(d, "crashed", Never)
    /\ UNCHANGED <<vars, net, published>>

-----------------------------------------------------------------------------
DeliveryInit ==
    /\ Init
    /\ \E w \in Workload :
          /\ session = [d \in Driver |-> [state |-> "down", job |-> 1, jobs |-> w.jobs[d],
                                        batch |-> Never]]
          /\ faults = w.faults
    /\ net = {}
    /\ published = [x \in Driver \X Job |-> 0]

DeliveryNext ==
    \/ \E d \in Driver : Start(d) \/ Read(d) \/ Resend(d) \/ Reconsider(d) \/ Crash(d)
    \/ \E b \in net : Deliver(b)
    \/ Lose

\* A batch of d is delivered: the only steps that take one off the path without
\* a fault.
Arrival(d) == /\ \E b \in net : Sender(b) = d /\ net' = net \ {b}
              /\ faults' = faults

\* A started driver that does not crash keeps running: it reads when it has to,
\* and however often it sends the same bytes again, at some point it reads
\* again.  What is on its way arrives unless it is one of the finitely many
\* batches that are lost.  Nobody has to start, and no answer has to arrive.
Fairness ==
    \A d \in Driver : /\ WF_around(Read(d))
                      /\ WF_around(Reconsider(d))
                      /\ WF_net(Arrival(d))

DeliverySpec == DeliveryInit /\ [][DeliveryNext]_all /\ Fairness

-----------------------------------------------------------------------------
(* Properties. *)

\* Exactly once, and known to be so: however batches and answers are lost,
\* repeated or overtaken, no observation is committed twice; a job its driver
\* counts as done was committed; and a driver that finds itself superseded is
\* right that its last observation is not in and never will be, though copies
\* of it may still be on their way (Apply's replay, sequence and revision
\* checks, and the cursor in the snapshot).
ExactlyOnce ==
    \A d \in Driver, j \in Job :
        /\ published[<<d, j>>] <= 1
        /\ (j < session[d].job \/ In(d, "finished")) /\ j <= session[d].jobs
              => published[<<d, j>>] = 1
        /\ In(d, "superseded") /\ j >= session[d].job => published[<<d, j>>] = 0

\* Nobody waits for ever: under fairness every driver that starts and does not
\* crash publishes all it has or learns that it is superseded, although every
\* commit of another driver, of any source, invalidates the batch it has on its
\* way (revision_conflict) and a successor must first fence generations that
\* may publish again at any moment.
EveryDriverSettles ==
    \A d \in Driver :
        In(d, "reading") ~> session[d].state \in {"finished", "superseded", "crashed"}
=============================================================================
