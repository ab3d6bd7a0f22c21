---------------------------- MODULE DeliveryProofs ----------------------------
(***************************************************************************)
(* However batches and answers are lost, repeated or overtaken between the *)
(* drivers and the kernel, no observation is committed twice.              *)
(***************************************************************************)
EXTENDS Delivery, PublicationProofs

-----------------------------------------------------------------------------
(* The inductive invariant. *)

\* The last job of the driver that the kernel has committed, according to the
\* driver's cursor.
Done(d) == IF Identity[d] \in DOMAIN cursors THEN cursors[Identity[d]].digest[2] ELSE 0

SessionStates == {"down", "reading", "waiting", "finished", "superseded", "crashed"}

IsSession(s) == s = [f \in {"state", "job", "jobs", "batch"} |-> s[f]]

\* A session on one of its jobs, all before which are done.
InOrder(s, done) ==
    /\ IsSession(s)
    /\ s.state \in SessionStates
    /\ s.jobs \in 0..Jobs
    /\ s.job \in Nat \ {0}
    /\ IF s.state = "down" THEN s.job = 1 ELSE s.job <= s.jobs
    /\ done \in {s.job - 1, s.job}
    /\ s.state = "finished" => done = s.job /\ s.job = s.jobs
    /\ s.state = "superseded" => done = s.job - 1

\* Every driver works in order, and one that gave up was right to.
SessionsAdvance ==
    /\ session = [d \in Driver |-> session[d]]
    /\ \A d \in Driver : /\ InOrder(session[d], Done(d))
                         /\ In(d, "superseded") => Superseded(d)

\* A batch that d has composed for one of its jobs up to this one.  If it
\* carries what is committed already, the snapshot has moved on since.
Composition(d, b, job, now, done) ==
    /\ Key(b) = Identity[d]
    /\ b.digest = Bytes(d, b.digest[2], b.seq, b.expected)
    /\ b.digest[2] \in 1..job
    /\ b.expected \in 0..now
    /\ b.seq \in Nat /\ b.seq <= b.expected + 1
    /\ \A c \in DOMAIN b.factUpserts : b.factUpserts[c].revision <= b.expected + 1
    /\ b.expected < MaxUint64 => b \in Batch
    /\ b.digest[2] <= done => b.expected < now

Composed(d, b) == Composition(d, b, session[d].job, revisions.semantic, Done(d))

\* Everything on its way, and everything a driver waits for, was composed.
BatchesAreComposed ==
    /\ \A b \in net : \E d \in Driver : Composed(d, b)
    /\ \A d \in Driver : In(d, "waiting") =>
          Composed(d, session[d].batch) /\ session[d].batch.digest[2] = session[d].job

\* A cursor names the driver's batch it accepted last.
CursorsAreDrivers ==
    \A k \in DOMAIN cursors : \E d \in Driver :
       /\ Identity[d] = k
       /\ cursors[k].digest = Bytes(d, cursors[k].digest[2], cursors[k].digest[3], cursors[k].digest[4])
       /\ cursors[k].digest[2] \in 1..session[d].job

\* No counter is ahead of the semantic revision.
CountersAreBehind ==
    /\ \A k \in DOMAIN cursors : cursors[k].seq <= revisions.semantic
    /\ \A id \in DOMAIN candidates : candidates[id].revision <= revisions.semantic

\* A job was committed once if it is done and not at all if it is not.
PublishedIsDone ==
    published = [x \in Driver \X Job |-> IF x[2] <= Done(x[1]) THEN 1 ELSE 0]

DeliveryInv ==
    /\ KernelInv /\ CountersAreBehind
    /\ SessionsAdvance /\ CursorsAreDrivers /\ BatchesAreComposed /\ PublishedIsDone

-----------------------------------------------------------------------------
(* What a driver composes. *)

\* A batch without links, services and capabilities, member by member.
BatchOf(k, seq, now, wall, dig, src, ret, fen, bnd, fac, yes, none, empty) ==
    [source |-> k[1], epoch |-> k[2], gen |-> k[3], seq |-> seq, expected |-> now,
     digest |-> dig, sealed |-> yes, observedAt |-> wall, malformed |-> none, hook |-> none,
     sourceUpserts |-> src, retirements |-> ret, bindingUpserts |-> bnd,
     linkUpserts |-> empty, factUpserts |-> fac, factWithdrawals |-> none,
     serviceUpserts |-> empty, serviceWithdrawals |-> none,
     capabilityUpserts |-> empty, capabilityWithdrawals |-> none, fences |-> fen]

\* A batch that a driver composes within the width of the counters is a batch of
\* the kernel's, computed from the revision the driver has read.
LEMMA ComposeIsBatch ==
    ASSUME TypeOK, CountersAreBehind, NEW d \in Driver, session[d].job \in 1..Jobs
    PROVE  /\ Key(Compose(d)) = Identity[d]
           /\ Compose(d).expected = revisions.semantic
           /\ Compose(d).seq \in Nat /\ Compose(d).seq <= revisions.semantic + 1
           /\ Compose(d).digest =
                 Bytes(d, session[d].job, Compose(d).seq, revisions.semantic)
           /\ \A c \in DOMAIN Compose(d).factUpserts :
                 Compose(d).factUpserts[c].revision <= revisions.semantic + 1
           /\ revisions.semantic < MaxUint64 => Compose(d) \in Batch
  <1> DEFINE k      == Identity[d]
             id     == Reading[d]
             others == {s \in DOMAIN sources : s[1] = k[1] /\ s[2] # k[2]
                                                  /\ sources[s].state = "current"}
             older  == {j \in DOMAIN cursors : j[1] = k[1] /\ j[2] = k[2] /\ j[3] < k[3]
                                                  /\ ~cursors[j].fenced}
             seq    == IF k \in DOMAIN cursors THEN cursors[k].seq + 1 ELSE 1
             rev    == IF id \in DOMAIN candidates THEN candidates[id].revision + 1 ELSE 1
             now    == revisions.semantic
             srcRec == [profile |-> CHOOSE p \in Profile : TRUE, registry |-> Proof,
                        state |-> "current", revision |-> 1]
             bndRec == [source |-> k[1], epoch |-> k[2], gen |-> k[3],
                        resource |-> CHOOSE r \in Resource : TRUE, state |-> "current",
                        revision |-> 1]
             facRec == [assertion |-> "observed", key |-> CHOOSE f \in FactKey : TRUE,
                        value |-> <<d, session[d].job>>, source |-> k[1],
                        binding |-> NativeObject[d], epoch |-> k[2], gen |-> k[3],
                        times |-> [receivedAt |-> Now.wall, receipt |-> Now.mono],
                        policy |-> CHOOSE p \in Policy : TRUE, revision |-> rev]
             IfNew(map, x, record) == IF x \in DOMAIN map THEN <<>> ELSE [y \in {x} |-> record]
             digest == Bytes(d, session[d].job, seq, now)
             srcs   == IfNew(sources, <<k[1], k[2]>>, srcRec)
             ends   == {s[2] : s \in others}
             fens   == [j \in older |-> {Proof}]
             bnds   == IfNew(bindings, NativeObject[d], bndRec)
             facs   == [c \in {id} |-> facRec]
             yes    == TRUE
             none   == {}
             empty  == <<>>
             b      == BatchOf(k, seq, now, Now.wall, digest, srcs, ends, fens, bnds, facs,
                               yes, none, empty)
  <1>1. Compose(d) = b
    <2> DEFINE bare == BareBatch(k, Now)
               any  == CHOOSE x \in Digest : TRUE
               Rec(dig, src, ret, fen, bnd, fac) ==
                  BatchOf(k, seq, now, Now.wall, dig, src, ret, fen, bnd, fac, yes, none, empty)
    <2>1. bare = Rec(any, empty, none, empty, empty, empty)
      BY DEF BareBatch, BatchOf
    <2>2. bare.seq = seq /\ bare.expected = now
      BY DEF BareBatch
    <2>3. Compose(d) = [bare EXCEPT !.digest = Bytes(d, session[d].job, bare.seq, bare.expected),
                                    !.sourceUpserts = srcs,
                                    !.retirements = ends, !.fences = fens,
                                    !.bindingUpserts = bnds, !.factUpserts = facs]
      BY DEF Compose
    <2> HIDE DEF k, seq, now, srcs, ends, fens, bnds, facs, bare, any, yes, none, empty
    <2>4. digest = Bytes(d, session[d].job, bare.seq, bare.expected)
      BY <2>2
    <2> HIDE DEF digest
    <2> DEFINE r1 == [bare EXCEPT !.digest = digest]
               r2 == [r1 EXCEPT !.sourceUpserts = srcs]
               r3 == [r2 EXCEPT !.retirements = ends]
               r4 == [r3 EXCEPT !.fences = fens]
               r5 == [r4 EXCEPT !.bindingUpserts = bnds]
               r6 == [r5 EXCEPT !.factUpserts = facs]
    <2>5. Compose(d) = r6
      BY <2>3, <2>4
    <2> HIDE DEF r2, r3, r4, r5, r6
    <2>6. r1 = Rec(digest, empty, none, empty, empty, empty)
      BY <2>1 DEF BatchOf
    <2> HIDE DEF r1
    <2>7. r2 = Rec(digest, srcs, none, empty, empty, empty)
      BY <2>6 DEF BatchOf, r2
    <2>8. r3 = Rec(digest, srcs, ends, empty, empty, empty)
      BY <2>7 DEF BatchOf, r3
    <2>9. r4 = Rec(digest, srcs, ends, fens, empty, empty)
      BY <2>8 DEF BatchOf, r4
    <2>10. r5 = Rec(digest, srcs, ends, fens, bnds, empty)
      BY <2>9 DEF BatchOf, r5
    <2>11. r6 = Rec(digest, srcs, ends, fens, bnds, facs)
      BY <2>10 DEF BatchOf, r6
    <2> QED
      BY <2>5, <2>11
  <1>2. /\ k \in CursorKey /\ k[1] \in Source /\ k[2] \in Epoch /\ k[3] \in Generation
        /\ k = <<k[1], k[2], k[3]>>
    <2>1. k \in CursorKey
      BY DeliveryAssumption
    <2> HIDE DEF k
    <2> QED
      BY <2>1 DEF CursorKey
  <1>3. now \in 0..MaxUint64 /\ now \in Nat
    <2>1. now \in 0..MaxUint64
      BY DEF TypeOK
    <2> QED
      BY <2>1, MaxUint64Assumption
  <1>4. seq \in Nat \ {0} /\ seq <= now + 1
    <2>1. \A j \in DOMAIN cursors : cursors[j].seq \in Nat
      BY MaxUint64Assumption DEF TypeOK, IsMap, CursorRecord, Revision
    <2> QED
      BY <1>3, <2>1 DEF CountersAreBehind
  <1>5. rev \in Nat \ {0} /\ rev <= now + 1
    <2>1. \A j \in DOMAIN candidates : candidates[j].revision \in Nat
      BY MaxUint64Assumption
         DEF TypeOK, IsMap, CandidateRecord, ObservedRecord, InferredRecord, Revision
    <2> QED
      BY <1>3, <2>1 DEF CountersAreBehind
  <1> HIDE DEF seq, rev, now
  <1>6. \A c \in DOMAIN facs : facs[c].revision <= now + 1
    BY <1>5
  <1>7. ASSUME now < MaxUint64 PROVE b \in Batch
    <2>1. seq \in Revision /\ rev \in Revision /\ 1 \in Revision
      BY <1>3, <1>4, <1>5, <1>7, MaxUint64Assumption DEF Revision
    <2>2. digest \in Digest
      <3>1. <<d, session[d].job, seq, now>> \in Driver \X (1..Jobs) \X Revision \X (0..MaxUint64)
        BY <1>3, <2>1
      <3> QED
        BY <3>1, DeliveryAssumption DEF Bytes
    <2>3. srcRec \in SourceRecord
      <3>1. (CHOOSE p \in Profile : TRUE) \in Profile /\ Proof \in Evidence
        BY DeliveryAssumption
      <3> QED
        BY <2>1, <3>1 DEF SourceRecord
    <2>4. bndRec \in BindingRecord
      <3>1. (CHOOSE r \in Resource : TRUE) \in Resource
        BY DeliveryAssumption
      <3> QED
        BY <1>2, <2>1, <3>1 DEF BindingRecord
    <2>5. facRec \in CandidateRecord
      <3>1. /\ (CHOOSE f \in FactKey : TRUE) \in FactKey
            /\ (CHOOSE p \in Policy : TRUE) \in Policy
            /\ <<d, session[d].job>> \in Value
            /\ NativeObject[d] \in Binding
        BY DeliveryAssumption
      <3>2. [receivedAt |-> Now.wall, receipt |-> Now.mono] \in Times
        BY DeliveryAssumption DEF Times
      <3> QED
        BY <1>2, <2>1, <3>1, <3>2 DEF CandidateRecord, ObservedRecord
    <2>6. srcs \in Map(SourceKey, SourceRecord)
      <3>1. <<k[1], k[2]>> \in SourceKey
        BY <1>2 DEF SourceKey
      <3> HIDE DEF srcRec, k
      <3>2. IsMap(srcs, SourceKey, SourceRecord)
        BY <2>3, <3>1, SingletonIsMap, EmptyIsMap
      <3> QED
        BY <3>2, IsMapInMap
    <2>7. bnds \in Map(Binding, BindingRecord)
      <3>1. NativeObject[d] \in Binding
        BY DeliveryAssumption
      <3> HIDE DEF bndRec
      <3>2. IsMap(bnds, Binding, BindingRecord)
        BY <2>4, <3>1, SingletonIsMap, EmptyIsMap
      <3> QED
        BY <3>2, IsMapInMap
    <2>8. facs \in Map(Candidate, CandidateRecord)
      <3>1. id \in Candidate
        BY DeliveryAssumption
      <3> HIDE DEF facRec, id
      <3>2. IsMap(facs, Candidate, CandidateRecord)
        BY <2>5, <3>1, SingletonIsMap
      <3> QED
        BY <3>2, IsMapInMap
    <2>9. fens \in Map(CursorKey, SUBSET Evidence)
      <3>1. older \subseteq CursorKey
        BY DEF TypeOK, IsMap
      <3>2. Proof \in Evidence
        BY DeliveryAssumption
      <3> HIDE DEF older
      <3>3. IsMap(fens, CursorKey, SUBSET Evidence)
        BY <3>1, <3>2 DEF IsMap
      <3> QED
        BY <3>3, IsMapInMap
    <2>10. ends \in SUBSET Epoch
      BY DEF TypeOK, IsMap, SourceKey
    <2>11. /\ <<>> \in Map(Binding, LinkRecord) /\ <<>> \in Map(Service, ServiceRecord)
           /\ <<>> \in Map(Capability, CapabilityRecord)
      BY EmptyIsMap, IsMapInMap
    <2>12. Now.wall \in TimePoint
      BY DeliveryAssumption
    <2> HIDE DEF k, digest, srcs, ends, fens, bnds, facs
    <2> QED
      BY <1>2, <1>3, <2>1, <2>2, <2>6, <2>7, <2>8, <2>9, <2>10, <2>11, <2>12
         DEF Batch, BatchOf
  <1>8. Key(b) = k
    BY <1>2 DEF Key, BatchOf
  <1>9. b.expected = now /\ b.seq = seq /\ b.digest = digest /\ b.factUpserts = facs
    BY DEF BatchOf
  <1> HIDE DEF b, facs
  <1> QED
    BY <1>1, <1>4, <1>6, <1>7, <1>8, <1>9 DEF now

-----------------------------------------------------------------------------
(* Sessions. *)

\* A session that goes on.
On(d, state, job, batch) ==
    [state |-> state, job |-> job, jobs |-> session[d].jobs, batch |-> batch]

\* What EXCEPT makes of a session.
WithState(s, state, b) == [[s EXCEPT !.state = state] EXCEPT !.batch = b]
WithNext(s, state, b)  == [[[s EXCEPT !.state = state] EXCEPT !.job = @ + 1] EXCEPT !.batch = b]

\* Updating a session changes what it names and nothing else.
LEMMA SessionExcept ==
    ASSUME NEW s, IsSession(s), NEW state, NEW b
    PROVE  /\ WithState(s, state, b) =
                 [state |-> state, job |-> s.job, jobs |-> s.jobs, batch |-> b]
           /\ WithNext(s, state, b) =
                 [state |-> state, job |-> s.job + 1, jobs |-> s.jobs, batch |-> b]
  <1> DEFINE r == [s EXCEPT !.state = state]
             t == [r EXCEPT !.job = @ + 1]
  <1>1. IsSession(r) /\ r.job = s.job /\ r.jobs = s.jobs /\ r.state = state
    BY DEF IsSession
  <1> HIDE DEF r
  <1>2. [r EXCEPT !.batch = b] = [state |-> state, job |-> s.job, jobs |-> s.jobs, batch |-> b]
    BY <1>1 DEF IsSession
  <1>3. IsSession(t) /\ t.job = s.job + 1 /\ t.jobs = s.jobs /\ t.state = state
    BY <1>1 DEF IsSession
  <1> HIDE DEF t
  <1>4. [t EXCEPT !.batch = b] =
           [state |-> state, job |-> s.job + 1, jobs |-> s.jobs, batch |-> b]
    BY <1>3 DEF IsSession
  <1> QED
    BY <1>2, <1>4 DEF WithState, WithNext, r, t

\* A session that moves on is about the same jobs.
LEMMA SessionIsOn ==
    ASSUME SessionsAdvance, NEW d \in Driver, NEW state, NEW b
    PROVE  Session(d, state, b) = [session EXCEPT ![d] = On(d, state, session[d].job, b)]
  <1>1. IsSession(session[d])
    BY DEF SessionsAdvance, InOrder
  <1>2. WithState(session[d], state, b) = On(d, state, session[d].job, b)
    BY <1>1, SessionExcept DEF On
  <1>3. session = [e \in Driver |-> session[e]]
    BY DEF SessionsAdvance
  <1>4. Session(d, state, b) = [session EXCEPT ![d] = WithState(session[d], state, b)]
    BY <1>3 DEF Session, WithState
  <1> QED
    BY <1>2, <1>4

\* A driver whose job is done goes on in order.
LEMMA AdvanceIsOn ==
    ASSUME SessionsAdvance, NEW d \in Driver, In(d, "reading") \/ In(d, "waiting")
    PROVE  \E new : /\ Advance(d) = [session EXCEPT ![d] = new]
                    /\ InOrder(new, session[d].job)
                    /\ new.job >= session[d].job /\ new.state \in {"reading", "finished"}
  <1> DEFINE s == session[d]
             last == On(d, "finished", s.job, Never)
             next == On(d, "reading", s.job + 1, Never)
  <1>1. /\ IsSession(s)
        /\ s.job \in Nat \ {0} /\ s.jobs \in 0..Jobs /\ s.job <= s.jobs
    BY DEF SessionsAdvance, InOrder, In
  <1>2. s.jobs \in Nat
    BY <1>1, DeliveryAssumption
  <1>3. session = [e \in Driver |-> session[e]]
    BY DEF SessionsAdvance
  <1>4. CASE s.job = s.jobs
    <2>1. Advance(d) = [session EXCEPT ![d] = last]
      BY <1>4, SessionIsOn DEF Advance
    <2>2. InOrder(last, s.job)
      BY <1>1, <1>4 DEF InOrder, IsSession, On, SessionStates
    <2>3. last.job >= s.job /\ last.state = "finished"
      BY <1>1 DEF On
    <2> HIDE DEF last
    <2> QED
      BY <2>1, <2>2, <2>3
  <1>5. CASE s.job # s.jobs
    <2>1. WithNext(s, "reading", Never) = next
      BY <1>1, SessionExcept DEF On
    <2>2. Advance(d) = [session EXCEPT ![d] = WithNext(session[d], "reading", Never)]
      BY <1>3, <1>5 DEF Advance, WithNext
    <2>3. Advance(d) = [session EXCEPT ![d] = next]
      BY <2>1, <2>2
    <2>4. s.job + 1 \in Nat \ {0} /\ s.job + 1 <= s.jobs
      BY <1>1, <1>2, <1>5
    <2>5. s.job \in {(s.job + 1) - 1, s.job + 1}
      BY <1>1
    <2>6. InOrder(next, s.job)
      BY <1>1, <2>4, <2>5 DEF InOrder, IsSession, On, SessionStates
    <2>7. next.job >= s.job /\ next.state = "reading"
      BY <1>1 DEF On
    <2> HIDE DEF next
    <2> QED
      BY <2>3, <2>6, <2>7
  <1> QED
    BY <1>4, <1>5

\* A composition stays one while its driver goes on and the snapshot moves on.
LEMMA CompositionStays ==
    ASSUME NEW d, NEW b, NEW job \in Nat, NEW now \in Nat, NEW done,
           Composition(d, b, job, now, done),
           NEW job2 \in Nat, NEW now2 \in Nat, NEW done2, job <= job2, now <= now2,
           done2 = done \/ now < now2
    PROVE  Composition(d, b, job2, now2, done2)
  <1>1. b.digest[2] \in 1..job2
    BY DEF Composition
  <1>2. b.expected \in 0..now2
    BY DEF Composition
  <1>3. b.digest[2] <= done2 => b.expected < now2
    BY DEF Composition
  <1> QED
    BY <1>1, <1>2, <1>3 DEF Composition

\* What the invariant says of the numbers in a state.
LEMMA NumbersAreNat ==
    ASSUME DeliveryInv
    PROVE  /\ revisions.semantic \in Nat
           /\ \A d \in Driver : session[d].job \in Nat /\ Done(d) \in Nat
  <1>1. revisions.semantic \in Nat
    BY MaxUint64Assumption DEF DeliveryInv, KernelInv, TypeOK
  <1>2. ASSUME NEW d \in Driver PROVE session[d].job \in Nat /\ Done(d) \in Nat
    <2>1. InOrder(session[d], Done(d))
      BY DEF DeliveryInv, SessionsAdvance
    <2> QED
      BY <2>1 DEF InOrder
  <1> QED
    BY <1>1, <1>2

-----------------------------------------------------------------------------
(* Steps that leave the kernel alone. *)

\* A driver goes on and puts on its way at most what it has composed.
LEMMA DriverStep ==
    ASSUME DeliveryInv, UNCHANGED vars, UNCHANGED published,
           NEW d \in Driver, NEW new, session' = [session EXCEPT ![d] = new],
           InOrder(new, Done(d)), new.job >= session[d].job,
           new.state = "superseded" => Superseded(d),
           new.state = "waiting" =>
              /\ Composition(d, new.batch, new.job, revisions.semantic, Done(d))
              /\ new.batch.digest[2] = new.job,
           \A b \in net' : b \in net \/ (new.state = "waiting" /\ b = new.batch)
    PROVE  DeliveryInv'
  <1>1. /\ \A e \in Driver : session'[e] = IF e = d THEN new ELSE session[e]
        /\ session' = [e \in Driver |-> session'[e]]
    BY DEF DeliveryInv, SessionsAdvance
  <1>2. \A e \in Driver : Done(e)' = Done(e) /\ (Superseded(e) => Superseded(e)')
    BY DEF vars, Done, Superseded
  <1>3. \A e \in Driver : session'[e].job \in Nat /\ session'[e].job >= session[e].job
    BY <1>1, NumbersAreNat DEF InOrder
  <1>4. ASSUME NEW e \in Driver, NEW b, Composed(e, b) PROVE Composed(e, b)'
    <2>1. revisions' = revisions /\ revisions.semantic \in Nat /\ session[e].job \in Nat
      BY NumbersAreNat DEF vars
    <2>2. Composition(e, b, session'[e].job, revisions.semantic, Done(e))
      BY <1>3, <1>4, <2>1, CompositionStays DEF Composed
    <2> QED
      BY <1>2, <2>1, <2>2 DEF Composed
  <1>5. new.state = "waiting" => Composed(d, new.batch)'
    BY <1>1, <1>2 DEF Composed, vars
  <1>6. KernelInv' /\ CountersAreBehind'
    <2>1. KernelInv /\ CountersAreBehind
      BY DEF DeliveryInv
    <2>2. TypeOK'
      BY <2>1 DEF KernelInv, TypeOK, vars
    <2>3. Valid' /\ CountersAreBehind'
      BY <2>1 DEF KernelInv, Valid, CountersAreBehind, vars
    <2> QED
      BY <2>2, <2>3 DEF KernelInv
  <1>7. SessionsAdvance'
    <2>1. ASSUME NEW e \in Driver
          PROVE  InOrder(session[e], Done(e))' /\ (In(e, "superseded") => Superseded(e))'
      <3>1. InOrder(session'[e], Done(e)) /\ (session'[e].state = "superseded" => Superseded(e))
        BY <1>1 DEF DeliveryInv, SessionsAdvance, In
      <3> QED
        BY <1>2, <3>1 DEF In
    <2> QED
      BY <1>1, <2>1 DEF SessionsAdvance
  <1>8. CursorsAreDrivers'
    <2>1. ASSUME NEW k \in DOMAIN cursors
          PROVE  \E e \in Driver :
                    /\ Identity[e] = k
                    /\ cursors[k].digest = Bytes(e, cursors[k].digest[2], cursors[k].digest[3],
                                                 cursors[k].digest[4])
                    /\ cursors[k].digest[2] \in 1..session'[e].job
      <3>1. PICK e \in Driver :
               /\ Identity[e] = k
               /\ cursors[k].digest = Bytes(e, cursors[k].digest[2], cursors[k].digest[3],
                                            cursors[k].digest[4])
               /\ cursors[k].digest[2] \in 1..session[e].job
        BY DEF DeliveryInv, CursorsAreDrivers
      <3>2. cursors[k].digest[2] \in 1..session'[e].job
        BY <1>3, <3>1, NumbersAreNat
      <3> QED
        BY <3>1, <3>2
    <2>2. cursors' = cursors
      BY DEF vars
    <2> QED
      BY <2>1, <2>2 DEF CursorsAreDrivers
  <1>9. BatchesAreComposed'
    <2>1. \A b \in net' : \E e \in Driver : Composed(e, b)'
      BY <1>4, <1>5 DEF DeliveryInv, BatchesAreComposed
    <2>2. ASSUME NEW e \in Driver, In(e, "waiting")'
          PROVE  /\ Composition(e, session'[e].batch, session'[e].job, revisions'.semantic, Done(e)')
                 /\ session'[e].batch.digest[2] = session'[e].job
      <3>1. CASE e = d
        BY <1>1, <1>2, <2>2, <3>1 DEF In, vars
      <3>2. CASE e # d
        BY <1>1, <1>2, <2>2, <3>2 DEF In, vars, DeliveryInv, BatchesAreComposed, Composed
      <3> QED
        BY <3>1, <3>2
    <2> QED
      BY <2>1, <2>2 DEF BatchesAreComposed, Composed
  <1>10. PublishedIsDone'
    BY <1>2 DEF DeliveryInv, PublishedIsDone
  <1> QED
    BY <1>6, <1>7, <1>8, <1>9, <1>10 DEF DeliveryInv

\* A step in which nobody does anything, or only a batch gets lost.
LEMMA StutterKeepsInv ==
    ASSUME DeliveryInv, UNCHANGED vars, UNCHANGED <<session, published>>, net' \subseteq net
    PROVE  DeliveryInv'
  <1>1. \A d \in Driver : Done(d)' = Done(d) /\ (Superseded(d) => Superseded(d)')
    BY DEF vars, Done, Superseded
  <1>2. revisions' = revisions /\ session' = session /\ cursors' = cursors
    BY DEF vars
  <1>3. \A d \in Driver : \A b : Composed(d, b) => Composed(d, b)'
    BY <1>1, <1>2 DEF Composed
  <1>4. KernelInv'
    BY DEF DeliveryInv, KernelInv, TypeOK, Valid, vars
  <1>5. CountersAreBehind' /\ CursorsAreDrivers'
    BY DEF DeliveryInv, CountersAreBehind, CursorsAreDrivers, vars
  <1>6. SessionsAdvance'
    BY <1>1, <1>2 DEF DeliveryInv, SessionsAdvance, In
  <1>7. BatchesAreComposed'
    BY <1>1, <1>2, <1>3 DEF DeliveryInv, BatchesAreComposed, In
  <1>8. PublishedIsDone'
    BY <1>1 DEF DeliveryInv, PublishedIsDone
  <1> QED
    BY <1>4, <1>5, <1>6, <1>7, <1>8 DEF DeliveryInv

\* A driver that goes on with the same job, and waits for nothing.
LEMMA OnInOrder ==
    ASSUME SessionsAdvance, NEW d \in Driver, NEW b, NEW state \in SessionStates \ {"down", "finished"},
           state = "superseded" => session[d].job = Done(d) + 1,
           session[d].job <= session[d].jobs
    PROVE  /\ InOrder(On(d, state, session[d].job, b), Done(d))
           /\ On(d, state, session[d].job, b).job >= session[d].job
           /\ On(d, state, session[d].job, b).job = session[d].job
           /\ On(d, state, session[d].job, b).state = state
           /\ On(d, state, session[d].job, b).batch = b
  <1> DEFINE s == session[d]
             new == On(d, state, s.job, b)
  <1>1. InOrder(s, Done(d))
    BY DEF SessionsAdvance
  <1>2. /\ new.state = state /\ new.job = s.job /\ new.jobs = s.jobs /\ new.batch = b
        /\ IsSession(new)
    BY DEF On, IsSession
  <1>3. s.job \in Nat /\ Done(d) \in Nat
    BY <1>1 DEF InOrder
  <1> HIDE DEF new, s
  <1>4. InOrder(new, Done(d))
    BY <1>1, <1>2, <1>3 DEF InOrder, s
  <1> QED
    BY <1>2, <1>3, <1>4 DEF new, s

\* A driver's own cursor names its own batch.
LEMMA OwnCursor ==
    ASSUME DeliveryInv, NEW d \in Driver, Identity[d] \in DOMAIN cursors
    PROVE  LET dig == cursors[Identity[d]].digest
           IN  dig = Bytes(d, dig[2], dig[3], dig[4]) /\ dig[2] \in 1..session[d].job
  <1>1. PICK e \in Driver :
           /\ Identity[e] = Identity[d]
           /\ cursors[Identity[d]].digest =
                 Bytes(e, cursors[Identity[d]].digest[2], cursors[Identity[d]].digest[3],
                       cursors[Identity[d]].digest[4])
           /\ cursors[Identity[d]].digest[2] \in 1..session[e].job
    BY DEF DeliveryInv, CursorsAreDrivers
  <1>2. e = d
    BY <1>1, DeliveryAssumption
  <1> QED
    BY <1>1, <1>2

\* The snapshot tells a driver whether its job is done.
LEMMA AcceptedIsDone ==
    ASSUME DeliveryInv, NEW d \in Driver
    PROVE  Accepted(d) <=> Done(d) = session[d].job
  <1>1. InOrder(session[d], Done(d))
    BY DEF DeliveryInv, SessionsAdvance
  <1>2. session[d].job # 0
    BY <1>1 DEF InOrder
  <1>3. CASE Identity[d] \in DOMAIN cursors
    <2>1. cursors[Identity[d]].digest =
             Bytes(d, cursors[Identity[d]].digest[2], cursors[Identity[d]].digest[3],
                   cursors[Identity[d]].digest[4])
      BY <1>3, OwnCursor
    <2>2. Carried(cursors[Identity[d]].digest) = <<d, cursors[Identity[d]].digest[2]>>
      BY <2>1 DEF Carried, Bytes
    <2> QED
      BY <1>3, <2>2 DEF Accepted, Done
  <1>4. CASE Identity[d] \notin DOMAIN cursors
    BY <1>2, <1>4 DEF Accepted, Done
  <1> QED
    BY <1>3, <1>4

\* What a driver does by itself, crashes included, keeps the invariant.
LEMMA DriverKeepsInv ==
    ASSUME DeliveryInv, NEW d \in Driver,
           Start(d) \/ Read(d) \/ Resend(d) \/ Reconsider(d) \/ Crash(d)
    PROVE  DeliveryInv'
  <1> DEFINE s == session[d]
             On2(state, b) == On(d, state, s.job, b)
  <1>1. SessionsAdvance /\ InOrder(s, Done(d))
    BY DEF DeliveryInv, SessionsAdvance
  <1>2. ASSUME ~In(d, "down") \/ s.jobs > 0 PROVE s.job <= s.jobs
    <2>1. s.jobs \in Nat
      BY <1>1, DeliveryAssumption DEF InOrder
    <2> QED
      BY <1>1, <1>2, <2>1 DEF InOrder, In
  <1>3. ASSUME NEW state \in {"reading", "crashed"}, s.job <= s.jobs,
               session' = Session(d, state, Never), UNCHANGED <<vars, published>>,
               net' \subseteq net
        PROVE  DeliveryInv'
    <2>1. session' = [session EXCEPT ![d] = On2(state, Never)]
      BY <1>1, <1>3, SessionIsOn
    <2>2. /\ InOrder(On2(state, Never), Done(d)) /\ On2(state, Never).job >= s.job
          /\ On2(state, Never).state = state
      BY <1>1, <1>3, OnInOrder DEF SessionStates
    <2> HIDE DEF On2, s
    <2> QED
      BY <1>3, <2>1, <2>2, DriverStep DEF s
  <1>4. CASE Start(d)
    BY <1>1, <1>2, <1>3, <1>4 DEF Start
  <1>5. CASE Reconsider(d)
    BY <1>2, <1>3, <1>5 DEF Reconsider, In
  <1>6. CASE Crash(d)
    BY <1>2, <1>3, <1>6 DEF Crash, In
  <1>7. CASE Read(d)
    <2>1. s.job <= s.jobs
      BY <1>2, <1>7 DEF Read, In
    <2>2. ASSUME Accepted(d), session' = Advance(d), UNCHANGED net PROVE DeliveryInv'
      <3>1. PICK new : /\ Advance(d) = [session EXCEPT ![d] = new]
                       /\ InOrder(new, s.job)
                       /\ new.job >= s.job /\ new.state \in {"reading", "finished"}
        BY <1>1, <1>7, AdvanceIsOn DEF Read
      <3>2. Done(d) = s.job
        BY <2>2, AcceptedIsDone
      <3> HIDE DEF s
      <3> QED
        BY <1>7, <2>2, <3>1, <3>2, DriverStep DEF s, Read
    <2>3. ASSUME ~Accepted(d), Superseded(d), session' = Session(d, "superseded", Never),
                 UNCHANGED net
          PROVE  DeliveryInv'
      <3>1. s.job = Done(d) + 1
        <4>1. Done(d) # s.job
          BY <2>3, AcceptedIsDone
        <4> QED
          BY <1>1, <4>1 DEF InOrder
      <3>2. session' = [session EXCEPT ![d] = On2("superseded", Never)]
        BY <1>1, <2>3, SessionIsOn
      <3>3. /\ InOrder(On2("superseded", Never), Done(d))
            /\ On2("superseded", Never).job >= s.job
            /\ On2("superseded", Never).state = "superseded"
        BY <1>1, <2>1, <3>1, OnInOrder DEF SessionStates
      <3> HIDE DEF On2, s
      <3> QED
        BY <1>7, <2>3, <3>2, <3>3, DriverStep DEF s, Read
    <2>4. ASSUME ~Accepted(d), session' = Session(d, "waiting", Compose(d)),
                 net' = net \cup {Compose(d)}
          PROVE  DeliveryInv'
      <3> DEFINE b == Compose(d)
      <3>1. session' = [session EXCEPT ![d] = On2("waiting", b)]
        BY <1>1, <2>4, SessionIsOn
      <3>2. /\ InOrder(On2("waiting", b), Done(d))
            /\ On2("waiting", b).job >= s.job /\ On2("waiting", b).job = s.job
            /\ On2("waiting", b).state = "waiting" /\ On2("waiting", b).batch = b
        BY <1>1, <2>1, OnInOrder DEF SessionStates
      <3>3. s.job \in 1..Jobs /\ s.job \in Nat /\ Done(d) \in Nat /\ Done(d) # s.job
            /\ revisions.semantic \in Nat /\ s.job \in 1..s.job /\ Done(d) <= s.job
        BY <1>1, <2>1, <2>4, AcceptedIsDone, NumbersAreNat, DeliveryAssumption DEF InOrder
      <3>4. Composition(d, b, s.job, revisions.semantic, Done(d)) /\ b.digest[2] = s.job
        <4>1. TypeOK /\ CountersAreBehind
          BY DEF DeliveryInv, KernelInv
        <4>2. /\ Key(b) = Identity[d] /\ b.expected = revisions.semantic
              /\ b.seq \in Nat /\ b.seq <= revisions.semantic + 1
              /\ b.digest = Bytes(d, s.job, b.seq, revisions.semantic)
              /\ \A c \in DOMAIN b.factUpserts : b.factUpserts[c].revision <= revisions.semantic + 1
              /\ revisions.semantic < MaxUint64 => b \in Batch
          BY <3>3, <4>1, ComposeIsBatch
        <4> HIDE DEF b, s
        <4>3. b.digest[2] = s.job
          BY <4>2 DEF Bytes
        <4>4. b.expected \in 0..revisions.semantic
          BY <3>3, <4>2
        <4>5. ~(s.job <= Done(d))
          BY <3>3
        <4> QED
          BY <3>3, <4>2, <4>3, <4>4, <4>5 DEF Composition
      <3> HIDE DEF On2, s, b
      <3> QED
        BY <1>7, <2>4, <3>1, <3>2, <3>4, DriverStep DEF s, b, Read
    <2> QED
      BY <1>7, <2>2, <2>3, <2>4 DEF Read
  <1>8. CASE Resend(d)
    <2>1. session' = [session EXCEPT ![d] = s]
      BY <1>1, <1>8 DEF Resend, SessionsAdvance
    <2>2. s.state = "waiting" /\ net' = net \cup {s.batch}
      BY <1>8 DEF Resend, In
    <2>3. Composition(d, s.batch, s.job, revisions.semantic, Done(d)) /\ s.batch.digest[2] = s.job
      BY <2>2 DEF DeliveryInv, BatchesAreComposed, Composed, In
    <2>4. s.job >= s.job
      BY NumbersAreNat
    <2> HIDE DEF s
    <2> QED
      BY <1>1, <1>8, <2>1, <2>2, <2>3, <2>4, DriverStep DEF s, Resend
  <1> QED
    BY <1>4, <1>5, <1>6, <1>7, <1>8

-----------------------------------------------------------------------------
(* Deliveries. *)

\* The digests after the commit: the publisher's cursor holds the batch's.
LEMMA DigestsAfter ==
    ASSUME TypeOK, NEW b \in Batch
    PROVE  /\ PostCursors(b)[Key(b)].digest = b.digest /\ PostCursors(b)[Key(b)].seq = b.seq
           /\ \A k \in DOMAIN cursors \ {Key(b)} : PostCursors(b)[k].digest = cursors[k].digest
  <1> DEFINE fenced == [k \in DOMAIN cursors |->
                          IF k \in FencedKeys(b) THEN [cursors[k] EXCEPT !.fenced = TRUE]
                                                 ELSE cursors[k]]
             mine   == [k \in {Key(b)} |->
                          [seq |-> b.seq, digest |-> b.digest, fenced |-> k \in DOMAIN b.fences]]
  <1>1. PostCursors(b) = With(fenced, mine)
    BY DEF PostCursors
  <1>2. /\ DOMAIN fenced = DOMAIN cursors /\ DOMAIN mine = {Key(b)}
        /\ mine[Key(b)].seq = b.seq /\ mine[Key(b)].digest = b.digest
    OBVIOUS
  <1>3. \A k \in DOMAIN cursors : fenced[k].digest = cursors[k].digest
    BY DEF TypeOK, IsMap, CursorRecord
  <1> HIDE DEF fenced, mine
  <1> QED
    BY <1>1, <1>2, <1>3 DEF With

\* A batch whose driver the snapshot has overtaken is not accepted.
LEMMA SupersededIsRejected ==
    ASSUME TypeOK, NEW d \in Driver, Superseded(d), NEW b, Key(b) = Identity[d], NEW m, Advances(b)
    PROVE  Verdict(b, m) # {}
  <1> SUFFICES ASSUME Verdict(b, m) = {} PROVE FALSE
    OBVIOUS
  <1>1. OrderErrors(b) = {} /\ EpochErrors(b) = {}
    BY AcceptedIdentity
  <1>2. Identity[d] = <<b.source, b.epoch, b.gen>>
    BY DEF Key
  <1>3. /\ Identity[d][1] = b.source /\ Identity[d][2] = b.epoch /\ Identity[d][3] = b.gen
    BY <1>2
  <1>4. b.gen \in Int
    <2>1. Identity[d] \in CursorKey
      BY DeliveryAssumption
    <2>2. Identity[d][3] \in Generation
      BY <2>1 DEF CursorKey
    <2>3. \A g \in Generation : g \in Int
      BY PublicationAssumption, MaxUint64Assumption
    <2> QED
      BY <1>3, <2>2, <2>3
  <1>5. CASE <<b.source, b.epoch>> \in DOMAIN sources /\ sources[<<b.source, b.epoch>>].state = "retired"
    BY <1>1, <1>5 DEF EpochErrors, Flag
  <1>6. CASE Key(b) \in DOMAIN cursors /\ cursors[Key(b)].fenced
    BY <1>1, <1>6 DEF OrderErrors, KnownCursor, Flag
  <1>7. ASSUME NEW j \in DOMAIN cursors, j[1] = b.source, j[2] = b.epoch, j[3] > b.gen PROVE FALSE
    <2>1. j[3] \in Int
      BY PublicationAssumption DEF TypeOK, IsMap, CursorKey
    <2>2. b.gen < j[3]
      BY <1>4, <1>7, <2>1
    <2> QED
      BY <1>1, <1>7, <2>2 DEF OrderErrors, Flag
  <1> QED
    BY <1>3, <1>5, <1>6, <1>7 DEF Superseded

\* Being superseded is for ever.
LEMMA SupersededStays ==
    ASSUME KernelInv, NEW b \in Batch, NEW m, Commit(b, m), NEW d \in Driver, Superseded(d)
    PROVE  Superseded(d)'
  <1>1. TombstonesStay
    BY CommitKeepsTombstones
  <1>2. /\ \A k \in DOMAIN sources : /\ k \in DOMAIN sources'
                                     /\ sources[k].state = "retired" => sources'[k].state = "retired"
        /\ \A k \in DOMAIN cursors : k \in DOMAIN cursors' /\ (cursors[k].fenced => cursors'[k] = cursors[k])
    BY <1>1 DEF TombstonesStay
  <1> QED
    BY <1>2 DEF Superseded

\* What the kernel's commit of a driver's batch means for the drivers.
LEMMA CommitOfDriver ==
    ASSUME DeliveryInv, NEW d \in Driver, NEW b, Composed(d, b), Commit(b, Now.mono)
    PROVE  /\ b \in Batch /\ b.expected = revisions.semantic
           /\ revisions'.semantic = revisions.semantic + 1
           /\ ~Superseded(d)
           /\ b.digest[2] = session[d].job /\ Done(d) = session[d].job - 1
           /\ Done(d)' = session[d].job
           /\ \A e \in Driver \ {d} : Done(e)' = Done(e)
           /\ \A e \in Driver : Superseded(e) => Superseded(e)'
  <1>1. TypeOK /\ KernelInv /\ Advances(b) /\ Verdict(b, Now.mono) = {}
    BY DEF DeliveryInv, KernelInv, Commit
  <1>2. /\ Key(b) = Identity[d] /\ b.digest[2] \in 1..session[d].job
        /\ b.expected < MaxUint64 => b \in Batch
        /\ b.digest[2] <= Done(d) => b.expected < revisions.semantic
    BY DEF Composed, Composition
  <1>3. revisions.semantic \in Nat /\ session[d].job \in Nat /\ Done(d) \in Nat
        /\ InOrder(session[d], Done(d))
    BY NumbersAreNat DEF DeliveryInv, SessionsAdvance
  <1>4. b.expected = revisions.semantic
    BY <1>1, AcceptedBatch DEF OrderErrors, Flag
  <1>5. b \in Batch
    <2>1. PostRevisions(b, Now.mono).semantic = revisions.semantic + 1
      BY <1>3 DEF PostRevisions
    <2>2. "semantic" \in DOMAIN PostRevisions(b, Now.mono)
      BY DEF PostRevisions
    <2>3. ~(PostRevisions(b, Now.mono).semantic > MaxUint64)
      BY <1>1, <2>2, AcceptedBatch DEF RevisionErrors, Flag
    <2>4. revisions.semantic < MaxUint64
      BY <1>3, <2>1, <2>3, MaxUint64Assumption
    <2> QED
      BY <1>2, <1>4, <2>4
  <1>6. revisions'.semantic = revisions.semantic + 1
    BY <1>1, <1>5, AcceptedBatch, PostRevisionsKind DEF Commit
  <1>7. b.digest[2] = session[d].job /\ Done(d) = session[d].job - 1
    <2>1. b.digest[2] \in Nat /\ b.digest[2] <= session[d].job
      BY <1>2, <1>3
    <2>2. b.digest[2] > Done(d)
      BY <1>2, <1>3, <1>4, <2>1
    <2>3. Done(d) = session[d].job - 1 \/ Done(d) = session[d].job
      BY <1>3 DEF InOrder
    <2> QED
      BY <1>3, <2>1, <2>2, <2>3
  <1>8. cursors' = PostCursors(b) /\ DOMAIN cursors' = DOMAIN cursors \cup {Key(b)}
    BY <1>1, <1>5, CursorsAfter DEF Commit
  <1>9. Done(d)' = session[d].job
    BY <1>1, <1>2, <1>5, <1>7, <1>8, DigestsAfter DEF Done
  <1>10. ASSUME NEW e \in Driver \ {d} PROVE Done(e)' = Done(e)
    <2>1. Identity[e] # Key(b)
      BY <1>2, DeliveryAssumption
    <2> QED
      BY <1>1, <1>5, <1>8, <2>1, DigestsAfter DEF Done
  <1>11. ~Superseded(d)
    BY <1>1, <1>2, SupersededIsRejected
  <1>12. \A e \in Driver : Superseded(e) => Superseded(e)'
    BY <1>1, <1>5, SupersededStays
  <1> QED
    BY <1>4, <1>5, <1>6, <1>7, <1>9, <1>10, <1>11, <1>12

\* The kernel commits a batch; the driver that waits for it may learn so.
LEMMA CommitKeepsInv ==
    ASSUME DeliveryInv, NEW d \in Driver, NEW b, Composed(d, b), Commit(b, Now.mono),
           net' \subseteq net,
           published' = [published EXCEPT ![Carried(b.digest)] = @ + 1],
           (In(d, "waiting") /\ session' = Advance(d)) \/ UNCHANGED session
    PROVE  DeliveryInv'
  <1> DEFINE s == session[d]
             now == revisions.semantic
  <1>1. /\ b \in Batch /\ b.expected = now /\ revisions'.semantic = now + 1
        /\ ~Superseded(d) /\ b.digest[2] = s.job /\ Done(d) = s.job - 1 /\ Done(d)' = s.job
        /\ \A e \in Driver \ {d} : Done(e)' = Done(e)
        /\ \A e \in Driver : Superseded(e) => Superseded(e)'
    BY CommitOfDriver
  <1>2. /\ SessionsAdvance /\ InOrder(s, Done(d)) /\ s.job \in Nat /\ now \in Nat
        /\ \A e \in Driver : session[e].job \in Nat /\ Done(e) \in Nat
    BY NumbersAreNat DEF DeliveryInv, SessionsAdvance
  <1>3. TypeOK /\ KernelInv /\ Advances(b) /\ Verdict(b, Now.mono) = {}
    BY DEF DeliveryInv, KernelInv, Commit
  <1>4. PICK new : /\ session' = [session EXCEPT ![d] = new]
                   /\ InOrder(new, s.job)
                   /\ new.job >= s.job
                   /\ new.state = s.state \/ new.state \in {"reading", "finished"}
                   /\ new.state = "waiting" => new = s
    <2>1. CASE UNCHANGED session
      <3>1. session' = [session EXCEPT ![d] = s]
        BY <1>2, <2>1 DEF SessionsAdvance
      <3>2. InOrder(s, s.job)
        <4>1. s.state # "finished" /\ s.state # "superseded"
          BY <1>1, <1>2 DEF InOrder, SessionsAdvance, In
        <4> HIDE DEF s
        <4> QED
          BY <1>2, <4>1 DEF InOrder
      <3>3. s.job >= s.job
        BY <1>2
      <3> HIDE DEF s
      <3> QED
        BY <3>1, <3>2, <3>3
    <2>2. CASE In(d, "waiting") /\ session' = Advance(d)
      <3>1. PICK new : /\ Advance(d) = [session EXCEPT ![d] = new]
                       /\ InOrder(new, s.job)
                       /\ new.job >= s.job /\ new.state \in {"reading", "finished"}
        BY <1>2, <2>2, AdvanceIsOn
      <3> HIDE DEF s
      <3> QED
        BY <2>2, <3>1
    <2> QED
      BY <2>1, <2>2
  <1>5. s.state # "superseded"
    BY <1>1, <1>2 DEF SessionsAdvance, In
  <1>6. /\ \A e \in Driver : session'[e] = IF e = d THEN new ELSE session[e]
        /\ session' = [e \in Driver |-> session'[e]]
    BY <1>2, <1>4 DEF SessionsAdvance
  <1>7. \A e \in Driver : session'[e].job \in Nat /\ session'[e].job >= session[e].job
    BY <1>2, <1>4, <1>6 DEF InOrder
  <1>8. ASSUME NEW e \in Driver, NEW c, Composed(e, c) PROVE Composed(e, c)'
    <2>1. now + 1 \in Nat /\ now <= now + 1 /\ now < now + 1
      BY <1>2
    <2>2. Composition(e, c, session'[e].job, now + 1, Done(e)')
      BY <1>2, <1>7, <1>8, <2>1, CompositionStays DEF Composed
    <2> QED
      BY <1>1, <2>2 DEF Composed
  <1>9. KernelInv'
    <2>1. Now.mono \in MonotonicPoint
      BY DeliveryAssumption
    <2> QED
      BY <1>1, <1>3, <2>1, CommitKeepsTypes, CommitIsValid DEF KernelInv
  <1>10. cursors' = PostCursors(b) /\ DOMAIN cursors' = DOMAIN cursors \cup {Key(b)}
    BY <1>1, <1>3, CursorsAfter DEF Commit
  <1>11. Key(b) = Identity[d] /\ b.digest = Bytes(d, s.job, b.seq, b.expected)
         /\ b.digest[2] \in 1..s.job
         /\ b.seq \in Nat /\ b.seq <= now + 1
         /\ \A c \in DOMAIN b.factUpserts : b.factUpserts[c].revision <= now + 1
    BY <1>1 DEF Composed, Composition
  <1> HIDE DEF s
  <1>12. SessionsAdvance'
    <2>1. ASSUME NEW e \in Driver
          PROVE  InOrder(session[e], Done(e))' /\ (In(e, "superseded") => Superseded(e))'
      <3>1. CASE e = d
        BY <1>1, <1>4, <1>5, <1>6, <3>1 DEF In
      <3>2. CASE e # d
        <4>1. session'[e] = session[e] /\ Done(e)' = Done(e)
          BY <1>1, <1>6, <3>2
        <4> QED
          BY <1>1, <1>2, <4>1 DEF In, SessionsAdvance
      <3> QED
        BY <3>1, <3>2
    <2> QED
      BY <1>6, <2>1 DEF SessionsAdvance
  <1>13. CountersAreBehind'
    <2>1. ASSUME NEW k \in DOMAIN cursors' PROVE cursors'[k].seq <= now + 1
      <3>1. CASE k = Key(b)
        BY <1>1, <1>3, <1>10, <1>11, <3>1, DigestsAfter
      <3>2. CASE k # Key(b)
        <4>1. cursors'[k].seq = cursors[k].seq /\ k \in DOMAIN cursors
          BY <1>1, <1>3, <1>10, <3>2, CursorsAfter
        <4>2. cursors[k].seq \in Nat /\ cursors[k].seq <= now
          BY <1>3, <4>1, MaxUint64Assumption
             DEF DeliveryInv, CountersAreBehind, TypeOK, IsMap, CursorRecord, Revision
        <4> QED
          BY <1>2, <4>1, <4>2
      <3> QED
        BY <3>1, <3>2
    <2>2. ASSUME NEW id \in DOMAIN candidates' PROVE candidates'[id].revision <= now + 1
      <3>1. candidates' = PostCandidates(b)
        BY DEF Commit
      <3>2. candidates'[id] = IF id \in DOMAIN b.factUpserts THEN b.factUpserts[id]
                                                             ELSE candidates[id]
        BY <1>1, <1>3, <3>1, CandidatesAfter
      <3>3. id \in DOMAIN b.factUpserts \/ id \in DOMAIN candidates
        BY <3>1 DEF PostCandidates, Closed, StagedCandidates, Without, With
      <3>4. CASE id \in DOMAIN b.factUpserts
        BY <1>11, <3>2, <3>4
      <3>5. CASE id \notin DOMAIN b.factUpserts
        <4>1. candidates[id].revision \in Nat /\ candidates[id].revision <= now
          BY <1>3, <3>3, <3>5, MaxUint64Assumption
             DEF DeliveryInv, CountersAreBehind, TypeOK, IsMap, CandidateRecord, ObservedRecord,
                 InferredRecord, Revision
        <4> QED
          BY <1>2, <3>2, <3>5, <4>1
      <3> QED
        BY <3>4, <3>5
    <2> QED
      BY <1>1, <2>1, <2>2 DEF CountersAreBehind
  <1>14. CursorsAreDrivers'
    <2>1. ASSUME NEW k \in DOMAIN cursors'
          PROVE  \E e \in Driver :
                    /\ Identity[e] = k
                    /\ cursors'[k].digest = Bytes(e, cursors'[k].digest[2], cursors'[k].digest[3],
                                                  cursors'[k].digest[4])
                    /\ cursors'[k].digest[2] \in 1..session'[e].job
      <3>1. CASE k = Key(b)
        <4>1. cursors'[k].digest = b.digest
          BY <1>1, <1>3, <1>10, <3>1, DigestsAfter
        <4>2. b.digest = Bytes(d, b.digest[2], b.digest[3], b.digest[4])
          BY <1>11 DEF Bytes
        <4>3. b.digest[2] \in 1..session'[d].job
          BY <1>2, <1>4, <1>6, <1>7, <1>11 DEF s
        <4> QED
          BY <1>11, <3>1, <4>1, <4>2, <4>3
      <3>2. CASE k # Key(b)
        <4>1. cursors'[k].digest = cursors[k].digest /\ k \in DOMAIN cursors
          BY <1>1, <1>3, <1>10, <3>2, DigestsAfter
        <4>2. PICK e \in Driver :
                 /\ Identity[e] = k
                 /\ cursors[k].digest = Bytes(e, cursors[k].digest[2], cursors[k].digest[3],
                                              cursors[k].digest[4])
                 /\ cursors[k].digest[2] \in 1..session[e].job
          BY <4>1 DEF DeliveryInv, CursorsAreDrivers
        <4>3. cursors[k].digest[2] \in 1..session'[e].job
          BY <1>2, <1>7, <4>2
        <4> QED
          BY <4>1, <4>2, <4>3
      <3> QED
        BY <3>1, <3>2
    <2> QED
      BY <2>1 DEF CursorsAreDrivers
  <1>15. BatchesAreComposed'
    <2>1. \A c \in net' : \E e \in Driver : Composed(e, c)'
      BY <1>8 DEF DeliveryInv, BatchesAreComposed
    <2>2. ASSUME NEW e \in Driver, In(e, "waiting")'
          PROVE  /\ Composition(e, session'[e].batch, session'[e].job, revisions'.semantic, Done(e)')
                 /\ session'[e].batch.digest[2] = session'[e].job
      <3>1. session'[e] = session[e]
        BY <1>4, <1>6, <2>2 DEF In, s
      <3>2. Composed(e, session[e].batch) /\ session[e].batch.digest[2] = session[e].job
        BY <2>2, <3>1 DEF In, DeliveryInv, BatchesAreComposed
      <3>3. Composition(e, session[e].batch, session'[e].job, revisions'.semantic, Done(e)')
        BY <1>8, <3>2 DEF Composed
      <3> QED
        BY <3>1, <3>2, <3>3
    <2> QED
      BY <2>1, <2>2 DEF BatchesAreComposed, Composed
  <1>16. PublishedIsDone'
    <2>1. Carried(b.digest) = <<d, s.job>>
      BY <1>1, <1>11 DEF Carried, Bytes
    <2>2. published = [x \in Driver \X Job |-> IF x[2] <= Done(x[1]) THEN 1 ELSE 0]
      BY DEF DeliveryInv, PublishedIsDone
    <2>3. ASSUME NEW x \in Driver \X Job
          PROVE  published'[x] = IF x[2] <= Done(x[1])' THEN 1 ELSE 0
      <3>1. x[1] \in Driver /\ x[2] \in Nat /\ x = <<x[1], x[2]>>
        BY DEF Job
      <3>2. published[x] = IF x[2] <= Done(x[1]) THEN 1 ELSE 0
        BY <2>2
      <3>3. CASE x = <<d, s.job>>
        <4>1. x[1] = d /\ x[2] = s.job
          BY <3>3
        <4>2. published[x] = 0
          BY <1>1, <1>2, <3>2, <4>1
        <4>3. published'[x] = published[x] + 1
          BY <2>1, <2>2, <3>3
        <4> QED
          BY <1>1, <1>2, <4>1, <4>2, <4>3
      <3>4. CASE x # <<d, s.job>>
        <4>1. published'[x] = published[x]
          BY <2>1, <2>2, <3>4
        <4>2. CASE x[1] = d
          <5>1. x[2] # s.job
            BY <3>1, <3>4, <4>2
          <5> QED
            BY <1>1, <1>2, <3>1, <3>2, <4>1, <4>2, <5>1
        <4>3. CASE x[1] # d
          BY <1>1, <3>1, <3>2, <4>1, <4>3
        <4> QED
          BY <4>2, <4>3
      <3> QED
        BY <3>3, <3>4
    <2>4. published' = [x \in Driver \X Job |-> published'[x]]
      BY <2>2
    <2> QED
      BY <2>3, <2>4 DEF PublishedIsDone
  <1> QED
    BY <1>9, <1>12, <1>13, <1>14, <1>15, <1>16 DEF DeliveryInv

\* An answer that changes nothing in the kernel still moves the driver on.
LEMMA DeliverKeepsInv ==
    ASSUME DeliveryInv, NEW b \in net, Deliver(b)
    PROVE  DeliveryInv'
  <1>1. PICK d \in Driver : Composed(d, b)
    BY DEF DeliveryInv, BatchesAreComposed
  <1>2. Sender(b) = d /\ Key(b) = Identity[d]
    BY <1>1 DEF Composed, Composition, Bytes, Sender
  <1>3. net' \subseteq net
    BY DEF Deliver
  <1>4. SessionsAdvance /\ InOrder(session[d], Done(d)) /\ session[d].job \in Nat
    BY NumbersAreNat DEF DeliveryInv, SessionsAdvance
  <1>5. ASSUME Commit(b, Now.mono), published' = [published EXCEPT ![Carried(b.digest)] = @ + 1],
               Answer(b, TRUE) \/ UNCHANGED session
        PROVE  DeliveryInv'
    <2>1. (In(d, "waiting") /\ session' = Advance(d)) \/ UNCHANGED session
      BY <1>2, <1>5 DEF Answer
    <2> QED
      BY <1>1, <1>3, <1>5, <2>1, CommitKeepsInv
  <1>6. ASSUME UNCHANGED <<vars, published, session>> PROVE DeliveryInv'
    BY <1>3, <1>6, StutterKeepsInv
  <1>7. ASSUME Replay(b, Now.mono), UNCHANGED published, Answer(b, TRUE) PROVE DeliveryInv'
    <2>1. In(d, "waiting") /\ session[d].batch = b /\ session' = Advance(d)
      BY <1>2, <1>7 DEF Answer
    <2>2. b.digest[2] = session[d].job
      BY <2>1 DEF DeliveryInv, BatchesAreComposed
    <2>3. Key(b) \in DOMAIN cursors /\ b.digest = cursors[Key(b)].digest
      <3>1. ~Advances(b) /\ Verdict(b, Now.mono) = {}
        BY <1>7 DEF Replay
      <3>2. EntryErrors(b) = {}
        <4>1. SUFFICES ASSUME EntryErrors(b) # {} PROVE FALSE
          OBVIOUS
        <4>2. Verdict(b, Now.mono) = EntryErrors(b)
          BY <3>1, <4>1 DEF Verdict, ReplayErrors
        <4> QED
          BY <3>1, <4>1, <4>2
      <3>3. ~Malformed(b)
        BY <3>2 DEF Malformed, RankedBefore
      <3>4. ReplayErrors(b) = {}
        BY <3>1, <3>3 DEF Verdict
      <3> QED
        BY <3>1, <3>2, <3>4 DEF ReplayErrors, Advances, KnownCursor, Flag
    <2>4. Done(d) = session[d].job
      BY <1>2, <2>2, <2>3 DEF Done
    <2>5. PICK new : /\ Advance(d) = [session EXCEPT ![d] = new]
                     /\ InOrder(new, session[d].job)
                     /\ new.job >= session[d].job /\ new.state \in {"reading", "finished"}
      BY <1>4, <2>1, AdvanceIsOn
    <2>6. UNCHANGED vars
      BY <1>7 DEF Replay
    <2> QED
      BY <1>3, <1>7, <2>1, <2>4, <2>5, <2>6, DriverStep
  <1>8. ASSUME Reject(b, Now.mono), UNCHANGED published, Answer(b, FALSE) PROVE DeliveryInv'
    <2>1. In(d, "waiting") /\ session' = Session(d, "reading", Never)
      BY <1>2, <1>8 DEF Answer
    <2>2. session[d].job <= session[d].jobs
      BY <1>4, <2>1 DEF InOrder, In
    <2> DEFINE new == On(d, "reading", session[d].job, Never)
    <2>3. InOrder(new, Done(d)) /\ new.job >= session[d].job /\ new.state = "reading"
      BY <1>4, <2>2, OnInOrder DEF SessionStates
    <2>4. session' = [session EXCEPT ![d] = new]
      BY <1>4, <2>1, SessionIsOn
    <2>5. UNCHANGED vars
      BY <1>8 DEF Reject
    <2> HIDE DEF new
    <2> QED
      BY <1>3, <1>8, <2>3, <2>4, <2>5, DriverStep
  <1> QED
    BY <1>5, <1>6, <1>7, <1>8 DEF Deliver, Replay, Reject

\* What gets lost leaves everybody else as they were.
LEMMA LoseKeepsInv ==
    ASSUME DeliveryInv, Lose
    PROVE  DeliveryInv'
  BY StutterKeepsInv DEF Lose

-----------------------------------------------------------------------------
(* The theorems. *)

\* Nothing is in flight at first.
LEMMA DeliveryInitHolds == DeliveryInit => DeliveryInv
  <1> SUFFICES ASSUME DeliveryInit PROVE DeliveryInv
    OBVIOUS
  <1>1. Init
    BY DEF DeliveryInit
  <1>2. KernelInv
    BY <1>1, InitIsTyped, InitIsValid DEF KernelInv
  <1>3. DOMAIN cursors = {} /\ DOMAIN candidates = {}
    BY <1>1 DEF Init
  <1>4. PICK w \in Workload :
           session = [d \in Driver |-> [state |-> "down", job |-> 1, jobs |-> w.jobs[d],
                                        batch |-> Never]]
    BY DEF DeliveryInit
  <1>5. \A d \in Driver : w.jobs[d] \in 0..Jobs
    BY DeliveryAssumption
  <1>6. \A d \in Driver : Done(d) = 0
    BY <1>3 DEF Done
  <1>7. SessionsAdvance
    <2>1. ASSUME NEW d \in Driver
          PROVE  InOrder(session[d], Done(d)) /\ ~In(d, "superseded") /\ ~In(d, "waiting")
      <3> DEFINE s == session[d]
      <3>1. s = [state |-> "down", job |-> 1, jobs |-> w.jobs[d], batch |-> Never]
        BY <1>4
      <3>2. IsSession(s) /\ s.state = "down" /\ s.job = 1 /\ s.jobs = w.jobs[d]
        BY <3>1 DEF IsSession
      <3> HIDE DEF s
      <3>3. InOrder(s, 0)
        BY <1>5, <3>2 DEF InOrder, SessionStates
      <3> QED
        BY <1>6, <3>2, <3>3 DEF s, In
    <2>2. session = [d \in Driver |-> session[d]]
      BY <1>4
    <2> QED
      BY <2>1, <2>2 DEF SessionsAdvance
  <1>8. CountersAreBehind /\ CursorsAreDrivers
    BY <1>3 DEF CountersAreBehind, CursorsAreDrivers
  <1>9. BatchesAreComposed
    <2>1. net = {} /\ \A d \in Driver : ~In(d, "waiting")
      BY <1>4 DEF DeliveryInit, In
    <2> QED
      BY <2>1 DEF BatchesAreComposed
  <1>10. PublishedIsDone
    <2>1. published = [x \in Driver \X Job |-> 0]
      BY DEF DeliveryInit
    <2>2. \A x \in Driver \X Job : ~(x[2] <= Done(x[1]))
      BY <1>6 DEF Job
    <2> QED
      BY <2>1, <2>2 DEF PublishedIsDone
  <1> QED
    BY <1>2, <1>7, <1>8, <1>9, <1>10 DEF DeliveryInv

\* So it is in every reachable state.
LEMMA DeliveryInvHolds == DeliverySpec => []DeliveryInv
  <1>1. DeliveryInv /\ [DeliveryNext]_all => DeliveryInv'
    <2> SUFFICES ASSUME DeliveryInv, [DeliveryNext]_all PROVE DeliveryInv'
      OBVIOUS
    <2>1. CASE UNCHANGED all
      <3>1. UNCHANGED vars /\ UNCHANGED around
        BY <2>1 DEF all
      <3>2. UNCHANGED <<session, net, published>>
        BY <3>1 DEF around
      <3> QED
        BY <3>1, <3>2, StutterKeepsInv
    <2>2. ASSUME NEW d \in Driver,
                 Start(d) \/ Read(d) \/ Resend(d) \/ Reconsider(d) \/ Crash(d)
          PROVE  DeliveryInv'
      BY <2>2, DriverKeepsInv
    <2>3. ASSUME NEW b \in net, Deliver(b) PROVE DeliveryInv'
      BY <2>3, DeliverKeepsInv
    <2>4. CASE Lose
      BY <2>4, LoseKeepsInv
    <2> QED
      BY <2>1, <2>2, <2>3, <2>4 DEF DeliveryNext
  <1> QED
    BY <1>1, DeliveryInitHolds, PTL DEF DeliverySpec

\* However batches and answers are lost, repeated or overtaken, no observation
\* is committed twice, a driver counts as done only what was committed, and one
\* that finds itself superseded is right that its observation never will be.
THEOREM CommittedExactlyOnce == DeliverySpec => []ExactlyOnce
  <1>1. DeliveryInv => ExactlyOnce
    <2> SUFFICES ASSUME DeliveryInv, NEW d \in Driver, NEW j \in Job
                 PROVE  /\ published[<<d, j>>] <= 1
                        /\ (j < session[d].job \/ In(d, "finished")) /\ j <= session[d].jobs
                              => published[<<d, j>>] = 1
                        /\ In(d, "superseded") /\ j >= session[d].job => published[<<d, j>>] = 0
      BY DEF ExactlyOnce
    <2>1. published[<<d, j>>] = IF j <= Done(d) THEN 1 ELSE 0
      BY DEF DeliveryInv, PublishedIsDone
    <2>2. InOrder(session[d], Done(d)) /\ j \in Nat
      BY DEF DeliveryInv, SessionsAdvance, Job
    <2>3. session[d].jobs \in Nat
      BY <2>2, DeliveryAssumption DEF InOrder
    <2> QED
      BY <2>1, <2>2, <2>3 DEF InOrder, In
  <1> QED
    BY <1>1, DeliveryInvHolds, PTL

\* The kernel the drivers talk to is the one Publication specifies: whatever the
\* path does to their batches, everything proved of the kernel holds among them.
THEOREM DeliveryRunsTheKernel == DeliverySpec => Spec
  <1>1. DeliveryInit => Init
    BY DEF DeliveryInit
  <1>2. DeliveryInv /\ [DeliveryNext]_all => [Next]_vars
    <2> SUFFICES ASSUME DeliveryInv, [DeliveryNext]_all PROVE Next \/ UNCHANGED vars
      OBVIOUS
    <2>1. CASE UNCHANGED all
      BY <2>1 DEF all
    <2>2. ASSUME NEW d \in Driver,
                 Start(d) \/ Read(d) \/ Resend(d) \/ Reconsider(d) \/ Crash(d)
          PROVE  UNCHANGED vars
      BY <2>2 DEF Start, Read, Resend, Reconsider, Crash
    <2>3. ASSUME NEW b \in net, Deliver(b) PROVE Next \/ UNCHANGED vars
      <3>1. PICK d \in Driver : Composed(d, b)
        BY DEF DeliveryInv, BatchesAreComposed
      <3>2. CASE Commit(b, Now.mono)
        <4>1. b \in Batch
          BY <3>1, <3>2, CommitOfDriver
        <4>2. Now.mono \in MonotonicPoint
          BY DeliveryAssumption
        <4> QED
          BY <3>2, <4>1, <4>2 DEF Next, Apply
      <3>3. CASE Replay(b, Now.mono) \/ Reject(b, Now.mono)
        BY <3>3 DEF Replay, Reject
      <3> QED
        BY <2>3, <3>2, <3>3 DEF Deliver
    <2>4. CASE Lose
      BY <2>4 DEF Lose
    <2> QED
      BY <2>1, <2>2, <2>3, <2>4 DEF DeliveryNext
  <1> QED
    BY <1>1, <1>2, DeliveryInvHolds, PTL DEF DeliverySpec, Spec
=============================================================================
