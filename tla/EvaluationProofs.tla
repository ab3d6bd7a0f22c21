--------------------------- MODULE EvaluationProofs ---------------------------
(***************************************************************************)
(* What readers can rely on, however often clocks restart and however far  *)
(* they drift within the uncertainty they state: ages are true, history    *)
(* lasts its term, honest readers are answered, and a selection is about   *)
(* one snapshot read at one instant.                                       *)
(***************************************************************************)
EXTENDS Evaluation, ReadingProofs

-----------------------------------------------------------------------------
(* Readings of clocks. *)

\* What the host's clocks may have shown at the true time t: the monotonic
\* clock is exact while its boot lasts, and UTC is as close as it says.
Read(wall, mono, t) ==
    /\ mono.epoch \in Int /\ mono.epoch <= boot.epoch /\ mono.ns \in Int
    /\ mono.epoch = boot.epoch => mono.ns = t - boot.started
    /\ wall.ns \in Int /\ wall.unc \in 0..MaxUnc
    /\ \/ wall.clock = UTC /\ wall.ns \in t - wall.unc .. t + wall.unc
       \/ wall.clock = Local

ClocksOK ==
    /\ now \in Nat
    /\ boot = [f \in {"epoch", "started"} |-> boot[f]]
    /\ boot.epoch \in Nat /\ boot.started \in Nat

\* What the clocks show now is a reading of now.
LEMMA ContextsAreRead ==
    ASSUME ClocksOK, NEW c \in Contexts
    PROVE  Read(c.wall, c.mono, now) /\ c.mono.epoch = boot.epoch
  <1>1. c.wall \in WallNow /\ c.mono = MonotonicNow
    BY DEF Contexts
  <1>2. c.mono.epoch = boot.epoch /\ c.mono.ns = now - boot.started
    BY <1>1 DEF MonotonicNow
  <1>3. MaxUnc \in Nat /\ \A u \in 0..MaxUnc : u \in Nat
    BY EvaluationAssumption
  <1>4. CASE \E u \in 0..MaxUnc : \E n \in now - u .. now + u : c.wall = [clock |-> UTC, ns |-> n, unc |-> u]
    <2>0. PICK u \in 0..MaxUnc :
             \E n \in now - u .. now + u : c.wall = [clock |-> UTC, ns |-> n, unc |-> u]
      BY <1>4
    <2>1. PICK n \in now - u .. now + u : c.wall = [clock |-> UTC, ns |-> n, unc |-> u]
      BY <2>0
    <2>2. c.wall.clock = UTC /\ c.wall.ns = n /\ c.wall.unc = u
      BY <2>1
    <2>3. n \in Int
      BY <1>3, <2>1 DEF ClocksOK
    <2> QED
      BY <1>2, <2>2, <2>3 DEF Read, ClocksOK
  <1>5. CASE \E n \in LocalReadings : c.wall = [clock |-> Local, ns |-> n, unc |-> 0]
    <2>1. PICK n \in LocalReadings : c.wall = [clock |-> Local, ns |-> n, unc |-> 0]
      BY <1>5
    <2>2. c.wall.clock = Local /\ c.wall.ns = n /\ c.wall.unc = 0 /\ n \in Int
      BY <2>1, EvaluationAssumption
    <2>3. 0 \in 0..MaxUnc
      BY <1>3
    <2> QED
      BY <1>2, <2>2, <2>3 DEF Read, ClocksOK
  <1> QED
    BY <1>1, <1>2, <1>4, <1>5 DEF WallNow

\* Of two readings of UTC, how far the difference can be from the true one.
LEMMA WallBounds ==
    ASSUME NEW t \in Nat, NEW n \in Nat, t <= n,
           NEW d, d.ns \in Int, d.unc \in 0..MaxUnc, d.ns \in t - d.unc .. t + d.unc,
           NEW w, w.ns \in Int, w.unc \in 0..MaxUnc, w.ns \in n - w.unc .. n + w.unc
    PROVE  /\ WallUpper(d, w) \in Int /\ WallLower(d, w) \in Int /\ d.unc + w.unc \in Int
           /\ n - t <= WallUpper(d, w) /\ WallUpper(d, w) <= n - t + 4 * MaxUnc
           /\ WallLower(d, w) <= n - t
           /\ d.unc + w.unc <= 2 * MaxUnc
           /\ 0 <= w.ns - d.ns + (d.unc + w.unc)
  <1>1. MaxUnc \in Nat
    BY EvaluationAssumption
  <1>2. /\ d.unc \in Int /\ w.unc \in Int /\ 0 <= d.unc /\ 0 <= w.unc
        /\ d.unc <= MaxUnc /\ w.unc <= MaxUnc
        /\ t - d.unc <= d.ns /\ d.ns <= t + d.unc /\ n - w.unc <= w.ns /\ w.ns <= n + w.unc
    BY <1>1
  <1>3. WallUpper(d, w) = w.ns - d.ns + (d.unc + w.unc)
    BY DEF WallUpper
  <1>4. WallLower(d, w) = IF w.ns - d.ns - (d.unc + w.unc) < 0 THEN 0
                                                              ELSE w.ns - d.ns - (d.unc + w.unc)
    BY DEF WallLower
  <1>5. /\ n - t <= w.ns - d.ns + (d.unc + w.unc)
        /\ w.ns - d.ns + (d.unc + w.unc) <= n - t + 4 * MaxUnc
        /\ w.ns - d.ns - (d.unc + w.unc) <= n - t
        /\ d.unc + w.unc <= 2 * MaxUnc
        /\ 0 <= n - t
    BY <1>1, <1>2
  <1>6. 0 <= w.ns - d.ns + (d.unc + w.unc)
    BY <1>2, <1>5
  <1> QED
    BY <1>1, <1>2, <1>3, <1>4, <1>5, <1>6

\* What the code makes of the age of a record that was received at time t.
LEMMA AgeIsTrue ==
    ASSUME ClocksOK, NEW c \in Contexts, NEW t \in 0..now, NEW times,
           Read(times.receivedAt, times.receipt, t), NEW p \in Policy
    PROVE  LET f == EvaluateFreshness(times, p, c)
           IN  /\ f = "fresh" => now - t < p.fresh
               /\ f = "stale" => now - t >= p.fresh /\ now - t < p.retain
               /\ f = "expired" => now - t >= p.retain
               /\ f = "invalid_time" => now + 4 * MaxUnc > MaxUint64
  <1> DEFINE f == EvaluateFreshness(times, p, c)
             d == times.receivedAt
  <1>1. Read(c.wall, c.mono, now) /\ c.mono.epoch = boot.epoch
    BY ContextsAreRead
  <1>2. /\ now \in Nat /\ t \in Nat /\ t <= now /\ MaxUnc \in Nat /\ MaxUint64 \in Nat
        /\ boot.started \in Nat /\ p.fresh \in Nat /\ p.retain \in Nat
    BY EvaluationAssumption, MaxUint64Assumption DEF ClocksOK
  <1>3. CASE times.receipt.epoch = c.mono.epoch
    <2>1. c.mono.ns - times.receipt.ns = now - t
      BY <1>1, <1>2, <1>3 DEF Read
    <2>2. f = ClassifyElapsed(now - t, p)
      BY <1>3, <2>1 DEF EvaluateFreshness
    <2> QED
      BY <1>2, <2>2 DEF ClassifyElapsed
  <1>4. CASE times.receipt.epoch # c.mono.epoch
    <2>1. f = CrossEpochFreshness(d, p, c.wall)
      BY <1>4 DEF EvaluateFreshness
    <2>2. CASE d.clock # UTC \/ c.wall.clock # UTC
      BY <2>1, <2>2 DEF CrossEpochFreshness
    <2>3. CASE d.clock = UTC /\ c.wall.clock = UTC
      <3> DEFINE upper == WallUpper(d, c.wall)
                 lower == WallLower(d, c.wall)
                 unc   == d.unc + c.wall.unc
      <3>1. /\ d.ns \in Int /\ d.unc \in 0..MaxUnc /\ d.ns \in t - d.unc .. t + d.unc
            /\ c.wall.ns \in Int /\ c.wall.unc \in 0..MaxUnc
            /\ c.wall.ns \in now - c.wall.unc .. now + c.wall.unc
        BY <1>1, <2>3, EvaluationAssumption DEF Read
      <3>2. /\ upper \in Int /\ lower \in Int /\ unc \in Int
            /\ now - t <= upper /\ upper <= now - t + 4 * MaxUnc
            /\ lower <= now - t /\ unc <= 2 * MaxUnc
        BY <1>2, <3>1, WallBounds
      <3>3. f = IF unc > MaxUint64 \/ upper < 0 \/ upper > MaxUint64 \/ lower > MaxUint64
                THEN "invalid_time"
                ELSE IF unc > p.maxUnc THEN "unknown"
                ELSE IF upper < p.fresh THEN "fresh"
                ELSE IF lower >= p.fresh /\ upper < p.retain THEN "stale"
                ELSE IF lower >= p.retain THEN "expired"
                ELSE "unknown"
        BY <2>1, <2>3 DEF CrossEpochFreshness
      <3> HIDE DEF upper, lower, unc, f
      <3>4. unc > MaxUint64 \/ upper < 0 \/ upper > MaxUint64 \/ lower > MaxUint64
            => now + 4 * MaxUnc > MaxUint64
        BY <1>2, <3>2
      <3>5. /\ upper < p.fresh => now - t < p.fresh
            /\ lower >= p.fresh /\ upper < p.retain => now - t >= p.fresh /\ now - t < p.retain
            /\ lower >= p.retain => now - t >= p.retain
        BY <1>2, <3>2
      <3>6. /\ f = "fresh" => upper < p.fresh
            /\ f = "stale" => lower >= p.fresh /\ upper < p.retain
            /\ f = "expired" => lower >= p.retain
            /\ f = "invalid_time" => unc > MaxUint64 \/ upper < 0 \/ upper > MaxUint64
                                     \/ lower > MaxUint64
        BY <3>3
      <3> QED
        BY <3>4, <3>5, <3>6 DEF f
    <2> QED
      BY <2>2, <2>3
  <1> QED
    BY <1>3, <1>4

-----------------------------------------------------------------------------
(* Every snapshot is put together from honest readings. *)

\* A candidate was dated when it was received.
Dated(r) ==
    /\ r.policy \in Policy
    /\ \E t \in 0..now : /\ Read(r.times.receivedAt, r.times.receipt, t)
                         /\ Observed(r) => t = r.received

\* What is retained is an observation of an epoch that is over.
Past(ret, revision) ==
    \A rid \in DOMAIN ret : /\ Dated(ret[rid].candidate) /\ Observed(ret[rid].candidate)
                            /\ rid[3] \in Nat /\ rid[3] < revision

SnapshotOK(s) ==
    /\ s.revision \in Nat
    /\ \E t \in 0..now : Read(s.at.wall, s.at.mono, t)
    /\ IsFiniteSet(DOMAIN s.candidates)
    /\ \A id \in DOMAIN s.candidates : Dated(s.candidates[id])
    /\ Past(s.retained, s.revision)

ReadInv == ClocksOK /\ (current # None => SnapshotOK(current))

\* A reading of a moment stays one, over ticks and restarts.
LEMMA ReadingsOnlyAge ==
    ASSUME ClocksOK, Tick \/ Restart, NEW wall, NEW mono, NEW t \in Int, Read(wall, mono, t)
    PROVE  Read(wall, mono, t)'
  <1>1. CASE Tick
    BY <1>1 DEF Tick, Read
  <1>2. CASE Restart
    <2>1. boot'.epoch = boot.epoch + 1
      BY <1>2 DEF Restart
    <2>2. mono.epoch <= boot'.epoch /\ mono.epoch # boot'.epoch
      BY <2>1 DEF Read, ClocksOK
    <2> QED
      BY <2>2 DEF Read
  <1> QED
    BY <1>1, <1>2

\* Time alone makes no date wrong.
LEMMA TimePasses ==
    ASSUME ReadInv, Tick \/ Restart
    PROVE  ReadInv'
  <1>1. UNCHANGED current /\ ClocksOK
    BY DEF Tick, Restart, ReadInv
  <1>2. ClocksOK'
    BY <1>1 DEF Tick, Restart, ClocksOK
  <1>3. \A t \in 0..now : t \in 0..now' /\ t \in Int
    BY <1>1 DEF Tick, Restart, ClocksOK
  <1>4. \A r : Dated(r) => Dated(r)'
    <2> SUFFICES ASSUME NEW r, Dated(r) PROVE Dated(r)'
      OBVIOUS
    <2>1. PICK t \in 0..now : /\ Read(r.times.receivedAt, r.times.receipt, t)
                              /\ Observed(r) => t = r.received
      BY DEF Dated
    <2>2. Read(r.times.receivedAt, r.times.receipt, t)'
      BY <1>1, <1>3, <2>1, ReadingsOnlyAge
    <2> QED
      BY <1>3, <2>1, <2>2 DEF Dated
  <1>5. ASSUME current # None PROVE SnapshotOK(current)'
    <2>1. SnapshotOK(current)
      BY <1>5 DEF ReadInv
    <2>2. PICK t \in 0..now : Read(current.at.wall, current.at.mono, t)
      BY <2>1 DEF SnapshotOK
    <2>3. Read(current.at.wall, current.at.mono, t)'
      <3>1. \A wall, mono : Read(wall, mono, t) => Read(wall, mono, t)'
        BY <1>1, <1>3, ReadingsOnlyAge
      <3> QED
        BY <1>1, <2>2, <3>1 DEF Read
    <2> QED
      BY <1>1, <1>3, <1>4, <2>1, <2>3 DEF SnapshotOK, Past
  <1> QED
    BY <1>1, <1>2, <1>5 DEF ReadInv

\* Every commit dates what it adds with one reading of the clocks, and leaves
\* what it retains as it was.
LEMMA CommitIsDated ==
    ASSUME ReadInv,
           \/ Retire
           \/ \E id \in Candidate, key \in FactKey, p \in Policy : Publish(id, key, p)
           \/ \E id, from \in Candidate, key \in FactKey, p \in Policy : Infer(id, from, key, p)
    PROVE  /\ UNCHANGED <<now, boot, policies, shown, view, selection>>
           /\ \E c \in Contexts : \E cands, ret :
                 /\ current' = Committed(cands, ret, c)
                 /\ IsFiniteSet(DOMAIN cands)
                 /\ \A id \in DOMAIN cands : Dated(cands[id])
                 /\ Past(ret, Revision + 1)
                 /\ \A rid \in DOMAIN Now("retained") :
                       rid \in DOMAIN ret /\ ret[rid] = Now("retained")[rid]
  <1> DEFINE old  == Now("candidates")
             kept == Now("retained")
  <1>1. /\ Revision \in Nat
        /\ IsFiniteSet(DOMAIN old)
        /\ \A id \in DOMAIN old : Dated(old[id])
        /\ Past(kept, Revision) /\ Past(kept, Revision + 1)
    <2>1. CASE current = None
      <3>1. old = <<>> /\ kept = <<>> /\ Revision = 0
        BY <2>1 DEF Now, Revision
      <3>2. DOMAIN old = {} /\ DOMAIN kept = {}
        BY <3>1
      <3> QED
        BY <3>1, <3>2, FS_EmptySet DEF Past
    <2>2. CASE current # None
      <3>1. SnapshotOK(current) /\ Revision = current.revision
        BY <2>2 DEF ReadInv, Revision
      <3>2. old = current.candidates /\ kept = current.retained
        BY <2>2 DEF Now
      <3>3. \A n \in Nat : n < Revision => n < Revision + 1
        BY <3>1 DEF SnapshotOK
      <3> QED
        BY <3>1, <3>2, <3>3 DEF SnapshotOK, Past
    <2> QED
      BY <2>1, <2>2
  <1>2. ClocksOK /\ now \in 0..now
    BY DEF ReadInv, ClocksOK
  <1> HIDE DEF old, kept
  <1>3. ASSUME NEW id, NEW key, NEW p \in Policy, Publish(id, key, p)
        PROVE  /\ UNCHANGED <<now, boot, policies, shown, view, selection>>
               /\ \E c \in Contexts : \E cands, ret :
                     /\ current' = Committed(cands, ret, c)
                     /\ IsFiniteSet(DOMAIN cands)
                     /\ \A d \in DOMAIN cands : Dated(cands[d])
                     /\ Past(ret, Revision + 1)
                     /\ \A rid \in DOMAIN kept : rid \in DOMAIN ret /\ ret[rid] = kept[rid]
    <2> DEFINE rest == {d \in DOMAIN old \ {id} : id \notin Dependencies(old, d)}
               fresh(c) == [assertion |-> "observed", key |-> key,
                            times |-> [receivedAt |-> c.wall, receipt |-> c.mono],
                            policy |-> p, received |-> now,
                            revision |-> IF id \in DOMAIN old THEN old[id].revision + 1 ELSE 1]
               cands(c) == [d \in rest \cup {id} |-> IF d = id THEN fresh(c) ELSE old[d]]
    <2>1. PICK c \in Contexts : current' = Committed(cands(c), kept, c)
      BY <1>3 DEF Publish, old, kept
    <2>2. Dated(fresh(c))
      <3>1. Read(c.wall, c.mono, now)
        BY <1>2, ContextsAreRead
      <3>2. /\ fresh(c).policy = p /\ fresh(c).received = now
            /\ fresh(c).times.receivedAt = c.wall /\ fresh(c).times.receipt = c.mono
        OBVIOUS
      <3> QED
        BY <1>2, <3>1, <3>2 DEF Dated
    <2> HIDE DEF fresh
    <2>3. IsFiniteSet(DOMAIN cands(c))
      <3>1. rest \subseteq DOMAIN old
        OBVIOUS
      <3>2. IsFiniteSet(rest \cup {id})
        BY <1>1, <3>1, FS_Subset, FS_AddElement
      <3> QED
        BY <3>2
    <2>4. \A d \in DOMAIN cands(c) : Dated(cands(c)[d])
      BY <1>1, <2>2
    <2>5. UNCHANGED <<now, boot, policies, shown, view, selection>>
      BY <1>3 DEF Publish, clocks, reader
    <2> HIDE DEF cands
    <2> QED
      BY <1>1, <2>1, <2>3, <2>4, <2>5
  <1>4. ASSUME NEW id, NEW from, NEW key, NEW p \in Policy, Infer(id, from, key, p)
        PROVE  /\ UNCHANGED <<now, boot, policies, shown, view, selection>>
               /\ \E c \in Contexts : \E cands, ret :
                     /\ current' = Committed(cands, ret, c)
                     /\ IsFiniteSet(DOMAIN cands)
                     /\ \A d \in DOMAIN cands : Dated(cands[d])
                     /\ Past(ret, Revision + 1)
                     /\ \A rid \in DOMAIN kept : rid \in DOMAIN ret /\ ret[rid] = kept[rid]
    <2> DEFINE new(c) == [assertion |-> "inferred", key |-> key,
                          inputs |-> {[cand |-> from, revision |-> old[from].revision]},
                          times |-> [receivedAt |-> c.wall, receipt |-> c.mono],
                          policy |-> p, revision |-> 1]
               cands(c) == [d \in DOMAIN old \cup {id} |-> IF d = id THEN new(c) ELSE old[d]]
    <2>1. current # None
      BY <1>4 DEF Infer
    <2>2. old = current.candidates /\ kept = current.retained
      BY <2>1 DEF old, kept, Now
    <2>3. PICK c \in Contexts : current' = Committed(cands(c), kept, c)
      BY <1>4, <2>2 DEF Infer
    <2>4. Dated(new(c))
      <3>1. Read(c.wall, c.mono, now)
        BY <1>2, ContextsAreRead
      <3>2. /\ new(c).policy = p /\ ~Observed(new(c))
            /\ new(c).times.receivedAt = c.wall /\ new(c).times.receipt = c.mono
        BY DEF Observed
      <3> QED
        BY <1>2, <3>1, <3>2 DEF Dated
    <2> HIDE DEF new
    <2>5. IsFiniteSet(DOMAIN cands(c))
      BY <1>1, FS_AddElement
    <2>6. \A d \in DOMAIN cands(c) : Dated(cands(c)[d])
      BY <1>1, <2>4
    <2>7. UNCHANGED <<now, boot, policies, shown, view, selection>>
      BY <1>4 DEF Infer, clocks, reader
    <2> HIDE DEF cands
    <2> QED
      BY <1>1, <2>3, <2>5, <2>6, <2>7
  <1>5. ASSUME Retire
        PROVE  /\ UNCHANGED <<now, boot, policies, shown, view, selection>>
               /\ \E c \in Contexts : \E cands, ret :
                     /\ current' = Committed(cands, ret, c)
                     /\ IsFiniteSet(DOMAIN cands)
                     /\ \A d \in DOMAIN cands : Dated(cands[d])
                     /\ Past(ret, Revision + 1)
                     /\ \A rid \in DOMAIN kept : rid \in DOMAIN ret /\ ret[rid] = kept[rid]
    <2> DEFINE gone == {<<id, old[id].revision, Revision>> : id \in {d \in DOMAIN old : Observed(old[d])}}
               ret  == [rid \in gone \cup DOMAIN kept |->
                           IF rid \in gone THEN [candidate |-> old[rid[1]]] ELSE kept[rid]]
    <2>1. current # None
      BY <1>5 DEF Retire
    <2>2. old = current.candidates /\ kept = current.retained
      BY <2>1 DEF old, kept, Now
    <2>3. PICK c \in Contexts : current' = Committed(<<>>, ret, c)
      BY <1>5, <2>2 DEF Retire
    <2>4. DOMAIN <<>> = {} /\ IsFiniteSet(DOMAIN <<>>)
      BY FS_EmptySet
    <2>5. \A rid \in gone : /\ rid[3] = Revision /\ rid[1] \in DOMAIN old
                            /\ Dated(old[rid[1]]) /\ Observed(old[rid[1]])
      BY <1>1
    <2> HIDE DEF gone
    <2>6. \A rid \in DOMAIN kept : rid \notin gone /\ rid \in DOMAIN ret /\ ret[rid] = kept[rid]
      BY <1>1, <2>5 DEF Past
    <2>7. Past(ret, Revision + 1)
      <3> SUFFICES ASSUME NEW rid \in DOMAIN ret
                   PROVE  /\ Dated(ret[rid].candidate) /\ Observed(ret[rid].candidate)
                          /\ rid[3] \in Nat /\ rid[3] < Revision + 1
        BY DEF Past
      <3>1. CASE rid \in gone
        <4>1. ret[rid].candidate = old[rid[1]]
          BY <3>1
        <4> QED
          BY <1>1, <2>5, <3>1, <4>1
      <3>2. CASE rid \notin gone
        BY <1>1, <2>6, <3>2 DEF Past
      <3> QED
        BY <3>1, <3>2
    <2>8. UNCHANGED <<now, boot, policies, shown, view, selection>>
      BY <1>5 DEF Retire, clocks, reader
    <2> HIDE DEF ret
    <2> QED
      BY <2>3, <2>4, <2>6, <2>7, <2>8
  <1> QED
    BY <1>3, <1>4, <1>5 DEF kept

\* A commit dates what it publishes by the clocks, and what it keeps as it was.
LEMMA CommitsAreDated ==
    ASSUME ReadInv,
           \/ Retire
           \/ \E id \in Candidate, key \in FactKey, p \in Policy : Publish(id, key, p)
           \/ \E id, from \in Candidate, key \in FactKey, p \in Policy : Infer(id, from, key, p)
    PROVE  ReadInv'
  <1>1. UNCHANGED <<now, boot>>
    BY CommitIsDated
  <1>2. PICK c \in Contexts : \E cands, ret :
           /\ current' = Committed(cands, ret, c)
           /\ IsFiniteSet(DOMAIN cands)
           /\ \A id \in DOMAIN cands : Dated(cands[id])
           /\ Past(ret, Revision + 1)
    BY CommitIsDated
  <1>3. PICK cands, ret :
           /\ current' = Committed(cands, ret, c)
           /\ IsFiniteSet(DOMAIN cands)
           /\ \A id \in DOMAIN cands : Dated(cands[id])
           /\ Past(ret, Revision + 1)
    BY <1>2
  <1>4. /\ current'.revision = Revision + 1 /\ current'.candidates = cands
        /\ current'.retained = Kept(ret, c) /\ current'.at = c
    BY <1>3 DEF Committed
  <1>5. ClocksOK /\ Revision + 1 \in Nat
    BY DEF ReadInv, SnapshotOK, Revision
  <1>6. ClocksOK'
    BY <1>1, <1>5 DEF ClocksOK
  <1>7. Read(c.wall, c.mono, now) /\ now \in 0..now
    BY <1>5, ContextsAreRead DEF ClocksOK
  <1>8. Past(Kept(ret, c), Revision + 1)
    BY <1>3 DEF Past, Kept
  <1>9. SnapshotOK(current')
    BY <1>3, <1>4, <1>5, <1>7, <1>8 DEF SnapshotOK
  <1>10. \A wall, mono, t : Read(wall, mono, t)' <=> Read(wall, mono, t)
    BY <1>1 DEF Read
  <1>11. \A r : Dated(r)' <=> Dated(r)
    BY <1>1, <1>10 DEF Dated
  <1>12. SnapshotOK(current)'
    BY <1>1, <1>9, <1>10, <1>11 DEF SnapshotOK, Past
  <1> QED
    BY <1>6, <1>12 DEF ReadInv

\* Every date in a snapshot is a reading of the moment it stands for.
THEOREM ReadingsHold == Spec => []ReadInv
  <1>1. Init => ReadInv
    <2>1. ASSUME Init PROVE boot = [f \in {"epoch", "started"} |-> boot[f]]
      BY <2>1 DEF Init
    <2> QED
      BY <2>1 DEF Init, ReadInv, ClocksOK
  <1>2. ReadInv /\ [Next]_vars => ReadInv'
    <2> SUFFICES ASSUME ReadInv, [Next]_vars PROVE ReadInv'
      OBVIOUS
    <2>1. CASE UNCHANGED <<now, boot, current>>
      <3>1. \A wall, mono, t : Read(wall, mono, t)' <=> Read(wall, mono, t)
        BY <2>1 DEF Read
      <3>2. \A r : Dated(r)' <=> Dated(r)
        BY <2>1, <3>1 DEF Dated
      <3>3. SnapshotOK(current)' <=> SnapshotOK(current)
        BY <2>1, <3>1, <3>2 DEF SnapshotOK, Past
      <3>4. ClocksOK' <=> ClocksOK
        BY <2>1 DEF ClocksOK
      <3> QED
        BY <2>1, <3>3, <3>4 DEF ReadInv
    <2>2. CASE Tick \/ Restart
      BY <2>2, TimePasses
    <2>3. CASE \/ Retire
               \/ \E id \in Candidate, key \in FactKey, p \in Policy : Publish(id, key, p)
               \/ \E id, from \in Candidate, key \in FactKey, p \in Policy : Infer(id, from, key, p)
      BY <2>3, CommitsAreDated
    <2>4. Fetch \/ Evaluate \/ CurrentAt => UNCHANGED <<now, boot, current>>
      BY DEF Fetch, Evaluate, CurrentAt, clocks
    <2>5. \A p : Register(p) => UNCHANGED <<now, boot, current>>
      BY DEF Register, clocks
    <2>6. \A key, p, choice : Select(key, p, choice) => UNCHANGED <<now, boot, current>>
      BY DEF Select, clocks
    <2>7. UNCHANGED vars => UNCHANGED <<now, boot, current>>
      BY DEF vars
    <2> QED
      BY <2>1, <2>2, <2>3, <2>4, <2>5, <2>6, <2>7 DEF Next
  <1> QED
    BY <1>1, <1>2, PTL DEF Spec

-----------------------------------------------------------------------------
(* Ages are true, and whoever reads honestly is answered. *)

\* Of an observation, whose receipt is on record, a definite age is the true one.
LEMMA ObservationsAgeTruly ==
    ASSUME ClocksOK, NEW c \in Contexts, NEW r, Dated(r), Observed(r)
    PROVE  Truly(r, Age(r, c))
  <1>1. r.received \in 0..now /\ Read(r.times.receivedAt, r.times.receipt, r.received)
    BY DEF Dated
  <1>2. r.policy \in Policy
    BY DEF Dated
  <1> DEFINE f == Age(r, c)
             age == now - r.received
  <1>3. /\ f = "fresh" => age < r.policy.fresh
        /\ f = "stale" => age >= r.policy.fresh /\ age < r.policy.retain
        /\ f = "expired" => age >= r.policy.retain
    BY <1>1, <1>2, AgeIsTrue DEF Age
  <1> HIDE DEF f, age
  <1>4. f = "fresh" \/ f = "stale" \/ f = "expired" \/ f \notin {"fresh", "stale", "expired"}
    OBVIOUS
  <1> QED
    BY <1>3, <1>4 DEF Truly, f, age

\* Nothing is said to be younger, or older, than it is: whatever boots lie
\* between receipt and reading and whatever the wall clocks say within their
\* uncertainty, a definite freshness of an observation is its true one, and a
\* fact inferred through any number of steps is fresh only while every
\* observation below it truly is (evaluateFreshness, evaluateCrossEpoch,
\* combineFreshness).
THEOREM AgesAreAlwaysTrue == Spec => []AgesAreTrue
  <1>1. ReadInv => AgesAreTrue
    <2> SUFFICES ASSUME ReadInv, current # None, NEW c \in Contexts,
                        EvaluationErrors(current, c) = {}
                 PROVE  LET v == View(current, c)
                            cands == current.candidates
                        IN  /\ \A id \in DOMAIN cands :
                                  Observed(cands[id]) => Truly(cands[id], v.facts[id].freshness)
                            /\ \A id \in DOMAIN cands : v.facts[id].freshness = "fresh" =>
                                  \A d \in {d \in Dependencies(cands, id) : Observed(cands[d])} :
                                      Truly(cands[d], "fresh")
                            /\ \A rid \in DOMAIN v.retained :
                                  Truly(current.retained[rid].candidate, v.retained[rid])
      BY DEF AgesAreTrue
    <2> DEFINE v == View(current, c)
               cands == current.candidates
    <2>1. ClocksOK /\ SnapshotOK(current)
      BY DEF ReadInv
    <2>2. IsFiniteSet(DOMAIN cands) /\ \A id \in DOMAIN cands : Dated(cands[id])
      BY <2>1 DEF SnapshotOK
    <2>3. \A id \in DOMAIN cands : v.facts[id].freshness = FactFreshness(current, id, c)
      BY DEF View
    <2>4. \A rid \in DOMAIN v.retained : /\ rid \in DOMAIN current.retained
                                         /\ v.retained[rid] = Age(current.retained[rid].candidate, c)
      BY DEF View
    <2> HIDE DEF v
    <2>5. ASSUME NEW id \in DOMAIN cands, Observed(cands[id])
          PROVE  Truly(cands[id], v.facts[id].freshness)
      <3>1. Dependencies(cands, id) = {}
        BY <2>2, <2>5, ObservedStandsAlone
      <3>2. v.facts[id].freshness = Age(cands[id], c)
        BY <2>2, <2>3, <3>1, FactIsItsWorst
      <3> QED
        BY <2>1, <2>2, <2>5, <3>2, ObservationsAgeTruly
    <2>6. ASSUME NEW id \in DOMAIN cands, v.facts[id].freshness = "fresh",
                 NEW d \in Dependencies(cands, id), Observed(cands[d])
          PROVE  Truly(cands[d], "fresh")
      <3>1. Age(cands[d], c) = "fresh"
        BY <2>2, <2>3, <2>6, FactIsItsWorst
      <3>2. d \in DOMAIN cands
        BY <2>2, DependenciesPresent
      <3> QED
        BY <2>1, <2>2, <2>6, <3>1, <3>2, ObservationsAgeTruly
    <2>7. ASSUME NEW rid \in DOMAIN v.retained
          PROVE  Truly(current.retained[rid].candidate, v.retained[rid])
      BY <2>1, <2>4, ObservationsAgeTruly DEF SnapshotOK, Past
    <2> QED
      BY <2>5, <2>6, <2>7 DEF v
  <1> QED
    BY <1>1, ReadingsHold, PTL

\* A reader whose clock keeps to its stated uncertainty can always read: the
\* evaluation of a snapshot is refused only for an elapsed interval wider than
\* 64 bits or because a clock other than UTC went backwards over a restart
\* (contextNotEarlierThanSnapshot, EvaluateSnapshot).
THEOREM HonestReadersAreAlwaysAnswered == Spec => []HonestReadersAreAnswered
  <1>1. ReadInv => HonestReadersAreAnswered
    <2> SUFFICES ASSUME ReadInv, current # None, NEW c \in Contexts,
                        ~(now + 4 * MaxUnc > MaxUint64),
                        ~(c.wall.clock = Local /\ current.at.wall.clock = Local
                             /\ c.mono.epoch # current.at.mono.epoch)
                 PROVE  EvaluationErrors(current, c) = {}
      BY DEF HonestReadersAreAnswered
    <2>1. ClocksOK /\ SnapshotOK(current)
      BY DEF ReadInv
    <2>2. \A r : Dated(r) => Age(r, c) # "invalid_time"
      <3> SUFFICES ASSUME NEW r, Dated(r) PROVE Age(r, c) # "invalid_time"
        OBVIOUS
      <3>1. PICK t \in 0..now : Read(r.times.receivedAt, r.times.receipt, t)
        BY DEF Dated
      <3>2. r.policy \in Policy
        BY DEF Dated
      <3> QED
        BY <2>1, <3>1, <3>2, AgeIsTrue DEF Age
    <2>3. NotEarlier(current.at, c)
      <3> DEFINE d == current.at
      <3>1. PICK t \in 0..now : Read(d.wall, d.mono, t)
        BY <2>1 DEF SnapshotOK
      <3>2. Read(c.wall, c.mono, now) /\ c.mono.epoch = boot.epoch
        BY <2>1, ContextsAreRead
      <3> HIDE DEF d
      <3>3. now \in Nat /\ t \in Nat /\ t <= now /\ MaxUnc \in Nat /\ MaxUint64 \in Nat
        BY <2>1, <3>1, EvaluationAssumption, MaxUint64Assumption DEF ClocksOK
      <3>4. CASE d.mono.epoch = c.mono.epoch
        <4>1. d.mono.ns = t - boot.started /\ c.mono.ns = now - boot.started /\ boot.started \in Nat
          BY <2>1, <3>1, <3>2, <3>4 DEF Read, ClocksOK
        <4> QED
          BY <3>3, <3>4, <4>1 DEF NotEarlier, d
      <3>5. CASE d.mono.epoch # c.mono.epoch /\ d.wall.clock # c.wall.clock
        BY <3>5 DEF NotEarlier, d
      <3>6. CASE d.mono.epoch # c.mono.epoch /\ d.wall.clock = c.wall.clock
        <4>1. d.wall.clock = UTC /\ c.wall.clock = UTC
          BY <3>1, <3>2, <3>6 DEF Read, d
        <4>2. /\ d.wall.ns \in Int /\ d.wall.unc \in 0..MaxUnc
              /\ d.wall.ns \in t - d.wall.unc .. t + d.wall.unc
              /\ c.wall.ns \in Int /\ c.wall.unc \in 0..MaxUnc
              /\ c.wall.ns \in now - c.wall.unc .. now + c.wall.unc
          BY <3>1, <3>2, <4>1, EvaluationAssumption DEF Read
        <4>3. d.wall.unc + c.wall.unc <= 2 * MaxUnc
              /\ 0 <= c.wall.ns - d.wall.ns + (d.wall.unc + c.wall.unc)
              /\ d.wall.unc + c.wall.unc \in Int
          BY <3>3, <4>2, WallBounds
        <4>4. d.wall.unc + c.wall.unc <= MaxUint64
          BY <3>3, <4>3
        <4> QED
          BY <3>6, <4>2, <4>3, <4>4 DEF NotEarlier, d
      <3> QED
        BY <3>4, <3>5, <3>6 DEF d
    <2>4. \A id \in DOMAIN current.candidates : Age(current.candidates[id], c) # "invalid_time"
      BY <2>1, <2>2 DEF SnapshotOK
    <2>5. \A rid \in DOMAIN current.retained : Age(current.retained[rid].candidate, c) # "invalid_time"
      BY <2>1, <2>2 DEF SnapshotOK, Past
    <2> QED
      BY <2>3, <2>4, <2>5, Zenon DEF EvaluationErrors, Flag
  <1> QED
    BY <1>1, ReadingsHold, PTL

\* History is not cut short: an observation whose retention has not truly ended
\* is never dropped by a commit, even one made after a restart (the retention
\* loop of applyTo, judged by evaluateCrossEpoch).
THEOREM HistoryLastsForItsTerm == Spec => HistoryLastsItsTerm
  <1> DEFINE Lasts ==
        current # None /\ current' # None =>
          \A rid \in DOMAIN current.retained \ DOMAIN current'.retained :
              LET c == current.retained[rid].candidate
              IN  now - c.received >= c.policy.retain
  <1>1. ReadInv /\ [Next]_vars => Lasts
    <2> SUFFICES ASSUME ReadInv, [Next]_vars, current # None,
                        NEW rid \in DOMAIN current.retained \ DOMAIN current'.retained
                 PROVE  LET c == current.retained[rid].candidate
                        IN  now - c.received >= c.policy.retain
      OBVIOUS
    <2> DEFINE r == current.retained[rid].candidate
    <2>1. ClocksOK /\ Dated(r) /\ Observed(r)
      BY DEF ReadInv, SnapshotOK, Past
    <2>2. \/ Retire
          \/ \E id \in Candidate, key \in FactKey, p \in Policy : Publish(id, key, p)
          \/ \E id, from \in Candidate, key \in FactKey, p \in Policy : Infer(id, from, key, p)
      <3>1. UNCHANGED current => FALSE
        OBVIOUS
      <3>2. Tick \/ Restart \/ Fetch \/ Evaluate \/ CurrentAt \/ UNCHANGED vars => UNCHANGED current
        BY DEF Tick, Restart, Fetch, Evaluate, CurrentAt, vars
      <3>3. \A p : Register(p) => UNCHANGED current
        BY DEF Register
      <3>4. \A key, p, choice : Select(key, p, choice) => UNCHANGED current
        BY DEF Select
      <3> QED
        BY <3>1, <3>2, <3>3, <3>4 DEF Next
    <2>3. PICK c \in Contexts : \E cands, ret :
             /\ current' = Committed(cands, ret, c)
             /\ \A x \in DOMAIN Now("retained") : x \in DOMAIN ret /\ ret[x] = Now("retained")[x]
      BY <2>2, CommitIsDated
    <2>4. PICK cands, ret :
             /\ current' = Committed(cands, ret, c)
             /\ \A x \in DOMAIN Now("retained") : x \in DOMAIN ret /\ ret[x] = Now("retained")[x]
      BY <2>3
    <2>5. rid \in DOMAIN ret /\ ret[rid] = current.retained[rid]
      BY <2>4 DEF Now
    <2>6. rid \notin DOMAIN Kept(ret, c)
      BY <2>4 DEF Committed
    <2>7. Age(r, c) = "expired"
      BY <2>5, <2>6 DEF Kept
    <2>8. Truly(r, "expired")
      BY <2>1, <2>7, ObservationsAgeTruly
    <2> QED
      BY <2>8 DEF Truly
  <1> HIDE DEF Lasts
  <1>2. Spec => [][Lasts]_vars
    BY <1>1, ReadingsHold, PTL DEF Spec
  <1> QED
    BY <1>2, PTL DEF Lasts, HistoryLastsItsTerm

-----------------------------------------------------------------------------
(* A selection is about one snapshot read at one instant. *)

\* `None` stands for no snapshot: it is not one.
NoneIsNothing == None # [f \in DOMAIN None |-> None[f]]

\* The snapshots that somebody has in hand.
Held == ({current, shown} \cup (IF selection = None THEN {} ELSE {selection.made.snapshot})) \ {None}

\* A selection is what SelectPresentation made of a snapshot and its view.
Bound ==
    LET made == selection.made
    IN  /\ made.snapshot # None
        /\ selection.snapshot = made.snapshot.revision
        /\ selection.digest = made.view
        /\ made.view = View(made.snapshot, made.view.context)
        /\ SelectionErrors(made.snapshot, made.view, selection) = {}

\* A revision names one snapshot, and a view one of the snapshots so far.
BoundInv ==
    /\ \A s \in Held : s.revision \in Nat /\ s.revision <= Revision
    /\ \A s, t \in Held : s.revision = t.revision => s = t
    /\ shown # None => current # None
    /\ view # None => /\ view.snapshot \in Nat /\ view.snapshot <= Revision
                      /\ \A s \in Held : s.revision = view.snapshot => view = View(s, view.context)
    /\ selection # None => shown # None /\ Bound

\* A commit makes a snapshot with a revision nobody has seen.
LEMMA CommitsAreNew ==
    ASSUME NoneIsNothing, BoundInv, NEW cands, NEW ret, NEW c, current' = Committed(cands, ret, c),
           UNCHANGED <<shown, view, selection>>
    PROVE  BoundInv'
  <1>1. Revision \in Nat
    BY DEF BoundInv, Revision, Held
  <1>2. current'.revision = Revision + 1 /\ current' # None
    <2>1. Committed(cands, ret, c)
            = [f \in DOMAIN Committed(cands, ret, c) |-> Committed(cands, ret, c)[f]]
      BY DEF Committed
    <2>2. Committed(cands, ret, c).revision = Revision + 1
      BY DEF Committed
    <2> QED
      BY <2>1, <2>2 DEF NoneIsNothing
  <1>3. Revision' = Revision + 1
    BY <1>2 DEF Revision
  <1>4. Held' \subseteq Held \cup {current'}
    BY DEF Held
  <1>5. \A s \in Held : s.revision \in Nat /\ s.revision < Revision + 1 /\ s.revision # Revision + 1
    BY <1>1 DEF BoundInv
  <1>6. \A s \in Held' : s.revision \in Nat /\ s.revision <= Revision'
    BY <1>1, <1>2, <1>3, <1>4, <1>5
  <1>7. \A s, t \in Held' : s.revision = t.revision => s = t
    BY <1>2, <1>4, <1>5 DEF BoundInv
  <1>8. ASSUME view # None
        PROVE  /\ view.snapshot \in Nat /\ view.snapshot <= Revision'
               /\ \A s \in Held' : s.revision = view.snapshot => view = View(s, view.context)
    <2>1. view.snapshot \in Nat /\ view.snapshot <= Revision /\ view.snapshot # Revision + 1
      BY <1>1, <1>8 DEF BoundInv
    <2> QED
      BY <1>1, <1>2, <1>3, <1>4, <1>8, <2>1 DEF BoundInv
  <1>9. selection # None => shown # None /\ Bound'
    BY DEF BoundInv, Bound
  <1> QED
    BY <1>2, <1>6, <1>7, <1>8, <1>9 DEF BoundInv

\* A reader takes up the snapshot of the moment, or one it has, and may look at
\* what it takes up.
LEMMA ReadingsAreBound ==
    ASSUME BoundInv, UNCHANGED <<current, selection>>, current # None,
           shown' \in {current, shown}, shown' # None,
           \/ UNCHANGED view
           \/ \E c \in Contexts : view' = View(shown', c)
    PROVE  BoundInv'
  <1>1. Held' \subseteq Held /\ Revision' = Revision /\ shown' \in Held
    BY DEF Held, Revision
  <1>2. ASSUME view' # None
        PROVE  /\ view'.snapshot \in Nat /\ view'.snapshot <= Revision
               /\ \A s \in Held' : s.revision = view'.snapshot => view' = View(s, view'.context)
    <2>1. CASE UNCHANGED view
      BY <1>1, <1>2, <2>1 DEF BoundInv
    <2>2. CASE \E c \in Contexts : view' = View(shown', c)
      <3>1. PICK c \in Contexts : view' = View(shown', c)
        BY <2>2
      <3>2. view'.snapshot = shown'.revision /\ view'.context = c
        BY <3>1 DEF View
      <3> QED
        BY <1>1, <3>1, <3>2 DEF BoundInv
    <2> QED
      BY <2>1, <2>2
  <1>3. Bound' <=> Bound
    BY DEF Bound
  <1> QED
    BY <1>1, <1>2, <1>3 DEF BoundInv

\* SelectPresentation checks enough for the selection to be about the snapshot
\* and the instant of the view.
LEMMA SelectBinds ==
    ASSUME BoundInv, NEW key, NEW p, NEW choice, Select(key, p, choice)
    PROVE  BoundInv'
  <1>1. /\ shown # None /\ view # None /\ BindingErrors(shown, view) = {}
        /\ choice \in DOMAIN shown.candidates /\ shown.candidates[choice].key = key
        /\ UNCHANGED <<current, shown, view>>
    BY DEF Select, clocks
  <1>2. /\ view.snapshot = shown.revision
        /\ \A id \in DOMAIN view.facts \cap DOMAIN shown.candidates :
              shown.candidates[id].revision = view.facts[id].revision
        /\ DOMAIN view.facts = DOMAIN shown.candidates
    BY <1>1, Zenon DEF BindingErrors, Flag
  <1>3. shown \in Held
    BY <1>1 DEF Held
  <1>4. view = View(shown, view.context)
    BY <1>1, <1>2, <1>3 DEF BoundInv
  <1>5. /\ selection'.snapshot = shown.revision /\ selection'.digest = view
        /\ selection'.context = view.context /\ selection'.key = key /\ selection'.cand = choice
        /\ selection'.revision = shown.candidates[choice].revision
        /\ selection'.made.snapshot = shown /\ selection'.made.view = view
    BY DEF Select
  <1>6. SelectionErrors(shown, view, selection') = {}
    <2>1. Flag(\/ selection'.snapshot # shown.revision \/ selection'.digest # view
               \/ selection'.context # view.context, "revision_conflict") = {}
      BY <1>5, Zenon DEF Flag
    <2>2. Flag(shown.candidates[choice].revision # selection'.revision, "revision_conflict") = {}
      BY <1>5, Zenon DEF Flag
    <2>3. choice \in DOMAIN view.facts
          /\ view.facts[choice].revision = shown.candidates[choice].revision
      BY <1>1, <1>2
    <2>4. Flag(view.facts[choice].revision # selection'.revision, "revision_conflict") = {}
      BY <1>5, <2>3, Zenon DEF Flag
    <2> QED
      BY <1>1, <1>5, <2>1, <2>2, <2>3, <2>4 DEF SelectionErrors
  <1>7. Bound'
    BY <1>1, <1>4, <1>5, <1>6 DEF Bound
  <1>8. Held' \subseteq Held /\ Revision' = Revision
    BY <1>1, <1>5 DEF Held, Revision
  <1> QED
    BY <1>1, <1>7, <1>8 DEF BoundInv

\* A selection is bound to the snapshot and the view it was made of.
LEMMA BindingsHold ==
    ASSUME NoneIsNothing
    PROVE  Spec => []BoundInv
  <1>1. Init => BoundInv
    BY DEF Init, BoundInv, Held
  <1>2. ReadInv /\ BoundInv /\ [Next]_vars => BoundInv'
    <2> SUFFICES ASSUME ReadInv, BoundInv, [Next]_vars PROVE BoundInv'
      OBVIOUS
    <2>1. CASE UNCHANGED <<current, shown, view, selection>>
      BY <2>1 DEF BoundInv, Held, Bound, Revision
    <2>2. CASE \/ Retire
               \/ \E id \in Candidate, key \in FactKey, p \in Policy : Publish(id, key, p)
               \/ \E id, from \in Candidate, key \in FactKey, p \in Policy : Infer(id, from, key, p)
      <3>1. PICK c \in Contexts : \E cands, ret : current' = Committed(cands, ret, c)
        BY <2>2, CommitIsDated
      <3>2. PICK cands, ret : current' = Committed(cands, ret, c)
        BY <3>1
      <3>3. UNCHANGED <<shown, view, selection>>
        BY <2>2, CommitIsDated
      <3> QED
        BY <3>2, <3>3, CommitsAreNew
    <2>3. ASSUME Fetch \/ Evaluate \/ CurrentAt
          PROVE  /\ UNCHANGED <<current, selection>> /\ current # None
                 /\ shown' \in {current, shown} /\ shown' # None
                 /\ \/ UNCHANGED view
                    \/ \E c \in Contexts : view' = View(shown', c)
      <3>1. Fetch => /\ UNCHANGED <<current, selection, view>> /\ current # None /\ shown' = current
        BY DEF Fetch, clocks
      <3>2. Evaluate => /\ UNCHANGED <<current, selection, shown>> /\ shown # None
                        /\ \E c \in Contexts : view' = View(shown, c)
        BY DEF Evaluate, clocks
      <3>3. CurrentAt => /\ UNCHANGED <<current, selection>> /\ current # None /\ shown' = current
                         /\ \E c \in Contexts : view' = View(current, c)
        BY DEF CurrentAt, clocks
      <3> QED
        BY <2>3, <3>1, <3>2, <3>3 DEF BoundInv
    <2>4. Fetch \/ Evaluate \/ CurrentAt => BoundInv'
      BY <2>3, ReadingsAreBound
    <2>5. Tick \/ Restart => UNCHANGED <<current, shown, view, selection>>
      BY DEF Tick, Restart, reader
    <2>6. \A p : Register(p) => UNCHANGED <<current, shown, view, selection>>
      BY DEF Register, reader
    <2>7. UNCHANGED vars => UNCHANGED <<current, shown, view, selection>>
      BY DEF vars
    <2>8. ASSUME NEW key \in FactKey, NEW p \in PolicyID, NEW choice \in Candidate,
                 Select(key, p, choice)
          PROVE  BoundInv'
      BY <2>8, SelectBinds
    <2> QED
      BY <2>1, <2>2, <2>4, <2>5, <2>6, <2>7, <2>8 DEF Next
  <1> QED
    BY <1>1, <1>2, ReadingsHold, PTL DEF Spec

\* A selection is about one snapshot read at one instant: it is only made from
\* a view of the very snapshot it names, however snapshots and views were
\* fetched in between, it validates against that pair, and against no other
\* pair the reader ever holds (SelectPresentation, ValidateSelection).
THEOREM SelectionsAreAlwaysBound ==
    ASSUME NoneIsNothing
    PROVE  Spec => []SelectionsAreBound
  <1>1. BoundInv => SelectionsAreBound
    <2> SUFFICES ASSUME BoundInv, selection # None
                 PROVE  LET made == selection.made
                        IN  /\ made.view = View(made.snapshot, made.view.context)
                            /\ SelectionErrors(made.snapshot, made.view, selection) = {}
                            /\ shown # made.snapshot \/ view # made.view
                                  => SelectionErrors(shown, view, selection) # {}
      BY DEF SelectionsAreBound
    <2> DEFINE made == selection.made
    <2>1. Bound /\ shown # None
      BY DEF BoundInv
    <2>2. ASSUME SelectionErrors(shown, view, selection) = {}
          PROVE  shown = made.snapshot /\ view = made.view
      <3>1. selection.snapshot = shown.revision /\ selection.digest = view
        BY <2>2, Zenon DEF SelectionErrors, Flag
      <3>2. shown \in Held /\ made.snapshot \in Held
        BY <2>1 DEF Held, Bound
      <3> QED
        BY <2>1, <3>1, <3>2 DEF BoundInv, Bound
    <2> QED
      BY <2>1, <2>2 DEF Bound
  <1> QED
    BY <1>1, BindingsHold, PTL
=============================================================================
