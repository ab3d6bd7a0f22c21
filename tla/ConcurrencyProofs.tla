-------------------------- MODULE ConcurrencyProofs --------------------------
(***************************************************************************)
(* What callers and receivers that act at the same time cannot do to one   *)
(* another.  The locks: no two points of a fork are in one hook at a time, *)
(* and nobody sees half a commit, for any number of concurrent callers,    *)
(* points and forks.  The causal contexts: no receiver acts too late on a  *)
(* command, or twice on what comes along one way, whatever the links of    *)
(* the site do to it, for any receivers, clocks, budgets and lifetimes.    *)
(***************************************************************************)
EXTENDS Locks, Relay, TLAPS

-----------------------------------------------------------------------------
(* Programs and their ends. *)

\* The last n instructions of p.
Left(p, n) == SubSeq(p, Len(p) - n + 1, Len(p))

\* The instructions of the operation kernel, on locks of its own.
Elsewhere == [do : {"lock", "unlock", "use"}, on : {op, oph, adm, hook("op")}]

Instruction ==
    [do : {"lock", "unlock", "rlock", "runlock", "use", "setCurrent", "setReplays",
           "getCurrent", "getReplays", "install"},
     on : Lock \cup Point]

OfPoints == {"Apply", "Current", "Fork"}

\* A program that has n instructions left does its first of them next.
LEMMA LeftSteps ==
    ASSUME NEW S, NEW p \in Seq(S), NEW n \in 1..Len(p)
    PROVE  /\ Left(p, n) \in Seq(S) /\ Len(Left(p, n)) = n
           /\ Head(Left(p, n)) = p[Len(p) - n + 1]
           /\ Tail(Left(p, n)) = Left(p, n - 1)
  BY DEF Left

\* All of it is left at first, nothing in the end.
LEMMA LeftEnds ==
    ASSUME NEW S, NEW p \in Seq(S)
    PROVE  Left(p, Len(p)) = p /\ Left(p, 0) = <<>>
  BY DEF Left

\* Sequences put together from their parts.
LEMMA Parts ==
    ASSUME NEW S, NEW a \in S, NEW b \in S, NEW c \in S, NEW d \in S, NEW e \in S, NEW f \in S,
           NEW g \in S
    PROVE  /\ LET p == <<a>> \o ((<<b>> \o <<c>> \o <<d>>) \o <<e, f>>) \o <<g>>
              IN  /\ p \in Seq(S) /\ Len(p) = 7
                  /\ p[1] = a /\ p[2] = b /\ p[3] = c /\ p[4] = d /\ p[5] = e /\ p[6] = f /\ p[7] = g
           /\ LET p == <<a>> \o <<b, c>> \o <<d>>
              IN  /\ p \in Seq(S) /\ Len(p) = 4
                  /\ p[1] = a /\ p[2] = b /\ p[3] = c /\ p[4] = d
           /\ LET p == (<<a>> \o <<b, c>> \o <<d>>) \o <<e>>
              IN  /\ p \in Seq(S) /\ Len(p) = 5
                  /\ p[1] = a /\ p[2] = b /\ p[3] = c /\ p[4] = d /\ p[5] = e
  OBVIOUS

\* The instructions of a commit, one after another...
LEMMA ApplyIs ==
    ASSUME NEW k \in Point
    PROVE  LET p == Apply(k)
           IN  /\ p \in Seq(Instruction) /\ Len(p) = 7
               /\ p[1] = I("lock", pub(k)) /\ p[2] = I("lock", hook(Origin))
               /\ p[3] = I("use", hook(Origin)) /\ p[4] = I("unlock", hook(Origin))
               /\ p[5] = I("setCurrent", k) /\ p[6] = I("setReplays", k)
               /\ p[7] = I("unlock", pub(k))
  <1>1. \A do \in {"lock", "unlock", "use", "setCurrent", "setReplays"},
           on \in {pub(k), hook(Origin), k} : I(do, on) \in Instruction
    BY LocksAssumption DEF I, Instruction, Lock
  <1> HIDE DEF Instruction, I
  <1>2. Apply(k) = <<I("lock", pub(k))>>
                   \o ((<<I("lock", hook(Origin))>> \o <<I("use", hook(Origin))>>
                         \o <<I("unlock", hook(Origin))>>)
                       \o <<I("setCurrent", k), I("setReplays", k)>>)
                   \o <<I("unlock", pub(k))>>
    BY DEF Apply, Locked, Hook, RegistryOf
  <1> QED
    BY <1>1, <1>2, Parts

\* ... of a read...
LEMMA CurrentIs ==
    ASSUME NEW k \in Point
    PROVE  LET p == Current(k)
           IN  /\ p \in Seq(Instruction) /\ Len(p) = 4
               /\ p[1] = I("rlock", pub(k)) /\ p[2] = I("getCurrent", k)
               /\ p[3] = I("getReplays", k) /\ p[4] = I("runlock", pub(k))
  <1>1. \A do \in {"rlock", "runlock", "getCurrent", "getReplays"}, on \in {pub(k), k} :
           I(do, on) \in Instruction
    BY DEF I, Instruction, Lock
  <1> HIDE DEF Instruction, I
  <1> QED
    BY <1>1, Parts DEF Current, RLocked

\* ... and of a fork.
LEMMA ForkIs ==
    ASSUME NEW k \in Point, NEW j \in Point
    PROVE  LET p == Fork(k, j)
           IN  /\ p \in Seq(Instruction) /\ Len(p) = 5
               /\ p[1] = I("rlock", pub(k)) /\ p[2] = I("getCurrent", k)
               /\ p[3] = I("getReplays", k) /\ p[4] = I("runlock", pub(k))
               /\ p[5] = I("install", j)
  <1>1. \A do \in {"rlock", "runlock", "getCurrent", "getReplays", "install"},
           on \in {pub(k), k, j} : I(do, on) \in Instruction
    BY DEF I, Instruction, Lock
  <1> HIDE DEF Instruction, I
  <1> QED
    BY <1>1, Parts DEF Fork, RLocked

\* Calls of the operation kernel use its own locks only.
LEMMA OthersAreElsewhere ==
    ASSUME NEW c, c.name \in {"Admit", "Record", "RecordRejection", "Inspect"}
    PROVE  Program(c) \in Seq(Elsewhere)
  <1>1. ASSUME NEW l \in {op, oph, adm, hook("op")}, NEW body \in Seq(Elsewhere)
        PROVE  Locked(l, body) \in Seq(Elsewhere)
    BY <1>1 DEF Locked, I, Elsewhere
  <1>2. <<>> \in Seq(Elsewhere) /\ <<I("use", oph)>> \in Seq(Elsewhere)
        /\ <<I("use", hook("op"))>> \in Seq(Elsewhere)
    BY DEF I, Elsewhere
  <1>3. \A r, s \in Seq(Elsewhere) : r \o s \in Seq(Elsewhere)
    OBVIOUS
  <1>4. Hook("op") \in Seq(Elsewhere)
    BY <1>1, <1>2 DEF Hook
  <1> HIDE DEF Elsewhere
  <1>5. Inspect \in Seq(Elsewhere)
    BY <1>1, <1>2 DEF Inspect
  <1>6. RecordRejection \in Seq(Elsewhere)
    BY <1>1, <1>2 DEF RecordRejection
  <1>7. Record \in Seq(Elsewhere)
    <2>1. Locked(oph, <<I("use", oph)>>) \in Seq(Elsewhere) /\ Locked(op, <<>>) \in Seq(Elsewhere)
      BY <1>1, <1>2
    <2>2. Locked(adm, Hook("op") \o Locked(oph, <<I("use", oph)>>)) \in Seq(Elsewhere)
      BY <1>1, <1>3, <1>4, <2>1
    <2> QED
      BY <1>3, <2>1, <2>2 DEF Record
  <1>8. Admit \in Seq(Elsewhere)
    <2>1. Locked(op, <<>>) \in Seq(Elsewhere) /\ Locked(oph, Hook("op")) \in Seq(Elsewhere)
          /\ Locked(oph, <<I("use", oph)>>) \in Seq(Elsewhere)
      BY <1>1, <1>2, <1>4
    <2>2. ValidateIntent \in Seq(Elsewhere)
      BY <1>3, <1>4, <2>1 DEF ValidateIntent
    <2>3. Authorize \in Seq(Elsewhere)
      BY DEF Authorize, I, Elsewhere
    <2> QED
      BY <1>3, <1>4, <2>1, <2>2, <2>3 DEF Admit
  <1> QED
    BY <1>5, <1>6, <1>7, <1>8 DEF Program

-----------------------------------------------------------------------------
(* Where a caller stands. *)

\* What is left of a call is the end of its program.
Placed(t) ==
    rest[t] # <<>> =>
        /\ call[t] \in Calls
        /\ Len(rest[t]) \in 1..Len(Program(call[t]))
        /\ rest[t] = Left(Program(call[t]), Len(rest[t]))

\* Caller t has n instructions of a call on point k before it.
Stands(t, name, k, n) ==
    /\ call[t] # None
    /\ call[t].name = name /\ call[t].at = k /\ Len(rest[t]) = n

\* Its next instruction, by how many are left.
Faces(t, do, on) == Head(rest[t]) = I(do, on)

\* Every call is a sequence of instructions.
LEMMA Programs ==
    ASSUME NEW c \in Calls
    PROVE  Program(c) \in Seq(Instruction)
  <1>1. CASE c.name \in {"Admit", "Record", "RecordRejection", "Inspect"}
    <2>1. Elsewhere \subseteq Instruction
      BY DEF Elsewhere, Instruction, Lock
    <2>2. Program(c) \in Seq(Elsewhere)
      BY <1>1, OthersAreElsewhere
    <2> QED
      BY <2>1, <2>2
  <1>2. CASE c.name = "Apply"
    BY <1>2, ApplyIs, LocksAssumption DEF Program
  <1>3. CASE c.name = "Current"
    BY <1>3, CurrentIs, LocksAssumption DEF Program
  <1>4. CASE c.name = "Fork"
    BY <1>4, ForkIs, LocksAssumption DEF Program
  <1> QED
    BY <1>1, <1>2, <1>3, <1>4, LocksAssumption

\* A step of a program leads to its next instruction.
LEMMA StepLeft ==
    ASSUME NEW t, Placed(t), rest[t] # <<>>
    PROVE  /\ call[t] \in Calls
           /\ Len(rest[t]) \in Nat \ {0}
           /\ Len(Tail(rest[t])) = Len(rest[t]) - 1
           /\ Tail(rest[t]) # <<>> =>
                 /\ Len(Tail(rest[t])) \in 1..Len(Program(call[t]))
                 /\ Tail(rest[t]) = Left(Program(call[t]), Len(Tail(rest[t])))
           /\ Tail(rest[t]) = <<>> <=> Len(rest[t]) = 1
           /\ Head(rest[t]) = Program(call[t])[Len(Program(call[t])) - Len(rest[t]) + 1]
           /\ Len(rest[t]) <= Len(Program(call[t]))
  <1> DEFINE p == Program(call[t])
             n == Len(rest[t])
  <1>1. call[t] \in Calls /\ n \in 1..Len(p) /\ rest[t] = Left(p, n)
    BY DEF Placed
  <1>2. p \in Seq(Instruction)
    BY <1>1, Programs
  <1>3. n \in Nat \ {0} /\ n <= Len(p) /\ Len(p) \in Nat
    BY <1>1, <1>2
  <1>4. /\ rest[t] \in Seq(Instruction) /\ Head(rest[t]) = p[Len(p) - n + 1]
        /\ Tail(rest[t]) = Left(p, n - 1)
    <2> HIDE DEF p
    <2>1. /\ Left(p, n) \in Seq(Instruction) /\ Head(Left(p, n)) = p[Len(p) - n + 1]
          /\ Tail(Left(p, n)) = Left(p, n - 1)
      BY <1>1, <1>2, LeftSteps
    <2> QED
      BY <1>1, <2>1
  <1>5. Len(Tail(rest[t])) = n - 1
    BY <1>3, <1>4
  <1> HIDE DEF p, n
  <1>6. Tail(rest[t]) = <<>> <=> n = 1
    <2>1. n = 1 => Tail(rest[t]) = <<>>
      BY <1>2, <1>4, LeftEnds
    <2>2. Tail(rest[t]) = <<>> => n - 1 = 0
      BY <1>5
    <2> QED
      BY <1>3, <2>1, <2>2
  <1>7. n # 1 => n - 1 \in 1..Len(p)
    BY <1>3
  <1> QED
    BY <1>1, <1>3, <1>4, <1>5, <1>6, <1>7 DEF p, n

\* How much of a call on a point is left says which instruction it faces.
LEMMA Stage ==
    ASSUME NEW t, Placed(t), rest[t] # <<>>
    PROVE  LET k == call[t].at
               n == Len(rest[t])
           IN  \/ /\ call[t].name = "Apply" /\ k \in Point
                  /\ \/ n = 7 /\ Faces(t, "lock", pub(k))
                     \/ n = 6 /\ Faces(t, "lock", hook(Origin))
                     \/ n = 5 /\ Faces(t, "use", hook(Origin))
                     \/ n = 4 /\ Faces(t, "unlock", hook(Origin))
                     \/ n = 3 /\ Faces(t, "setCurrent", k)
                     \/ n = 2 /\ Faces(t, "setReplays", k)
                     \/ n = 1 /\ Faces(t, "unlock", pub(k))
               \/ /\ call[t].name = "Current" /\ k \in Point
                  /\ \/ n = 4 /\ Faces(t, "rlock", pub(k))
                     \/ n = 3 /\ Faces(t, "getCurrent", k)
                     \/ n = 2 /\ Faces(t, "getReplays", k)
                     \/ n = 1 /\ Faces(t, "runlock", pub(k))
               \/ /\ call[t].name = "Fork" /\ k \in Point /\ call[t].to \in Point
                  /\ \/ n = 5 /\ Faces(t, "rlock", pub(k))
                     \/ n = 4 /\ Faces(t, "getCurrent", k)
                     \/ n = 3 /\ Faces(t, "getReplays", k)
                     \/ n = 2 /\ Faces(t, "runlock", pub(k))
                     \/ n = 1 /\ Faces(t, "install", call[t].to)
               \/ call[t].name \notin OfPoints /\ Head(rest[t]) \in Elsewhere
  <1> DEFINE p == Program(call[t])
             k == call[t].at
             n == Len(rest[t])
             i == Len(p) - n + 1
  <1>1. call[t] \in Calls /\ Head(rest[t]) = p[i] /\ n \in Nat \ {0} /\ n <= Len(p)
    BY StepLeft
  <1> HIDE DEF n, p
  <1>2. CASE call[t].name \in {"Admit", "Record", "RecordRejection", "Inspect"}
    <2>1. p \in Seq(Elsewhere)
      BY <1>2, OthersAreElsewhere DEF p
    <2>2. i \in 1..Len(p)
      BY <1>1, <2>1
    <2>3. Head(rest[t]) \in Elsewhere
      BY <1>1, <2>1, <2>2
    <2> QED
      BY <1>2, <2>3 DEF OfPoints
  <1>3. CASE call[t].name = "Apply"
    <2>1. k \in Point /\ p = Apply(k)
      BY <1>1, <1>3, LocksAssumption DEF Program, p
    <2>2. Len(p) = 7
      BY <2>1, ApplyIs
    <2>3. n \in 1..7 /\ i = 8 - n
      BY <1>1, <2>2
    <2>4. <<n, i>> \in {<<7, 1>>, <<6, 2>>, <<5, 3>>, <<4, 4>>, <<3, 5>>, <<2, 6>>, <<1, 7>>}
      BY <2>3
    <2>5. \/ n = 7 /\ Faces(t, "lock", pub(k))
          \/ n = 6 /\ Faces(t, "lock", hook(Origin))
          \/ n = 5 /\ Faces(t, "use", hook(Origin))
          \/ n = 4 /\ Faces(t, "unlock", hook(Origin))
          \/ n = 3 /\ Faces(t, "setCurrent", k)
          \/ n = 2 /\ Faces(t, "setReplays", k)
          \/ n = 1 /\ Faces(t, "unlock", pub(k))
      BY <1>1, <2>1, <2>4, ApplyIs DEF Faces
    <2> QED
      BY <1>3, <2>1, <2>5 DEF n
  <1>4. CASE call[t].name = "Current"
    <2>1. k \in Point /\ p = Current(k)
      BY <1>1, <1>4, LocksAssumption DEF Program, p
    <2>2. Len(p) = 4
      BY <2>1, CurrentIs
    <2>3. n \in 1..4 /\ i = 5 - n
      BY <1>1, <2>2
    <2>4. <<n, i>> \in {<<4, 1>>, <<3, 2>>, <<2, 3>>, <<1, 4>>}
      BY <2>3
    <2>5. \/ n = 4 /\ Faces(t, "rlock", pub(k))
          \/ n = 3 /\ Faces(t, "getCurrent", k)
          \/ n = 2 /\ Faces(t, "getReplays", k)
          \/ n = 1 /\ Faces(t, "runlock", pub(k))
      BY <1>1, <2>1, <2>4, CurrentIs DEF Faces
    <2> QED
      BY <1>4, <2>1, <2>5 DEF n
  <1>5. CASE call[t].name = "Fork"
    <2>1. k \in Point /\ call[t].to \in Point /\ p = Fork(k, call[t].to)
      BY <1>1, <1>5, LocksAssumption DEF Program, p
    <2>2. Len(p) = 5
      BY <2>1, ForkIs
    <2>3. n \in 1..5 /\ i = 6 - n
      BY <1>1, <2>2
    <2>4. <<n, i>> \in {<<5, 1>>, <<4, 2>>, <<3, 3>>, <<2, 4>>, <<1, 5>>}
      BY <2>3
    <2>5. \/ n = 5 /\ Faces(t, "rlock", pub(k))
          \/ n = 4 /\ Faces(t, "getCurrent", k)
          \/ n = 3 /\ Faces(t, "getReplays", k)
          \/ n = 2 /\ Faces(t, "runlock", pub(k))
          \/ n = 1 /\ Faces(t, "install", call[t].to)
      BY <1>1, <2>1, <2>4, ForkIs DEF Faces
    <2> QED
      BY <1>5, <2>1, <2>5 DEF n
  <1> QED
    BY <1>1, <1>2, <1>3, <1>4, <1>5, LocksAssumption DEF n

-----------------------------------------------------------------------------
(* The inductive invariant. *)

Data == [current : Nat, replays : Nat]

LockState == [owner : Caller \cup {None}, active : BOOLEAN, readers : SUBSET Caller,
              queued : SUBSET Caller]

LocksOK ==
    /\ call \in [Caller -> Calls \cup {None}]
    /\ rest = [t \in Caller |-> rest[t]]
    /\ locks \in [Lock -> LockState]
    /\ data \in [Point -> Data \cup {None}]
    /\ seen \in [Caller -> Data \cup {None}]

\* Caller t holds the lock of point k for writing, of the shared hook, of point
\* k for reading.
Writes(t, k) == \E n \in 1..6 : Stands(t, "Apply", k, n)
Hooks(t) == \E n \in 4..5 : Stands(t, "Apply", call[t].at, n)
Reads(t, k) ==
    \/ \E n \in 1..3 : Stands(t, "Current", k, n)
    \/ \E n \in 2..4 : Stands(t, "Fork", k, n)

Exclusive ==
    /\ \A l \in Lock : locks[l].active => locks[l].owner # None /\ locks[l].readers = {}
    /\ \A t \in Caller : \A k \in Point :
          /\ Writes(t, k) => locks[pub(k)].owner = t /\ locks[pub(k)].active
          /\ Reads(t, k) => t \in locks[pub(k)].readers
    /\ \A t \in Caller : Hooks(t) => locks[hook(Origin)].owner = t

\* A fork under way and the point it will make.
Forks(t) == rest[t] # <<>> /\ call[t].name = "Fork"

\* The state of point k is only ever half replaced by someone about to replace
\* the other half, and a fork's point is nobody else's before it is there.
Whole ==
    /\ \A k \in Point : data[k] # None =>
          \/ data[k].current = data[k].replays
          \/ \E t \in Caller : Stands(t, "Apply", k, 2)
    /\ \A t \in Caller : rest[t] # <<>> /\ call[t].name \in OfPoints => data[call[t].at] # None
    /\ \A t \in Caller : Forks(t) => data[call[t].to] = None
    /\ \A t, u \in Caller : Forks(t) /\ Forks(u) /\ call[t].to = call[u].to => t = u

\* What a reader has seen: one half as it still is, then both.
HalfRead(t, k) == Stands(t, "Current", k, 2) \/ Stands(t, "Fork", k, 3)
BothRead(t) ==
    \/ call[t].name = "Current" /\ Len(rest[t]) \in 0..1
    \/ call[t].name = "Fork" /\ Len(rest[t]) \in 0..2

SeenOK ==
    \A t \in Caller : call[t] # None =>
        /\ call[t].name \notin {"Current", "Fork"} => seen[t] = None
        /\ \A k \in Point : HalfRead(t, k) => seen[t] \in Data /\ seen[t].current = data[k].current
        /\ BothRead(t) => seen[t] \in Data /\ seen[t].current = seen[t].replays

LocksInv ==
    /\ LocksOK
    /\ \A t \in Caller : Placed(t)
    /\ Exclusive /\ Whole /\ SeenOK

-----------------------------------------------------------------------------
(* What a step can be. *)

\* No lock is another.
LEMMA LocksDiffer ==
    /\ {op, oph, adm, hook("op"), hook(Origin)} \subseteq Lock
    /\ hook(Origin) \notin {op, oph, adm, hook("op")}
    /\ \A k \in Point :
          /\ pub(k) \in Lock /\ pub(k) \notin {op, oph, adm, hook("op"), hook(Origin)}
          /\ \A j : pub(j) = pub(k) => j = k
  BY LocksAssumption DEF pub, hook, op, oph, adm, Lock

\* Who does what, and on which lock or point.
LEMMA Doings ==
    ASSUME NEW t, Placed(t), rest[t] # <<>>
    PROVE  LET k == call[t].at
               n == Len(rest[t])
               apply == call[t].name = "Apply" /\ k \in Point
               other == call[t].name \notin OfPoints /\ On(t) \in {op, oph, adm, hook("op")}
               Reader(m) == /\ k \in Point
                            /\ \/ call[t].name = "Current" /\ n = m
                               \/ call[t].name = "Fork" /\ n = m + 1
           IN  /\ Head(rest[t]).do = "lock" =>
                     \/ apply /\ n = 7 /\ On(t) = pub(k)
                     \/ apply /\ n = 6 /\ On(t) = hook(Origin)
                     \/ other
               /\ Head(rest[t]).do = "use" =>
                     \/ apply /\ n = 5
                     \/ other
               /\ Head(rest[t]).do = "unlock" =>
                     \/ apply /\ n = 1 /\ On(t) = pub(k)
                     \/ apply /\ n = 4 /\ On(t) = hook(Origin)
                     \/ other
               /\ Head(rest[t]).do = "setCurrent" => apply /\ n = 3 /\ On(t) = k
               /\ Head(rest[t]).do = "setReplays" => apply /\ n = 2 /\ On(t) = k
               /\ Head(rest[t]).do = "rlock" => Reader(4) /\ On(t) = pub(k)
               /\ Head(rest[t]).do = "getCurrent" => Reader(3) /\ On(t) = k
               /\ Head(rest[t]).do = "getReplays" => Reader(2) /\ On(t) = k
               /\ Head(rest[t]).do = "runlock" => Reader(1) /\ On(t) = pub(k)
               /\ Head(rest[t]).do = "install" =>
                     /\ call[t].name = "Fork" /\ k \in Point /\ n = 1
                     /\ On(t) = call[t].to /\ call[t].to \in Point
  <1> DEFINE h == Head(rest[t])
  <1>1. h \in Elsewhere => h.do \in {"lock", "unlock", "use"}
                           /\ h.on \in {op, oph, adm, hook("op")}
    BY DEF Elsewhere
  <1>2. \A do, on : Faces(t, do, on) => h.do = do /\ h.on = on
    BY DEF Faces, I
  <1>3. On(t) = h.on
    BY DEF On
  <1> HIDE DEF h
  <1> QED
    BY <1>1, <1>2, <1>3, Stage DEF h

\* What comes next, by how many instructions are left.
LEMMA Entries ==
    ASSUME NEW t, Placed(t), rest[t] # <<>>
    PROVE  LET k == call[t].at
               n == Len(rest[t])
           IN  /\ call[t].name = "Apply" =>
                     /\ n = 7 => Faces(t, "lock", pub(k))
                     /\ n = 6 => Faces(t, "lock", hook(Origin))
                     /\ n = 2 => Faces(t, "setReplays", k)
               /\ call[t].name = "Current" =>
                     /\ n = 4 => Faces(t, "rlock", pub(k))
                     /\ n = 3 => Faces(t, "getCurrent", k)
                     /\ n = 2 => Faces(t, "getReplays", k)
               /\ call[t].name = "Fork" =>
                     /\ n = 5 => Faces(t, "rlock", pub(k))
                     /\ n = 4 => Faces(t, "getCurrent", k)
                     /\ n = 3 => Faces(t, "getReplays", k)
  <1> DEFINE p == Program(call[t])
             k == call[t].at
             n == Len(rest[t])
  <1>1. call[t] \in Calls /\ Head(rest[t]) = p[Len(p) - n + 1]
    BY StepLeft
  <1> HIDE DEF p, k, n
  <1>2. CASE call[t].name = "Apply"
    <2>1. k \in Point /\ p = Apply(k)
      BY <1>1, <1>2, LocksAssumption DEF Program, p, k
    <2>2. Len(p) = 7 /\ p[1] = I("lock", pub(k)) /\ p[2] = I("lock", hook(Origin))
          /\ p[6] = I("setReplays", k)
      BY <2>1, ApplyIs
    <2>3. /\ n = 7 => Faces(t, "lock", pub(k))
          /\ n = 6 => Faces(t, "lock", hook(Origin))
          /\ n = 2 => Faces(t, "setReplays", k)
      BY <1>1, <2>2 DEF Faces
    <2> QED
      BY <1>2, <2>3 DEF n, k
  <1>3. CASE call[t].name = "Current"
    <2>1. k \in Point /\ p = Current(k)
      BY <1>1, <1>3, LocksAssumption DEF Program, p, k
    <2>2. Len(p) = 4 /\ p[1] = I("rlock", pub(k)) /\ p[2] = I("getCurrent", k)
          /\ p[3] = I("getReplays", k)
      BY <2>1, CurrentIs
    <2>3. /\ n = 4 => Faces(t, "rlock", pub(k))
          /\ n = 3 => Faces(t, "getCurrent", k)
          /\ n = 2 => Faces(t, "getReplays", k)
      BY <1>1, <2>2 DEF Faces
    <2> QED
      BY <1>3, <2>3 DEF n, k
  <1>4. CASE call[t].name = "Fork"
    <2>1. k \in Point /\ p = Fork(k, call[t].to) /\ call[t].to \in Point
      BY <1>1, <1>4, LocksAssumption DEF Program, p, k
    <2>2. Len(p) = 5 /\ p[1] = I("rlock", pub(k)) /\ p[2] = I("getCurrent", k)
          /\ p[3] = I("getReplays", k)
      BY <2>1, ForkIs
    <2>3. /\ n = 5 => Faces(t, "rlock", pub(k))
          /\ n = 4 => Faces(t, "getCurrent", k)
          /\ n = 3 => Faces(t, "getReplays", k)
      BY <1>1, <2>2 DEF Faces
    <2> QED
      BY <1>4, <2>3 DEF n, k
  <1> QED
    BY <1>2, <1>3, <1>4

\* A caller that goes on leaves the others where they are.
LEMMA Moved ==
    ASSUME LocksInv, NEW t \in Caller, rest[t] # <<>>, Advance(t), UNCHANGED call
    PROVE  /\ rest' = [u \in Caller |-> rest'[u]]
           /\ \A u \in Caller \ {t} : rest'[u] = rest[u]
           /\ Len(rest[t]) \in Nat \ {0} /\ Len(rest'[t]) = Len(rest[t]) - 1
           /\ rest'[t] = <<>> <=> Len(rest[t]) = 1
           /\ call[t] \in Calls
           /\ \A u \in Caller : Placed(u)'
  <1>1. Placed(t) /\ rest = [u \in Caller |-> rest[u]]
    BY DEF LocksInv, LocksOK
  <1>2. /\ rest' = [u \in Caller |-> rest'[u]] /\ rest'[t] = Tail(rest[t])
        /\ \A u \in Caller \ {t} : rest'[u] = rest[u]
    BY <1>1 DEF Advance
  <1>3. Placed(t)'
    BY <1>1, <1>2, StepLeft DEF Placed
  <1>4. \A u \in Caller \ {t} : Placed(u)'
    BY <1>2 DEF LocksInv, Placed
  <1> QED
    BY <1>1, <1>2, <1>3, <1>4, StepLeft

\* Whoever does not move stays where it was.
LEMMA Staying ==
    ASSUME NEW u, call'[u] = call[u], rest'[u] = rest[u]
    PROVE  /\ \A k : /\ Writes(u, k)' <=> Writes(u, k)
                     /\ Reads(u, k)' <=> Reads(u, k)
                     /\ HalfRead(u, k)' <=> HalfRead(u, k)
                     /\ Stands(u, "Apply", k, 2)' <=> Stands(u, "Apply", k, 2)
           /\ Hooks(u)' <=> Hooks(u)
           /\ Forks(u)' <=> Forks(u)
           /\ BothRead(u)' <=> BothRead(u)
  BY DEF Writes, Reads, HalfRead, Hooks, Forks, BothRead, Stands

\* What a caller comes to hold by going on, and what it no longer holds.
LEMMA Coming ==
    ASSUME LocksInv, NEW t \in Caller, rest[t] # <<>>, Advance(t), UNCHANGED call
    PROVE  LET do == Head(rest[t]).do
           IN  /\ \A k \in Point :
                     /\ Writes(t, k)' => \/ Writes(t, k) /\ do \notin {"lock", "unlock"}
                                         \/ Writes(t, k) /\ On(t) = hook(Origin)
                                         \/ do = "lock" /\ On(t) = pub(k)
                     /\ Reads(t, k)' => \/ Reads(t, k) /\ do \notin {"rlock", "runlock"}
                                        \/ do = "rlock" /\ On(t) = pub(k)
               /\ Hooks(t)' => \/ Hooks(t) /\ do \notin {"lock", "unlock"}
                               \/ do = "lock" /\ On(t) = hook(Origin)
  <1> DEFINE n == Len(rest[t])
  <1>1. /\ n \in Nat \ {0} /\ Len(rest'[t]) = n - 1 /\ call'[t] = call[t] /\ call[t] # None
    BY Moved, LocksAssumption
  <1>2. Placed(t)
    BY DEF LocksInv
  <1> HIDE DEF n
  <1>3. ASSUME NEW k \in Point, Writes(t, k)'
        PROVE  \/ Writes(t, k) /\ Head(rest[t]).do \notin {"lock", "unlock"}
               \/ Writes(t, k) /\ On(t) = hook(Origin)
               \/ Head(rest[t]).do = "lock" /\ On(t) = pub(k)
    <2>1. call[t].name = "Apply" /\ call[t].at = k /\ n \in 2..7
      BY <1>1, <1>3 DEF Writes, Stands
    <2>2. n # 7 => Writes(t, k)
      BY <1>1, <2>1 DEF Writes, Stands, n
    <2>3. Head(rest[t]).do = "lock" => \/ n = 7 /\ On(t) = pub(k)
                                       \/ n = 6 /\ On(t) = hook(Origin)
      BY <1>2, <2>1, Doings DEF n, OfPoints
    <2>4. Head(rest[t]).do = "unlock" => n = 1 \/ (n = 4 /\ On(t) = hook(Origin))
      BY <1>2, <2>1, Doings DEF n, OfPoints
    <2>5. n = 7 => Head(rest[t]).do = "lock" /\ On(t) = pub(k)
      <3> SUFFICES ASSUME n = 7 PROVE Faces(t, "lock", pub(k))
        BY DEF Faces, I, On
      <3> QED
        BY <1>2, <2>1, Entries DEF n
    <2> QED
      BY <2>1, <2>2, <2>3, <2>4, <2>5
  <1>4. ASSUME NEW k \in Point, Reads(t, k)'
        PROVE  \/ Reads(t, k) /\ Head(rest[t]).do \notin {"rlock", "runlock"}
               \/ Head(rest[t]).do = "rlock" /\ On(t) = pub(k)
    <2>1. /\ call[t].at = k
          /\ \/ call[t].name = "Current" /\ n \in 2..4
             \/ call[t].name = "Fork" /\ n \in 3..5
      BY <1>1, <1>4 DEF Reads, Stands
    <2>2. (call[t].name = "Current" => n # 4) /\ (call[t].name = "Fork" => n # 5) => Reads(t, k)
      BY <1>1, <2>1 DEF Reads, Stands, n
    <2>3. Head(rest[t]).do = "rlock" => On(t) = pub(k)
      BY <1>2, <2>1, Doings DEF n
    <2>4. Head(rest[t]).do # "runlock"
      <3>1. Head(rest[t]).do = "runlock" => \/ call[t].name = "Current" /\ n = 1
                                            \/ call[t].name = "Fork" /\ n = 2
        BY <1>2, Doings DEF n
      <3> QED
        BY <2>1, <3>1
    <2>5. (call[t].name = "Current" /\ n = 4) \/ (call[t].name = "Fork" /\ n = 5)
          => Head(rest[t]).do = "rlock"
      <3> SUFFICES ASSUME (call[t].name = "Current" /\ n = 4) \/ (call[t].name = "Fork" /\ n = 5)
                   PROVE  Faces(t, "rlock", pub(k))
        BY DEF Faces, I
      <3> QED
        BY <1>2, <2>1, Entries DEF n
    <2>6. Head(rest[t]).do = "rlock"
          => (call[t].name = "Current" /\ n = 4) \/ (call[t].name = "Fork" /\ n = 5)
      BY <1>2, <2>1, Doings DEF n
    <2> QED
      BY <2>2, <2>3, <2>4, <2>5
  <1>5. ASSUME Hooks(t)'
        PROVE  \/ Hooks(t) /\ Head(rest[t]).do \notin {"lock", "unlock"}
               \/ Head(rest[t]).do = "lock" /\ On(t) = hook(Origin)
    <2>1. call[t].name = "Apply" /\ n \in 5..6
      BY <1>1, <1>5 DEF Hooks, Stands
    <2>2. n = 5 => Hooks(t)
      BY <1>1, <2>1 DEF Hooks, Stands, n
    <2>3. /\ Head(rest[t]).do = "lock" => n = 7 \/ (n = 6 /\ On(t) = hook(Origin))
          /\ Head(rest[t]).do = "unlock" => n \in {1, 4}
      BY <1>2, <2>1, Doings DEF n, OfPoints
    <2>4. n = 6 => Head(rest[t]).do = "lock" /\ On(t) = hook(Origin)
      <3> SUFFICES ASSUME n = 6 PROVE Faces(t, "lock", hook(Origin))
        BY DEF Faces, I, On
      <3> QED
        BY <1>2, <2>1, Entries DEF n
    <2> QED
      BY <2>1, <2>2, <2>3, <2>4
  <1> QED
    BY <1>3, <1>4, <1>5

-----------------------------------------------------------------------------
(* What a step leaves as it is. *)

\* Who does nothing with locks holds what it held.
LEMMA ExclusiveKept ==
    ASSUME LocksInv, NEW t \in Caller, rest[t] # <<>>, Advance(t), UNCHANGED <<call, locks>>,
           Head(rest[t]).do \notin {"lock", "unlock", "rlock", "runlock"}
    PROVE  Exclusive'
  <1>1. \A u \in Caller : \A k \in Point : /\ Writes(u, k)' => Writes(u, k)
                                           /\ Reads(u, k)' => Reads(u, k)
    BY Coming, Moved, Staying
  <1>2. \A u \in Caller : Hooks(u)' => Hooks(u)
    BY Coming, Moved, Staying
  <1> QED
    BY <1>1, <1>2 DEF LocksInv, Exclusive

\* Who goes on without touching the data, unless it was to make it whole.
LEMMA WholeKept ==
    ASSUME LocksInv, NEW t \in Caller, rest[t] # <<>>, Advance(t), UNCHANGED <<call, data>>,
           Head(rest[t]).do # "setReplays"
    PROVE  Whole'
  <1>1. Whole
    BY DEF LocksInv
  <1>2. /\ \A u \in Caller \ {t} : rest'[u] = rest[u]
        /\ \A u \in Caller : rest'[u] # <<>> => rest[u] # <<>>
    BY Moved
  <1>3. ASSUME NEW k \in Point, data[k] # None, data[k].current # data[k].replays
        PROVE  \E u \in Caller : Stands(u, "Apply", k, 2)'
    <2>1. PICK u \in Caller : Stands(u, "Apply", k, 2)
      BY <1>1, <1>3 DEF Whole
    <2>2. u # t
      <3>1. Stands(t, "Apply", k, 2) => Faces(t, "setReplays", call[t].at)
        BY Entries DEF LocksInv, Stands
      <3> QED
        BY <2>1, <3>1 DEF Faces, I
    <2> QED
      BY <1>2, <2>1, <2>2 DEF Stands
  <1>4. \A u \in Caller : rest'[u] # <<>> /\ call[u].name \in OfPoints => data[call[u].at] # None
    BY <1>1, <1>2 DEF Whole
  <1>5. \A u \in Caller : Forks(u)' => Forks(u)
    BY <1>2 DEF Forks
  <1> QED
    BY <1>1, <1>3, <1>4, <1>5 DEF Whole

\* Who goes on without reading saw what it saw.
LEMMA SeenKept ==
    ASSUME LocksInv, NEW t \in Caller, rest[t] # <<>>, Advance(t), UNCHANGED <<call, seen>>,
           Head(rest[t]).do \notin {"getCurrent", "getReplays"},
           \A u \in Caller : \A k \in Point : HalfRead(u, k) => data'[k].current = data[k].current
    PROVE  SeenOK'
  <1>1. SeenOK /\ Placed(t)
    BY DEF LocksInv
  <1>2. /\ \A u \in Caller \ {t} : rest'[u] = rest[u]
        /\ Len(rest[t]) \in Nat \ {0} /\ Len(rest'[t]) = Len(rest[t]) - 1
    BY Moved
  <1> DEFINE n == Len(rest[t])
  <1>3. /\ call[t].name = "Current" => n \notin {2, 3}
        /\ call[t].name = "Fork" => n \notin {3, 4}
    <2>1. \A on : ~Faces(t, "getCurrent", on) /\ ~Faces(t, "getReplays", on)
      BY DEF Faces, I
    <2> QED
      BY <1>1, <2>1, Entries
  <1> HIDE DEF n
  <1>4. \A k \in Point : ~HalfRead(t, k)'
    BY <1>2, <1>3 DEF HalfRead, Stands, n
  <1>5. BothRead(t)' => BothRead(t)
    BY <1>2, <1>3 DEF BothRead, n
  <1>6. \A u \in Caller : \A k \in Point : HalfRead(u, k)' => HalfRead(u, k)
    BY <1>2, <1>4, Staying
  <1>7. \A u \in Caller : BothRead(u)' => BothRead(u)
    BY <1>2, <1>5, Staying
  <1> QED
    BY <1>1, <1>6, <1>7 DEF SeenOK

-----------------------------------------------------------------------------
(* Every step keeps the invariant. *)
\* Locks are taken and left on locks.
LEMMA OnLocks ==
    ASSUME LocksInv, NEW t \in Caller, rest[t] # <<>>,
           Head(rest[t]).do \in {"lock", "unlock", "rlock", "runlock"}
    PROVE  On(t) \in Lock /\ L(t) \in LockState
  <1>1. Placed(t) /\ locks \in [Lock -> LockState]
    BY DEF LocksInv, LocksOK
  <1>2. On(t) \in Lock
    BY <1>1, Doings, LocksDiffer
  <1> QED
    BY <1>1, <1>2 DEF L

\* A writer that announces itself keeps new readers out and disturbs nobody inside.
LEMMA AnnounceKeeps ==
    ASSUME LocksInv, NEW t \in Caller, Announce(t)
    PROVE  LocksInv'
  <1>1. On(t) \in Lock /\ L(t) \in LockState /\ L(t).owner = None
    BY OnLocks DEF Announce, Doing
  <1>2. /\ locks' = [locks EXCEPT ![On(t)].owner = t]
        /\ UNCHANGED <<call, rest, data, seen>>
    BY DEF Announce
  <1>3. /\ locks' \in [Lock -> LockState]
        /\ \A l \in Lock : /\ locks'[l].active = locks[l].active
                           /\ locks'[l].readers = locks[l].readers
                           /\ locks[l].owner # None => locks'[l].owner = locks[l].owner
    BY <1>1, <1>2 DEF LocksInv, LocksOK, LockState, L
  <1>4. \A u \in Caller : call'[u] = call[u] /\ rest'[u] = rest[u]
    BY <1>2
  <1>5. LocksOK'
    BY <1>2, <1>3 DEF LocksInv, LocksOK
  <1>6. Exclusive'
    <2>1. \A l \in Lock : locks[l].active => locks'[l].owner # None /\ locks'[l].readers = {}
      BY <1>3 DEF LocksInv, Exclusive
    <2>2. \A l \in Lock, u \in Caller : locks[l].owner = u => locks'[l].owner = u
      BY <1>3, LocksAssumption
    <2>3. Exclusive
      BY DEF LocksInv
    <2> QED
      BY <1>3, <1>4, <2>1, <2>2, <2>3, Staying, LocksDiffer DEF Exclusive
  <1>7. \A u \in Caller : Placed(u)'
    BY <1>4 DEF LocksInv, Placed
  <1>8. Whole' /\ SeenOK'
    <2>1. Whole /\ SeenOK
      BY DEF LocksInv
    <2>2. Whole'
      BY <1>2, <2>1 DEF Whole, Forks, Stands
    <2>3. SeenOK'
      BY <1>2, <2>1 DEF SeenOK, HalfRead, BothRead, Stands
    <2> QED
      BY <2>2, <2>3
  <1> QED
    BY <1>5, <1>6, <1>7, <1>8 DEF LocksInv

\* A reader that waits holds nothing.
LEMMA QueueKeeps ==
    ASSUME LocksInv, NEW t \in Caller, Queue(t)
    PROVE  LocksInv'
  <1>1. On(t) \in Lock /\ L(t) \in LockState
    BY OnLocks DEF Queue, Doing
  <1>2. /\ locks' = [locks EXCEPT ![On(t)].queued = @ \cup {t}]
        /\ UNCHANGED <<call, rest, data, seen>>
    BY DEF Queue
  <1>3. /\ locks' \in [Lock -> LockState]
        /\ \A l \in Lock : /\ locks'[l].active = locks[l].active
                           /\ locks'[l].readers = locks[l].readers
                           /\ locks'[l].owner = locks[l].owner
    BY <1>1, <1>2 DEF LocksInv, LocksOK, LockState, L
  <1>4. \A u \in Caller : call'[u] = call[u] /\ rest'[u] = rest[u]
    BY <1>2
  <1>5. LocksOK'
    BY <1>2, <1>3 DEF LocksInv, LocksOK
  <1>6. Exclusive'
    BY <1>3, <1>4, Staying, LocksDiffer DEF LocksInv, Exclusive
  <1>7. \A u \in Caller : Placed(u)'
    BY <1>4 DEF LocksInv, Placed
  <1>8. Whole' /\ SeenOK'
    <2>1. Whole /\ SeenOK
      BY DEF LocksInv
    <2>2. Whole'
      BY <1>2, <2>1 DEF Whole, Forks, Stands
    <2>3. SeenOK'
      BY <1>2, <2>1 DEF SeenOK, HalfRead, BothRead, Stands
    <2> QED
      BY <2>2, <2>3
  <1> QED
    BY <1>5, <1>6, <1>7, <1>8 DEF LocksInv

\* A caller that only has to do with locks changes nothing else.
LEMMA MoveKeeps ==
    ASSUME LocksInv, NEW t \in Caller, rest[t] # <<>>, Advance(t), UNCHANGED <<call, data, seen>>,
           Head(rest[t]).do \notin {"setReplays", "getCurrent", "getReplays"},
           locks' \in [Lock -> LockState], Exclusive'
    PROVE  LocksInv'
  <1>1. \A u \in Caller : \A k \in Point : HalfRead(u, k) => data'[k].current = data[k].current
    OBVIOUS
  <1>2. SeenOK'
    BY <1>1, SeenKept
  <1>3. Whole'
    BY WholeKept
  <1>4. (\A u \in Caller : Placed(u)') /\ rest' = [u \in Caller |-> rest'[u]]
    BY Moved
  <1>5. LocksOK'
    BY <1>4 DEF LocksInv, LocksOK
  <1> QED
    BY <1>2, <1>3, <1>4, <1>5 DEF LocksInv

\* A writer that gets in is alone.
LEMMA AcquireKeeps ==
    ASSUME LocksInv, NEW t \in Caller, Acquire(t)
    PROVE  LocksInv'
  <1>1. /\ rest[t] # <<>> /\ Head(rest[t]).do = "lock" /\ Advance(t)
        /\ UNCHANGED <<call, data, seen>>
        /\ L(t).owner = t /\ L(t).readers = {}
        /\ locks' = [locks EXCEPT ![On(t)].active = TRUE]
    BY DEF Acquire, Doing
  <1>2. On(t) \in Lock /\ L(t) \in LockState
    BY <1>1, OnLocks
  <1>3. /\ locks' \in [Lock -> LockState]
        /\ \A l \in Lock : /\ locks'[l].owner = locks[l].owner
                           /\ locks'[l].readers = locks[l].readers
                           /\ locks'[l].active = (l = On(t) \/ locks[l].active)
    BY <1>1, <1>2 DEF LocksInv, LocksOK, LockState, L
  <1>4. /\ \A k \in Point : /\ Writes(t, k)' => Writes(t, k) \/ On(t) = pub(k)
                            /\ Reads(t, k)' => Reads(t, k)
        /\ Hooks(t)' => Hooks(t) \/ On(t) = hook(Origin)
    BY <1>1, Coming
  <1>5. \A u \in Caller \ {t} : /\ \A k \in Point : /\ Writes(u, k)' => Writes(u, k)
                                                    /\ Reads(u, k)' => Reads(u, k)
                                /\ Hooks(u)' => Hooks(u)
    BY <1>1, Moved, Staying
  <1>6. Exclusive
    BY DEF LocksInv
  <1>7. Exclusive'
    <2>1. \A l \in Lock : locks'[l].active => locks'[l].owner # None /\ locks'[l].readers = {}
      BY <1>1, <1>3, <1>6, LocksAssumption DEF Exclusive, L
    <2>2. \A u \in Caller : \A k \in Point :
             /\ Writes(u, k)' => locks'[pub(k)].owner = u /\ locks'[pub(k)].active
             /\ Reads(u, k)' => u \in locks'[pub(k)].readers
      BY <1>1, <1>3, <1>4, <1>5, <1>6, LocksDiffer DEF Exclusive, L
    <2>3. \A u \in Caller : Hooks(u)' => locks'[hook(Origin)].owner = u
      BY <1>1, <1>3, <1>4, <1>5, <1>6, LocksDiffer DEF Exclusive, L
    <2> QED
      BY <2>1, <2>2, <2>3 DEF Exclusive
  <1> QED
    BY <1>1, <1>3, <1>7, MoveKeeps

\* Who unlocks held the lock.
LEMMA Unlocks ==
    ASSUME LocksInv, NEW t \in Caller, rest[t] # <<>>, Head(rest[t]).do = "unlock"
    PROVE  /\ \A k \in Point : On(t) = pub(k) => Writes(t, k)
           /\ On(t) = hook(Origin) => Hooks(t)
  <1> DEFINE n == Len(rest[t])
  <1>1. Placed(t)
    BY DEF LocksInv
  <1>2. call[t] # None
    BY <1>1, LocksAssumption DEF Placed
  <1>3. \/ call[t].name = "Apply" /\ call[t].at \in Point /\ n = 1 /\ On(t) = pub(call[t].at)
        \/ call[t].name = "Apply" /\ call[t].at \in Point /\ n = 4 /\ On(t) = hook(Origin)
        \/ On(t) \in {op, oph, adm, hook("op")}
    BY <1>1, Doings
  <1> HIDE DEF n
  <1>4. \A k \in Point : On(t) = pub(k) => Writes(t, k)
    <2> SUFFICES ASSUME NEW k \in Point, On(t) = pub(k)
                 PROVE  Stands(t, "Apply", k, 1)
      BY DEF Writes
    <2> QED
      BY <1>2, <1>3, LocksDiffer DEF Stands, n
  <1>5. On(t) = hook(Origin) => Hooks(t)
    <2> SUFFICES ASSUME On(t) = hook(Origin)
                 PROVE  Stands(t, "Apply", call[t].at, 4)
      BY DEF Hooks
    <2> QED
      BY <1>2, <1>3, LocksDiffer DEF Stands, n
  <1> QED
    BY <1>4, <1>5

\* A writer leaves the point whole, and lets in readers who are then alone with it.
LEMMA UnlockKeeps ==
    ASSUME LocksInv, NEW t \in Caller, Unlock(t)
    PROVE  LocksInv'
  <1>1. /\ rest[t] # <<>> /\ Head(rest[t]).do = "unlock" /\ Advance(t)
        /\ UNCHANGED <<call, data, seen>>
        /\ locks' = [locks EXCEPT ![On(t)] =
                        [owner |-> None, active |-> FALSE, readers |-> @.queued, queued |-> {}]]
    BY DEF Unlock, Doing
  <1>2. On(t) \in Lock /\ L(t) \in LockState
    BY <1>1, OnLocks
  <1>3. /\ locks' \in [Lock -> LockState]
        /\ \A l \in Lock : l # On(t) => locks'[l] = locks[l]
        /\ locks'[On(t)].active = FALSE
    BY <1>1, <1>2 DEF LocksInv, LocksOK, LockState, L
  <1>4. /\ \A k \in Point : /\ Writes(t, k)' => Writes(t, k) /\ On(t) = hook(Origin)
                            /\ Reads(t, k)' => Reads(t, k)
        /\ ~Hooks(t)'
    BY <1>1, Coming
  <1>5. \A u \in Caller \ {t} : /\ \A k \in Point : /\ Writes(u, k)' => Writes(u, k)
                                                    /\ Reads(u, k)' => Reads(u, k)
                                /\ Hooks(u)' => Hooks(u)
    BY <1>1, Moved, Staying
  <1>6. Exclusive /\ \A k \in Point : pub(k) \in Lock /\ pub(k) # hook(Origin)
    BY LocksDiffer DEF LocksInv
  <1>7. Exclusive'
    <2>1. \A l \in Lock : locks'[l].active => locks'[l].owner # None /\ locks'[l].readers = {}
      BY <1>3, <1>6 DEF Exclusive
    <2>2. \A u \in Caller : \A k \in Point : Writes(u, k)' => pub(k) # On(t)
      <3>1. \A u \in Caller \ {t} : \A k \in Point : Writes(u, k) => pub(k) # On(t)
        BY <1>1, <1>6, Unlocks DEF Exclusive
      <3> QED
        BY <1>4, <1>5, <1>6, <3>1
    <2>3. \A u \in Caller : \A k \in Point : Reads(u, k)' => pub(k) # On(t)
      <3>1. \A u \in Caller : \A k \in Point : Reads(u, k) => pub(k) # On(t)
        BY <1>1, <1>6, Unlocks DEF Exclusive
      <3> QED
        BY <1>4, <1>5, <3>1
    <2>4. \A u \in Caller : Hooks(u)' => On(t) # hook(Origin)
      BY <1>1, <1>4, <1>5, <1>6, Unlocks DEF Exclusive
    <2>5. \A u \in Caller : \A k \in Point : /\ Writes(u, k)' => Writes(u, k)
                                             /\ Reads(u, k)' => Reads(u, k)
      BY <1>4, <1>5
    <2>6. \A u \in Caller : Hooks(u)' => Hooks(u)
      BY <1>4, <1>5
    <2> QED
      BY <1>3, <1>6, <2>1, <2>2, <2>3, <2>4, <2>5, <2>6, LocksDiffer DEF Exclusive
  <1> QED
    BY <1>1, <1>3, <1>7, MoveKeeps

\* A reader that gets in finds no writer.
LEMMA RLockKeeps ==
    ASSUME LocksInv, NEW t \in Caller, RLock(t)
    PROVE  LocksInv'
  <1>1. /\ rest[t] # <<>> /\ Head(rest[t]).do = "rlock" /\ Advance(t)
        /\ UNCHANGED <<call, data, seen>>
        /\ L(t).owner = None \/ t \in L(t).readers
        /\ locks' = [locks EXCEPT ![On(t)].readers = @ \cup {t}]
    BY DEF RLock, Doing
  <1>2. On(t) \in Lock /\ L(t) \in LockState
    BY <1>1, OnLocks
  <1>3. /\ locks' \in [Lock -> LockState]
        /\ \A l \in Lock : /\ locks'[l].owner = locks[l].owner
                           /\ locks'[l].active = locks[l].active
                           /\ locks[l].readers \subseteq locks'[l].readers
                           /\ l # On(t) => locks'[l].readers = locks[l].readers
        /\ t \in locks'[On(t)].readers
    BY <1>1, <1>2 DEF LocksInv, LocksOK, LockState, L
  <1>4. /\ \A k \in Point : /\ Writes(t, k)' => Writes(t, k)
                            /\ Reads(t, k)' => Reads(t, k) \/ On(t) = pub(k)
        /\ Hooks(t)' => Hooks(t)
    BY <1>1, Coming
  <1>5. \A u \in Caller \ {t} : /\ \A k \in Point : /\ Writes(u, k)' => Writes(u, k)
                                                    /\ Reads(u, k)' => Reads(u, k)
                                /\ Hooks(u)' => Hooks(u)
    BY <1>1, Moved, Staying
  <1>6. Exclusive
    BY DEF LocksInv
  <1>7. Exclusive'
    <2>1. \A l \in Lock : locks'[l].active => locks'[l].owner # None /\ locks'[l].readers = {}
      BY <1>1, <1>3, <1>6 DEF Exclusive, L
    <2>2. \A u \in Caller : \A k \in Point :
             /\ Writes(u, k)' => locks'[pub(k)].owner = u /\ locks'[pub(k)].active
             /\ Reads(u, k)' => u \in locks'[pub(k)].readers
      BY <1>3, <1>4, <1>5, <1>6, LocksDiffer DEF Exclusive
    <2>3. \A u \in Caller : Hooks(u)' => locks'[hook(Origin)].owner = u
      BY <1>3, <1>4, <1>5, <1>6, LocksDiffer DEF Exclusive
    <2> QED
      BY <2>1, <2>2, <2>3 DEF Exclusive
  <1> QED
    BY <1>1, <1>3, <1>7, MoveKeeps

\* A reader that leaves has read both halves.
LEMMA RUnlockKeeps ==
    ASSUME LocksInv, NEW t \in Caller, RUnlock(t)
    PROVE  LocksInv'
  <1>1. /\ rest[t] # <<>> /\ Head(rest[t]).do = "runlock" /\ Advance(t)
        /\ UNCHANGED <<call, data, seen>>
        /\ locks' = [locks EXCEPT ![On(t)].readers = @ \ {t}]
    BY DEF RUnlock, Doing
  <1>2. On(t) \in Lock /\ L(t) \in LockState
    BY <1>1, OnLocks
  <1>3. /\ locks' \in [Lock -> LockState]
        /\ \A l \in Lock : /\ locks'[l].owner = locks[l].owner
                           /\ locks'[l].active = locks[l].active
                           /\ locks'[l].readers \subseteq locks[l].readers
                           /\ locks[l].readers \subseteq locks'[l].readers \cup {t}
    BY <1>1, <1>2 DEF LocksInv, LocksOK, LockState, L
  <1>4. /\ \A k \in Point : (Writes(t, k)' => Writes(t, k)) /\ ~Reads(t, k)'
        /\ Hooks(t)' => Hooks(t)
    BY <1>1, Coming
  <1>5. \A u \in Caller \ {t} : /\ \A k \in Point : /\ Writes(u, k)' => Writes(u, k)
                                                    /\ Reads(u, k)' => Reads(u, k)
                                /\ Hooks(u)' => Hooks(u)
    BY <1>1, Moved, Staying
  <1>6. Exclusive
    BY DEF LocksInv
  <1>7. Exclusive'
    <2>1. \A l \in Lock : locks'[l].active => locks'[l].owner # None /\ locks'[l].readers = {}
      BY <1>3, <1>6 DEF Exclusive
    <2>2. \A u \in Caller : \A k \in Point :
             /\ Writes(u, k)' => locks'[pub(k)].owner = u /\ locks'[pub(k)].active
             /\ Reads(u, k)' => u \in locks'[pub(k)].readers
      BY <1>3, <1>4, <1>5, <1>6, LocksDiffer DEF Exclusive
    <2>3. \A u \in Caller : Hooks(u)' => locks'[hook(Origin)].owner = u
      BY <1>3, <1>4, <1>5, <1>6, LocksDiffer DEF Exclusive
    <2> QED
      BY <2>1, <2>2, <2>3 DEF Exclusive
  <1> QED
    BY <1>1, <1>3, <1>7, MoveKeeps

\* A hook at work.
LEMMA RunKeeps ==
    ASSUME LocksInv, NEW t \in Caller, Run(t)
    PROVE  LocksInv'
  <1>1. /\ rest[t] # <<>> /\ Head(rest[t]).do = "use" /\ Advance(t)
        /\ UNCHANGED <<call, locks, data, seen>>
    BY DEF Run, Doing
  <1>2. Exclusive'
    BY <1>1, ExclusiveKept
  <1>3. locks' \in [Lock -> LockState]
    BY <1>1 DEF LocksInv, LocksOK
  <1> QED
    BY <1>1, <1>2, <1>3, MoveKeeps

\* While a point is being written nobody reads it.
LEMMA WritersAlone ==
    ASSUME LocksInv, NEW k \in Point, NEW t \in Caller, Writes(t, k)
    PROVE  \A u \in Caller : ~Reads(u, k) /\ ~HalfRead(u, k)
  <1>1. \A u \in Caller : ~Reads(u, k)
    BY LocksDiffer DEF LocksInv, Exclusive
  <1>2. \A u \in Caller : HalfRead(u, k) => Reads(u, k)
    BY DEF HalfRead, Reads
  <1> QED
    BY <1>1, <1>2

\* The points a call is about are points.
LEMMA OnPoints ==
    ASSUME LocksInv
    PROVE  \A u \in Caller :
              /\ rest[u] # <<>> /\ call[u].name \in OfPoints => call[u].at \in Point
              /\ Forks(u) => call[u].to \in Point
  BY LocksAssumption DEF LocksInv, Placed, OfPoints, Forks

\* As long as the same points are there, calls go on with points that are there.
LEMMA SamePoints ==
    ASSUME LocksInv, NEW t \in Caller, rest[t] # <<>>, Advance(t), UNCHANGED call,
           \A j \in Point : data'[j] = None <=> data[j] = None
    PROVE  /\ \A u \in Caller : rest'[u] # <<>> /\ call'[u].name \in OfPoints
                                => data'[call'[u].at] # None
           /\ \A u \in Caller : Forks(u)' => data'[call'[u].to] = None
           /\ \A u, v \in Caller : Forks(u)' /\ Forks(v)' /\ call'[u].to = call'[v].to => u = v
  <1>1. \A u \in Caller : rest'[u] # <<>> => rest[u] # <<>>
    BY Moved
  <1>2. \A u \in Caller : Forks(u)' => Forks(u)
    BY <1>1 DEF Forks
  <1>3. \A u \in Caller : rest'[u] # <<>> /\ call[u].name \in OfPoints
                         => data'[call[u].at] # None
    BY <1>1, OnPoints DEF Whole, LocksInv
  <1>4. \A u \in Caller : Forks(u)' => data'[call[u].to] = None
    BY <1>2, OnPoints DEF Whole, LocksInv
  <1>5. \A u, v \in Caller : Forks(u)' /\ Forks(v)' /\ call[u].to = call[v].to => u = v
    BY <1>2 DEF Whole, LocksInv
  <1> QED
    BY <1>3, <1>4, <1>5

\* The first half of a commit is written by the one writer inside...
LEMMA SetCurrentKeeps ==
    ASSUME LocksInv, NEW t \in Caller, SetCurrent(t)
    PROVE  LocksInv'
  <1> DEFINE n == Len(rest[t])
  <1>0. PICK k \in Point : k = On(t)
    BY Doings DEF SetCurrent, Doing, LocksInv
  <1>1. /\ rest[t] # <<>> /\ Head(rest[t]).do = "setCurrent" /\ Advance(t)
        /\ UNCHANGED <<call, locks, seen>>
        /\ data' = [data EXCEPT ![k].current = @ + 1]
    BY <1>0 DEF SetCurrent, Doing
  <1>2. Placed(t) /\ call[t] # None /\ Whole
    BY <1>1, LocksAssumption DEF LocksInv, Placed
  <1>3. call[t].name = "Apply" /\ call[t].at = k /\ k \in Point /\ n = 3
    BY <1>0, <1>1, <1>2, Doings
  <1> HIDE DEF n
  <1>4. Writes(t, k) /\ Stands(t, "Apply", k, 2)'
    <2>1. Stands(t, "Apply", k, 3)
      BY <1>2, <1>3 DEF Stands, n
    <2>2. Len(rest'[t]) = n - 1
      BY <1>1, Moved DEF n
    <2>3. Len(rest'[t]) = 2 /\ call' = call
      BY <1>1, <1>3, <2>2
    <2>4. Stands(t, "Apply", k, 2)'
      BY <1>2, <1>3, <2>3 DEF Stands
    <2> QED
      BY <2>1, <2>4 DEF Writes
  <1>5. data[k] \in Data
    BY <1>1, <1>2, <1>3 DEF Whole, OfPoints, LocksInv, LocksOK
  <1>6. /\ data' \in [Point -> Data \cup {None}] /\ data'[k] \in Data
        /\ \A j \in Point : j # k => data'[j] = data[j]
    BY <1>1, <1>3, <1>5 DEF LocksInv, LocksOK, Data
  <1>7. \A j \in Point : data'[j] = None <=> data[j] = None
    BY <1>5, <1>6, LocksAssumption DEF Data
  <1>8. SeenOK'
    <2>1. \A u \in Caller : \A j \in Point : HalfRead(u, j) => j # k
      BY <1>3, <1>4, WritersAlone
    <2> QED
      BY <1>1, <1>6, <2>1, SeenKept
  <1>9. Exclusive'
    BY <1>1, ExclusiveKept
  <1>10. Whole'
    <2>1. \A u \in Caller \ {t} : rest'[u] = rest[u] /\ call'[u] = call[u]
      BY <1>1, Moved
    <2>2. ASSUME NEW j \in Point, data'[j] # None, data'[j].current # data'[j].replays
          PROVE  \E u \in Caller : Stands(u, "Apply", j, 2)'
      <3>1. CASE j = k
        BY <1>4, <3>1 DEF Stands
      <3>2. CASE j # k
        <4>1. data[j] # None /\ data[j].current # data[j].replays
          BY <1>6, <2>2, <3>2
        <4>2. PICK u \in Caller : Stands(u, "Apply", j, 2)
          BY <1>2, <4>1 DEF Whole
        <4>3. u # t
          BY <1>3, <3>2, <4>2 DEF Stands
        <4> QED
          BY <2>1, <4>2, <4>3 DEF Stands
      <3> QED
        BY <3>1, <3>2
    <2> QED
      BY <1>1, <1>7, <2>2, SamePoints DEF Whole
  <1>11. (\A u \in Caller : Placed(u)') /\ rest' = [u \in Caller |-> rest'[u]]
    BY <1>1, Moved
  <1>12. LocksOK'
    BY <1>1, <1>6, <1>11 DEF LocksInv, LocksOK
  <1> QED
    BY <1>8, <1>9, <1>10, <1>11, <1>12 DEF LocksInv

\* ... and so is the second, which makes the point whole again.
LEMMA SetReplaysKeeps ==
    ASSUME LocksInv, NEW t \in Caller, SetReplays(t)
    PROVE  LocksInv'
  <1>0. PICK k \in Point : k = On(t)
    BY Doings DEF SetReplays, Doing, LocksInv
  <1>1. /\ rest[t] # <<>> /\ Head(rest[t]).do = "setReplays" /\ Advance(t)
        /\ UNCHANGED <<call, locks, seen>>
        /\ data' = [data EXCEPT ![k].replays = data[k].current]
    BY <1>0 DEF SetReplays, Doing
  <1>2. Placed(t) /\ Whole
    BY DEF LocksInv
  <1>3. call[t].name = "Apply" /\ call[t].at = k
    BY <1>0, <1>1, <1>2, Doings
  <1>4. data[k] \in Data
    BY <1>1, <1>2, <1>3 DEF Whole, OfPoints, LocksInv, LocksOK
  <1>5. /\ data' \in [Point -> Data \cup {None}]
        /\ data'[k] \in Data /\ data'[k].current = data[k].current
        /\ data'[k].replays = data[k].current
        /\ \A j \in Point : j # k => data'[j] = data[j]
    BY <1>1, <1>4 DEF LocksInv, LocksOK, Data
  <1>6. \A j \in Point : data'[j] = None <=> data[j] = None
    BY <1>4, <1>5, LocksAssumption DEF Data
  <1>7. SeenOK'
    BY <1>1, <1>5, SeenKept
  <1>8. Exclusive'
    BY <1>1, ExclusiveKept
  <1>9. Whole'
    <2>1. \A u \in Caller \ {t} : rest'[u] = rest[u] /\ call'[u] = call[u]
      BY <1>1, Moved
    <2>2. ASSUME NEW j \in Point, data'[j] # None, data'[j].current # data'[j].replays
          PROVE  \E u \in Caller : Stands(u, "Apply", j, 2)'
      <3>1. j # k /\ data[j] # None /\ data[j].current # data[j].replays
        BY <1>5, <2>2
      <3>2. PICK u \in Caller : Stands(u, "Apply", j, 2)
        BY <1>2, <3>1 DEF Whole
      <3>3. u # t
        BY <1>3, <3>1, <3>2 DEF Stands
      <3> QED
        BY <2>1, <3>2, <3>3 DEF Stands
    <2> QED
      BY <1>1, <1>6, <2>2, SamePoints DEF Whole
  <1>10. (\A u \in Caller : Placed(u)') /\ rest' = [u \in Caller |-> rest'[u]]
    BY <1>1, Moved
  <1>11. LocksOK'
    BY <1>1, <1>5, <1>10 DEF LocksInv, LocksOK
  <1> QED
    BY <1>7, <1>8, <1>9, <1>10, <1>11 DEF LocksInv

\* The first half is read from a whole point...
LEMMA GetCurrentKeeps ==
    ASSUME LocksInv, NEW t \in Caller, GetCurrent(t)
    PROVE  LocksInv'
  <1> DEFINE n == Len(rest[t])
  <1>0. PICK k \in Point : k = On(t)
    BY Doings DEF GetCurrent, Doing, LocksInv
  <1>1. /\ rest[t] # <<>> /\ Head(rest[t]).do = "getCurrent" /\ Advance(t)
        /\ UNCHANGED <<call, locks, data>>
        /\ seen' = [seen EXCEPT ![t] = [current |-> data[k].current, replays |-> 0]]
    BY <1>0 DEF GetCurrent, Doing
  <1>2. Placed(t) /\ Whole /\ SeenOK
    BY DEF LocksInv
  <1>3. /\ call[t].at = k
        /\ \/ call[t].name = "Current" /\ n = 3
           \/ call[t].name = "Fork" /\ n = 4
    BY <1>0, <1>1, <1>2, Doings
  <1>4. Len(rest'[t]) = n - 1
    BY <1>1, Moved
  <1> HIDE DEF n
  <1>5. data[k] \in Data
    BY <1>1, <1>2, <1>3 DEF Whole, OfPoints, LocksInv, LocksOK
  <1>6. /\ seen' \in [Caller -> Data \cup {None}] /\ seen'[t] \in Data
        /\ seen'[t].current = data[k].current
        /\ \A u \in Caller \ {t} : seen'[u] = seen[u]
    BY <1>1, <1>5 DEF LocksInv, LocksOK, Data
  <1>7. SeenOK'
    <2>1. \A j \in Point : HalfRead(t, j)' => j = k
      BY <1>1, <1>3 DEF HalfRead, Stands
    <2>2. ~BothRead(t)'
      <3>1. call[t].name = "Current" => Len(rest'[t]) \notin 0..1
        BY <1>3, <1>4
      <3>2. call[t].name = "Fork" => Len(rest'[t]) \notin 0..2
        BY <1>3, <1>4
      <3> QED
        BY <1>1, <3>1, <3>2 DEF BothRead
    <2>3. \A u \in Caller \ {t} : /\ \A j \in Point : HalfRead(u, j)' => HalfRead(u, j)
                                  /\ BothRead(u)' => BothRead(u)
      BY <1>1, Moved, Staying
    <2> QED
      BY <1>1, <1>2, <1>3, <1>6, <2>1, <2>2, <2>3 DEF SeenOK
  <1>8. Exclusive'
    BY <1>1, ExclusiveKept
  <1>9. Whole'
    BY <1>1, WholeKept
  <1>10. (\A u \in Caller : Placed(u)') /\ rest' = [u \in Caller |-> rest'[u]]
    BY <1>1, Moved
  <1>11. LocksOK'
    BY <1>1, <1>6, <1>10 DEF LocksInv, LocksOK
  <1> QED
    BY <1>7, <1>8, <1>9, <1>10, <1>11 DEF LocksInv

\* ... and the second from the same commit, as no writer came in between.
LEMMA GetReplaysKeeps ==
    ASSUME LocksInv, NEW t \in Caller, GetReplays(t)
    PROVE  LocksInv'
  <1> DEFINE n == Len(rest[t])
  <1>0. PICK k \in Point : k = On(t)
    BY Doings DEF GetReplays, Doing, LocksInv
  <1>1. /\ rest[t] # <<>> /\ Head(rest[t]).do = "getReplays" /\ Advance(t)
        /\ UNCHANGED <<call, locks, data>>
        /\ seen' = [seen EXCEPT ![t].replays = data[k].replays]
    BY <1>0 DEF GetReplays, Doing
  <1>2. Placed(t) /\ Whole /\ SeenOK /\ call[t] # None
    BY <1>1, LocksAssumption DEF LocksInv, Placed
  <1>3. /\ call[t].at = k
        /\ \/ call[t].name = "Current" /\ n = 2
           \/ call[t].name = "Fork" /\ n = 3
    BY <1>0, <1>1, <1>2, Doings
  <1>4. Len(rest'[t]) = n - 1
    BY <1>1, Moved
  <1>5. HalfRead(t, k) /\ Reads(t, k)
    BY <1>2, <1>3 DEF HalfRead, Reads, Stands
  <1> HIDE DEF n
  <1>6. data[k] \in Data
    BY <1>1, <1>2, <1>3 DEF Whole, OfPoints, LocksInv, LocksOK
  <1>7. data[k].current = data[k].replays
    <2>1. \A u \in Caller : ~Writes(u, k)
      BY <1>5, WritersAlone
    <2>2. \A u \in Caller : ~Stands(u, "Apply", k, 2)
      BY <2>1 DEF Writes
    <2> QED
      BY <1>2, <1>6, <2>2, LocksAssumption DEF Whole, Data
  <1>8. seen[t] \in Data /\ seen[t].current = data[k].current
    BY <1>2, <1>5 DEF SeenOK
  <1>9. /\ seen' \in [Caller -> Data \cup {None}] /\ seen'[t] \in Data
        /\ seen'[t].current = seen'[t].replays
        /\ \A u \in Caller \ {t} : seen'[u] = seen[u]
    BY <1>1, <1>6, <1>7, <1>8 DEF LocksInv, LocksOK, Data
  <1>10. SeenOK'
    <2>1. \A j \in Point : ~HalfRead(t, j)'
      <3>1. call[t].name = "Current" => Len(rest'[t]) # 2
        BY <1>3, <1>4
      <3>2. call[t].name = "Fork" => Len(rest'[t]) # 3
        BY <1>3, <1>4
      <3> QED
        BY <1>1, <3>1, <3>2 DEF HalfRead, Stands
    <2>2. \A u \in Caller \ {t} : /\ \A j \in Point : HalfRead(u, j)' => HalfRead(u, j)
                                  /\ BothRead(u)' => BothRead(u)
      BY <1>1, Moved, Staying
    <2> QED
      BY <1>1, <1>2, <1>3, <1>9, <2>1, <2>2 DEF SeenOK
  <1>11. Exclusive'
    BY <1>1, ExclusiveKept
  <1>12. Whole'
    BY <1>1, WholeKept
  <1>13. (\A u \in Caller : Placed(u)') /\ rest' = [u \in Caller |-> rest'[u]]
    BY <1>1, Moved
  <1>14. LocksOK'
    BY <1>1, <1>9, <1>13 DEF LocksInv, LocksOK
  <1> QED
    BY <1>10, <1>11, <1>12, <1>13, <1>14 DEF LocksInv

\* A fork becomes a point with both halves.
LEMMA InstallKeeps ==
    ASSUME LocksInv, NEW t \in Caller, Install(t)
    PROVE  LocksInv'
  <1> DEFINE n == Len(rest[t])
  <1>0. PICK k \in Point : k = On(t)
    BY Doings DEF Install, Doing, LocksInv
  <1>1. /\ rest[t] # <<>> /\ Head(rest[t]).do = "install" /\ Advance(t)
        /\ UNCHANGED <<call, locks, seen>>
        /\ data' = [data EXCEPT ![k] = seen[t]]
    BY <1>0 DEF Install, Doing
  <1>2. Placed(t) /\ Whole /\ SeenOK /\ call[t] # None
    BY <1>1, LocksAssumption DEF LocksInv, Placed
  <1>3. call[t].name = "Fork" /\ call[t].to = k /\ n = 1
    BY <1>0, <1>1, <1>2, Doings
  <1>4. rest'[t] = <<>> /\ \A u \in Caller \ {t} : rest'[u] = rest[u] /\ call'[u] = call[u]
    BY <1>1, <1>3, Moved
  <1>5. \A u \in Caller : rest'[u] # <<>> => rest[u] # <<>>
    BY <1>1, <1>4
  <1>6. seen[t] \in Data /\ seen[t].current = seen[t].replays
    BY <1>2, <1>3 DEF SeenOK, BothRead
  <1>7. Forks(t) /\ data[k] = None
    BY <1>1, <1>2, <1>3 DEF Forks, Whole
  <1>8. /\ data' \in [Point -> Data \cup {None}] /\ data'[k] = seen[t]
        /\ \A j \in Point : j # k => data'[j] = data[j]
    BY <1>1, <1>6 DEF LocksInv, LocksOK
  <1>9. \A j \in Point : data[j] # None => j # k /\ data'[j] = data[j]
    BY <1>7, <1>8
  <1>10. Exclusive'
    BY <1>1, ExclusiveKept
  <1>11. SeenOK'
    <2>1. \A u \in Caller : \A j \in Point : HalfRead(u, j) => data[j] # None
      <3> SUFFICES ASSUME NEW u \in Caller, NEW j \in Point, HalfRead(u, j)
                   PROVE  data[j] # None
        OBVIOUS
      <3>1. /\ call[u].name \in OfPoints /\ call[u].at = j /\ call[u] # None
            /\ Len(rest[u]) \in {2, 3}
        BY DEF HalfRead, Stands, OfPoints
      <3>2. rest[u] = <<>> => Len(rest[u]) = 0
        OBVIOUS
      <3>3. rest[u] # <<>>
        <4>1. 0 \notin {2, 3}
          OBVIOUS
        <4> QED
          BY <3>1, <3>2, <4>1, Zenon
      <3> QED
        BY <1>2, <3>1, <3>3 DEF Whole
    <2>2. \A u \in Caller : \A j \in Point : HalfRead(u, j) => data'[j].current = data[j].current
      BY <1>9, <2>1
    <2> QED
      BY <1>1, <2>2, SeenKept
  <1>12. Whole'
    <2>1. ASSUME NEW j \in Point, data'[j] # None, data'[j].current # data'[j].replays
          PROVE  \E u \in Caller : Stands(u, "Apply", j, 2)'
      <3>1. j # k /\ data[j] # None /\ data[j].current # data[j].replays
        BY <1>6, <1>8, <2>1
      <3>2. PICK u \in Caller : Stands(u, "Apply", j, 2)
        BY <1>2, <3>1 DEF Whole
      <3>3. u # t
        BY <1>3, <3>2 DEF Stands
      <3> QED
        BY <1>4, <3>2, <3>3 DEF Stands
    <2>2. \A u \in Caller : rest'[u] # <<>> /\ call[u].name \in OfPoints => data'[call[u].at] # None
      BY <1>2, <1>5, <1>9, OnPoints DEF Whole
    <2>3. \A u \in Caller : Forks(u)' => Forks(u) /\ u # t
      BY <1>1, <1>4, <1>5 DEF Forks
    <2>4. \A u \in Caller : Forks(u)' => data'[call[u].to] = None
      <3> SUFFICES ASSUME NEW u \in Caller, Forks(u), u # t
                   PROVE  data'[call[u].to] = None
        BY <2>3
      <3>1. call[u].to # k
        BY <1>2, <1>3, <1>7 DEF Whole
      <3> QED
        BY <1>2, <1>8, <3>1, OnPoints DEF Whole
    <2>5. \A u, v \in Caller : Forks(u)' /\ Forks(v)' /\ call[u].to = call[v].to => u = v
      BY <1>2, <2>3 DEF Whole
    <2> QED
      BY <1>1, <2>1, <2>2, <2>4, <2>5 DEF Whole
  <1>13. (\A u \in Caller : Placed(u)') /\ rest' = [u \in Caller |-> rest'[u]]
    BY <1>1, Moved
  <1>14. LocksOK'
    BY <1>1, <1>8, <1>13 DEF LocksInv, LocksOK
  <1> QED
    BY <1>10, <1>11, <1>12, <1>13, <1>14 DEF LocksInv

\* A call that begins has read nothing and holds nothing.
LEMMA BeginKeeps ==
    ASSUME LocksInv, NEW t \in Caller, NEW c \in Calls, Begin(t, c)
    PROVE  LocksInv'
  <1> DEFINE p == Program(c)
  <1>1. /\ call[t] = None
        /\ c.name \in OfPoints => data[c.at] # None
        /\ c.name = "Fork" => /\ data[c.to] = None
                              /\ \A u \in Caller : call[u] # None => call[u].to # c.to
        /\ call' = [call EXCEPT ![t] = c] /\ rest' = [rest EXCEPT ![t] = p]
        /\ seen' = [seen EXCEPT ![t] = None]
        /\ UNCHANGED <<locks, data>>
    BY DEF Begin, OfPoints
  <1>2. p \in Seq(Instruction)
    BY Programs
  <1>3. /\ c.name = "Apply" => Len(p) = 7
        /\ c.name = "Current" => Len(p) = 4
        /\ c.name = "Fork" => Len(p) = 5
    BY ApplyIs, CurrentIs, ForkIs, LocksAssumption DEF Program
  <1> HIDE DEF p
  <1>4. /\ call'[t] = c /\ rest'[t] = p /\ seen'[t] = None
        /\ \A u \in Caller \ {t} : call'[u] = call[u] /\ rest'[u] = rest[u] /\ seen'[u] = seen[u]
    BY <1>1 DEF LocksInv, LocksOK
  <1>5. LocksOK'
    BY <1>1 DEF LocksInv, LocksOK
  <1>6. \A u \in Caller : Placed(u)'
    <2>1. Placed(t)'
      <3> SUFFICES ASSUME p # <<>> PROVE Len(p) \in 1..Len(p) /\ p = Left(p, Len(p))
        BY <1>4 DEF Placed, p
      <3> QED
        BY <1>2, LeftEnds
    <2>2. \A u \in Caller \ {t} : Placed(u)'
      BY <1>4 DEF LocksInv, Placed
    <2> QED
      BY <2>1, <2>2
  <1>7. /\ ~BothRead(t)'
        /\ \A k \in Point : ~Writes(t, k)' /\ ~Reads(t, k)' /\ ~HalfRead(t, k)'
        /\ ~Hooks(t)'
    <2>1. /\ c.name = "Apply" => Len(p) \notin 1..6
          /\ c.name = "Current" => Len(p) \notin 0..3
          /\ c.name = "Fork" => Len(p) \notin 0..4
      <3>1. 7 \notin 1..6 /\ 4 \notin 0..3 /\ 5 \notin 0..4
        OBVIOUS
      <3> QED
        BY <1>3, <3>1, Zenon
    <2>2. ~BothRead(t)'
      BY <1>4, <2>1 DEF BothRead
    <2>3. \A k \in Point : ~Writes(t, k)' /\ ~Reads(t, k)'
      BY <1>4, <2>1 DEF Writes, Reads, Stands
    <2>4. \A k \in Point : HalfRead(t, k)' => Reads(t, k)'
      BY DEF HalfRead, Reads
    <2>5. ~Hooks(t)'
      BY <1>4, <2>1 DEF Hooks, Stands
    <2> QED
      BY <2>2, <2>3, <2>4, <2>5
  <1>8. Exclusive'
    BY <1>1, <1>4, <1>7, Staying DEF LocksInv, Exclusive
  <1>9. SeenOK'
    BY <1>1, <1>4, <1>7, Staying DEF LocksInv, SeenOK
  <1>10. Whole /\ rest[t] = <<>>
    BY <1>1, LocksAssumption DEF LocksInv, Placed
  <1>11. Whole'
    <2>1. \A k \in Point : data[k] # None =>
             \/ data[k].current = data[k].replays
             \/ \E u \in Caller : Stands(u, "Apply", k, 2)'
      <3> SUFFICES ASSUME NEW k \in Point, NEW u \in Caller, Stands(u, "Apply", k, 2)
                   PROVE  Stands(u, "Apply", k, 2)'
        BY <1>10 DEF Whole
      <3>1. u # t
        BY <1>1 DEF Stands
      <3> QED
        BY <1>4, <3>1 DEF Stands
    <2>2. \A u \in Caller : rest'[u] # <<>> /\ call'[u].name \in OfPoints => data[call'[u].at] # None
      BY <1>1, <1>4, <1>10 DEF Whole
    <2>3. \A u \in Caller \ {t} : Forks(u)' => Forks(u) /\ call[u] # None
      BY <1>4, LocksAssumption DEF Forks, LocksInv, Placed
    <2>4. Forks(t)' => c.name = "Fork"
      BY <1>4 DEF Forks
    <2>5. \A u \in Caller : Forks(u)' => data[call'[u].to] = None
      BY <1>1, <1>4, <1>10, <2>3, <2>4 DEF Whole
    <2>6. \A u, v \in Caller : Forks(u)' /\ Forks(v)' /\ call'[u].to = call'[v].to => u = v
      BY <1>1, <1>4, <1>10, <2>3, <2>4 DEF Whole
    <2> QED
      BY <1>1, <2>1, <2>2, <2>5, <2>6 DEF Whole
  <1> QED
    BY <1>5, <1>6, <1>8, <1>9, <1>11 DEF LocksInv

\* A call that returns holds nothing.
LEMMA ReturnKeeps ==
    ASSUME LocksInv, NEW t \in Caller, Return(t)
    PROVE  LocksInv'
  <1>1. /\ rest[t] = <<>> /\ call' = [call EXCEPT ![t] = None]
        /\ UNCHANGED <<rest, locks, data, seen>>
    BY DEF Return
  <1>2. LocksOK'
    BY <1>1 DEF LocksInv, LocksOK
  <1>3. call'[t] = None /\ \A u \in Caller \ {t} : call'[u] = call[u] /\ rest'[u] = rest[u]
    BY <1>1 DEF LocksInv, LocksOK
  <1>4. \A u \in Caller : Placed(u)'
    BY <1>1, <1>3 DEF LocksInv, Placed
  <1>5. /\ \A k \in Point : ~Writes(t, k)' /\ ~Reads(t, k)' /\ ~HalfRead(t, k)'
        /\ ~Hooks(t)' /\ ~Forks(t)'
    BY <1>1, <1>3 DEF Writes, Reads, HalfRead, Hooks, Forks, Stands
  <1>6. Exclusive'
    BY <1>1, <1>3, <1>5, Staying DEF LocksInv, Exclusive
  <1>7. SeenOK'
    BY <1>1, <1>3, <1>5, Staying DEF LocksInv, SeenOK
  <1>8. Whole'
    <2>1. Whole
      BY DEF LocksInv
    <2>2. \A k \in Point : data[k] # None =>
             \/ data[k].current = data[k].replays
             \/ \E u \in Caller : Stands(u, "Apply", k, 2)'
      <3> SUFFICES ASSUME NEW k \in Point, NEW u \in Caller, Stands(u, "Apply", k, 2)
                   PROVE  Stands(u, "Apply", k, 2)'
        BY <2>1 DEF Whole
      <3>1. u = t => Len(rest[u]) = 0
        BY <1>1
      <3>2. u # t
        BY <3>1 DEF Stands
      <3> QED
        BY <1>3, <3>2 DEF Stands
    <2>3. \A u \in Caller : rest[u] # <<>> => u # t /\ call'[u] = call[u]
      BY <1>1, <1>3
    <2>4. \A u \in Caller : Forks(u)' => Forks(u)
      BY <1>1, <2>3 DEF Forks
    <2>5. \A u \in Caller : Forks(u)' => u # t
      BY <1>5
    <2>6. \A u \in Caller : rest[u] # <<>> /\ call'[u].name \in OfPoints => data[call'[u].at] # None
      BY <2>1, <2>3 DEF Whole
    <2>7. \A u \in Caller : Forks(u)' => data[call'[u].to] = None
      BY <1>3, <2>1, <2>4, <2>5 DEF Whole
    <2>8. \A u, v \in Caller : Forks(u)' /\ Forks(v)' /\ call'[u].to = call'[v].to => u = v
      BY <1>3, <2>1, <2>4, <2>5 DEF Whole
    <2> QED
      BY <1>1, <2>2, <2>6, <2>7, <2>8 DEF Whole
  <1> QED
    BY <1>2, <1>4, <1>6, <1>7, <1>8 DEF LocksInv

\* So it is in every reachable state.
LEMMA LocksInvHolds == Spec => []LocksInv
  <1>1. Init => LocksInv
    <2> SUFFICES ASSUME Init PROVE LocksInv
      OBVIOUS
    <2>1. /\ \A t \in Caller : call[t] = None /\ rest[t] = <<>>
          /\ \A l \in Lock : locks[l] = [owner |-> None, active |-> FALSE, readers |-> {}, queued |-> {}]
      BY DEF Init
    <2>2. LocksOK
      BY DEF Init, LocksOK, LockState, Data
    <2>3. \A t \in Caller : Placed(t)
      BY <2>1 DEF Placed
    <2>4. Exclusive
      BY <2>1 DEF Exclusive, Writes, Reads, Hooks, Stands
    <2>5. Whole
      <3>1. \A k \in Point : data[k] # None => data[k].current = data[k].replays
        BY DEF Init
      <3> QED
        BY <2>1, <3>1 DEF Whole, Forks
    <2>6. SeenOK
      BY <2>1 DEF SeenOK
    <2> QED
      BY <2>2, <2>3, <2>4, <2>5, <2>6 DEF LocksInv
  <1>2. LocksInv /\ [Next]_vars => LocksInv'
    <2> SUFFICES ASSUME LocksInv, [Next]_vars PROVE LocksInv'
      OBVIOUS
    <2>1. ASSUME NEW t \in Caller, Step(t) PROVE LocksInv'
      BY <2>1, ReturnKeeps, AnnounceKeeps, AcquireKeeps, UnlockKeeps, QueueKeeps, RLockKeeps,
         RUnlockKeeps, SetCurrentKeeps, SetReplaysKeeps, GetCurrentKeeps, GetReplaysKeeps,
         InstallKeeps, RunKeeps DEF Step
    <2>2. ASSUME NEW t \in Caller, NEW c \in Calls, Begin(t, c) PROVE LocksInv'
      BY <2>2, BeginKeeps
    <2>3. CASE UNCHANGED vars
      BY <2>3 DEF vars, LocksInv, LocksOK, Placed, Exclusive, Whole, SeenOK, Writes, Reads, Hooks,
                  Forks, HalfRead, BothRead, Stands
    <2> QED
      BY <2>1, <2>2, <2>3 DEF Next
  <1> QED
    BY <1>1, <1>2, PTL DEF Spec

-----------------------------------------------------------------------------
(* The theorems. *)

\* A hook need not be reentrant: of all the commits under way, on a point and
\* on whatever was forked from it, at most one is in a hook of the registry
\* they share (frozenValidator's mutex; Fork copies the pointer).
THEOREM OneHookAtATime == Spec => []HooksAreSerialized
  <1>1. LocksInv => HooksAreSerialized
    <2> SUFFICES ASSUME LocksInv, NEW t \in Caller, NEW u \in Caller,
                        Doing(t, "use"), call[t].name = "Apply",
                        Doing(u, "use"), call[u].name = "Apply"
                 PROVE  t = u
      BY DEF HooksAreSerialized
    <2>1. ASSUME NEW v \in Caller, Doing(v, "use"), call[v].name = "Apply"
          PROVE  Hooks(v)
      <3>1. Placed(v) /\ rest[v] # <<>> /\ Head(rest[v]).do = "use"
        BY <2>1 DEF LocksInv, Doing
      <3>2. call[v] # None
        BY <3>1, LocksAssumption DEF Placed
      <3>3. Len(rest[v]) = 5
        BY <2>1, <3>1, Doings DEF OfPoints
      <3> QED
        BY <2>1, <3>2, <3>3 DEF Hooks, Stands
    <2>2. Hooks(t) /\ Hooks(u)
      BY <2>1
    <2> QED
      BY <2>2 DEF LocksInv, Exclusive
  <1> QED
    BY <1>1, LocksInvHolds, PTL

\* Nobody sees half a commit: Current and Fork read both halves of a point's
\* state from one commit, and a point whose lock is free is whole, the points
\* that forks have made included.
THEOREM NobodySeesHalfACommit == Spec => []NobodySeesHalf
  <1>1. LocksInv => NobodySeesHalf
    <2> SUFFICES ASSUME LocksInv PROVE NobodySeesHalf
      OBVIOUS
    <2>1. ASSUME NEW t \in Caller, call[t] # None, rest[t] = <<>>, seen[t] # None
          PROVE  seen[t].current = seen[t].replays
      <3>1. call[t].name \in {"Current", "Fork"}
        BY <2>1 DEF LocksInv, SeenOK
      <3>2. Len(rest[t]) = 0
        BY <2>1
      <3>3. BothRead(t)
        BY <3>1, <3>2 DEF BothRead
      <3> QED
        BY <2>1, <3>3 DEF LocksInv, SeenOK
    <2>2. ASSUME NEW k \in Point, data[k] # None, locks[pub(k)].owner = None
          PROVE  data[k].current = data[k].replays
      <3>1. \A t \in Caller : ~Writes(t, k)
        BY <2>2, LocksAssumption DEF LocksInv, Exclusive
      <3>2. \A t \in Caller : ~Stands(t, "Apply", k, 2)
        BY <3>1 DEF Writes
      <3> QED
        BY <2>2, <3>2 DEF LocksInv, Whole
    <2> QED
      BY <2>1, <2>2 DEF NobodySeesHalf
  <1> QED
    BY <1>1, LocksInvHolds, PTL

-----------------------------------------------------------------------------
(* Contexts on their way. *)

Reading == [clock : {UTCClock, OtherClock}, ns : Int, unc : {Uncertainty}]

CausalContext == [kind : Kinds, path : Seq(Target), hops : Nat, max : Int,
                  first : Reading, expires : Reading]

Messages == [ctx : CausalContext, to : Target, trail : Seq(Target), issued : Int]

\* A context names the whole way it came since its command or report was sent,
\* and was issued by a clock that is off by at most its uncertainty.
Dated(m) ==
    /\ m \in Messages
    /\ m.ctx.path = m.trail
    /\ m.ctx.first.ns <= m.issued + Uncertainty

RelayInv ==
    /\ now \in Nat
    /\ \A m \in flight : Dated(m)
    /\ NobodyActsTwiceOrLate

\* A receiver that may act has not acted on the context before, and its time is
\* before the context's longest life is over.
LEMMA EnteredInTime ==
    ASSUME NEW m, Dated(m), now \in Nat, NEW wall \in Readings(now),
           EnterErrors(m.ctx, m.to, wall) = {}
    PROVE  m.to \notin ToSet(m.trail) /\ now < m.issued + Lifetime
  <1> DEFINE c == m.ctx
  <1>0. /\ m.issued \in Int /\ c.first.ns \in Int /\ c.expires.ns \in Int
        /\ c.first.ns <= m.issued + Uncertainty /\ c.expires.unc = Uncertainty
    BY DEF Dated, Messages, CausalContext, Reading
  <1>1. Validate(c) = {}
    BY DEF EnterErrors
  <1>2. ~Reflected(c) /\ ExpiryErrors(c, wall) = {}
    BY <1>1 DEF EnterErrors
  <1>3. ~Echo(c, m.to)
    BY <1>1, <1>2 DEF EnterErrors
  <1>4. m.to \notin ToSet(m.trail)
    BY <1>3 DEF Echo, Dated
  <1>5. c.expires.ns - c.first.ns <= Lifetime
    <2>1. ~(c.expires.ns - c.first.ns > Lifetime)
      BY <1>1 DEF Validate, CausalTimeErrors, Flag
    <2> QED
      BY <1>0, <2>1, RelayAssumption
  <1>6. wall.ns \in Int /\ wall.ns >= now - Uncertainty /\ wall.unc = Uncertainty
    BY RelayAssumption DEF Readings
  <1>7. ~(wall.ns + wall.unc >= c.expires.ns - c.expires.unc)
    BY <1>2 DEF ExpiryErrors, Flag
  <1>8. now < m.issued + Lifetime
    BY <1>0, <1>5, <1>6, <1>7, RelayAssumption
  <1> QED
    BY <1>4, <1>8

\* What is sent on and what is reported is dated like what came in.
LEMMA SentIsDated ==
    ASSUME NEW m, Dated(m), NEW to \in SUBSET Target, NEW kind \in Kinds
    PROVE  \A n \in Relayed(m, to) \cup Reported(m, kind, to) : Dated(n)
  <1> DEFINE c == m.ctx
  <1>1. c \in CausalContext /\ m.to \in Target /\ m.trail \in Seq(Target) /\ m.issued \in Int
        /\ c.path = m.trail /\ c.first.ns <= m.issued + Uncertainty
    BY DEF Dated, Messages
  <1> HIDE DEF c
  <1>2. ASSUME NEW r \in to PROVE Dated(Message(Extended(c, m.to), r, Append(m.trail, m.to), m.issued))
    <2> DEFINE x == Extended(c, m.to)
    <2>1. /\ x \in CausalContext /\ x.path = Append(m.trail, m.to) /\ x.first = c.first
          /\ Append(m.trail, m.to) \in Seq(Target)
      <3> DEFINE p == Append(c.path, m.to)
                 h == c.hops + 1
      <3>1. p \in Seq(Target) /\ h \in Nat /\ p = Append(m.trail, m.to)
        BY <1>1 DEF CausalContext
      <3>2. x = [c EXCEPT !.path = p, !.hops = h]
        BY DEF Extended
      <3> HIDE DEF p, h
      <3>3. /\ [c EXCEPT !.path = p, !.hops = h] \in CausalContext
            /\ [c EXCEPT !.path = p, !.hops = h].path = p
            /\ [c EXCEPT !.path = p, !.hops = h].first = c.first
        BY <1>1, <3>1 DEF CausalContext
      <3> HIDE DEF x
      <3> QED
        BY <3>1, <3>2, <3>3
    <2> HIDE DEF x
    <2>2. Dated(Message(x, r, Append(m.trail, m.to), m.issued))
      BY <1>1, <1>2, <2>1 DEF Dated, Messages, Message
    <2> QED
      BY <2>2 DEF x
  <1>3. ASSUME NEW r \in to
        PROVE  Dated(Message([c EXCEPT !.kind = kind, !.path = <<>>, !.hops = 0], r, <<>>, m.issued))
    <2> DEFINE x == [c EXCEPT !.kind = kind, !.path = <<>>, !.hops = 0]
    <2>1. /\ x \in CausalContext /\ x.path = <<>> /\ x.first = c.first
          /\ <<>> \in Seq(Target)
      <3> DEFINE p == <<>>
                 h == 0
      <3>1. p \in Seq(Target) /\ h \in Nat
        OBVIOUS
      <3> HIDE DEF p, h
      <3>2. /\ [c EXCEPT !.kind = kind, !.path = p, !.hops = h] \in CausalContext
            /\ [c EXCEPT !.kind = kind, !.path = p, !.hops = h].path = p
            /\ [c EXCEPT !.kind = kind, !.path = p, !.hops = h].first = c.first
        BY <1>1, <3>1 DEF CausalContext
      <3> QED
        BY <3>1, <3>2 DEF p, h
    <2> HIDE DEF x
    <2>2. Dated(Message(x, r, <<>>, m.issued))
      BY <1>1, <1>3, <2>1 DEF Dated, Messages, Message
    <2> QED
      BY <2>2 DEF x
  <1> QED
    BY <1>2, <1>3 DEF Relayed, Reported, c

\* A new command is dated by its issuer's clock.
LEMMA IssuedIsDated ==
    ASSUME now \in Nat, NEW r \in Target, NEW first \in Readings(now),
           NEW life \in Lives, NEW max \in Budgets
    PROVE  Dated(Message(Context("operator", first, life, max), r, <<>>, now))
  <1>1. first \in Reading /\ first.ns <= now + Uncertainty
    BY RelayAssumption DEF Readings, Reading
  <1>2. [first EXCEPT !.ns = @ + life] \in Reading /\ max \in Int
    BY <1>1, RelayAssumption DEF Reading
  <1> DEFINE e == [first EXCEPT !.ns = @ + life]
             x == [kind |-> "operator", path |-> <<>>, hops |-> 0, max |-> max,
                   first |-> first, expires |-> e]
  <1> HIDE DEF e
  <1>3. x \in CausalContext /\ x.path = <<>> /\ x.first = first /\ <<>> \in Seq(Target)
    BY <1>1, <1>2 DEF e, CausalContext, Kinds
  <1> HIDE DEF x
  <1>4. Dated(Message(x, r, <<>>, now))
    BY <1>1, <1>3 DEF Dated, Messages, Message
  <1> QED
    BY <1>4 DEF x, e, Context

\* Whatever the links lose, delay, repeat or reorder, no receiver acts twice on
\* one command along one way through the site, nor later than the longest
\* lifetime after the command was really issued.
THEOREM ActedOnceAndInTime == RelaySpec => []NobodyActsTwiceOrLate
  <1>1. RelayInit => RelayInv
    BY RelayAssumption
       DEF RelayInit, RelayInv, NobodyActsTwiceOrLate, NobodyActsTwice, NobodyActsLate, ToSet
  <1>2. RelayInv /\ [RelayNext]_traffic => RelayInv'
    <2> SUFFICES ASSUME RelayInv, [RelayNext]_traffic PROVE RelayInv'
      OBVIOUS
    <2>1. CASE UNCHANGED traffic
      BY <2>1 DEF RelayInv, traffic, NobodyActsTwiceOrLate, NobodyActsTwice, NobodyActsLate
    <2>2. CASE Tick
      BY <2>2 DEF Tick, RelayInv, NobodyActsTwiceOrLate, NobodyActsTwice, NobodyActsLate
    <2>3. ASSUME NEW r \in Target, Issue(r) PROVE RelayInv'
      BY <2>3, IssuedIsDated
         DEF Issue, RelayInv, NobodyActsTwiceOrLate, NobodyActsTwice, NobodyActsLate
    <2>4. ASSUME NEW m \in flight, Refuse(m) \/ Lose(m) PROVE RelayInv'
      BY <2>4 DEF Refuse, Lose, RelayInv, NobodyActsTwiceOrLate, NobodyActsTwice, NobodyActsLate
    <2>5. ASSUME NEW m \in flight, Enter(m) PROVE RelayInv'
      <3>1. Dated(m) /\ now \in Nat /\ now' = now
        BY <2>5 DEF RelayInv, Enter
      <3>2. m.to \notin ToSet(m.trail) /\ now < m.issued + Lifetime
        BY <2>5, <3>1, EnteredInTime DEF Enter
      <3>3. \A n \in flight' : Dated(n)
        BY <2>5, <3>1, SentIsDated DEF Enter, RelayInv
      <3>4. NobodyActsTwiceOrLate'
        BY <2>5, <3>2 DEF Enter, NobodyActsTwiceOrLate, NobodyActsTwice, NobodyActsLate
      <3> QED
        BY <3>1, <3>3, <3>4 DEF RelayInv
    <2> QED
      BY <2>1, <2>2, <2>3, <2>4, <2>5 DEF RelayNext
  <1>3. RelayInv => NobodyActsTwiceOrLate
    BY DEF RelayInv
  <1> QED
    BY <1>1, <1>2, <1>3, PTL DEF RelaySpec
=============================================================================
