------------------------------- MODULE Locks ---------------------------------
(***************************************************************************)
(* The locks of the two kernels: what every public call holds while it     *)
(* runs, and what it waits for.  The other modules take a call for one     *)
(* step; here it is the sequence of its lock operations, its calls of pack *)
(* hooks and its reads and writes of what the lock protects.               *)
(*                                                                         *)
(*   pub(k)   PublicationKernel.mu of the publication point k, a RWMutex   *)
(*   hook(r)  frozenValidator.mutex of registry r: the publication points  *)
(*            share one registry, an operation kernel has its own          *)
(*   op       operation.Kernel.mu                                          *)
(*   oph      lockedOperationValidator.mu                                  *)
(*   adm      Admission.mu of an admission the kernel holds                *)
(*                                                                         *)
(* SelectionKernel.mu is left out: it guards one map and nothing is called  *)
(* with it held.                                                            *)
(*                                                                         *)
(* sync.Mutex and sync.RWMutex are external, as the standard library        *)
(* documents them: a writer that waits keeps new readers out, and readers   *)
(* that were kept out enter when the writer leaves.                         *)
(***************************************************************************)
EXTENDS Naturals, Sequences, FiniteSets

CONSTANTS Caller,
          Point,      \* publication points: Origin and the forks
          Origin,
          Calls,      \* the calls a caller may make
          MaxCalls,   \* calls in a behaviour
          None

ASSUME LocksAssumption ==
    /\ Origin \in Point /\ "op" \notin Point
    /\ None \notin Caller \cup Calls /\ None \notin [current : Nat, replays : Nat]
    /\ \A c \in Calls :
          /\ c.name \in {"Apply", "Current", "Fork", "Admit", "Record", "RecordRejection", "Inspect"}
          /\ c.name \in {"Apply", "Current", "Fork"} => c.at \in Point
          /\ c.name = "Fork" => c.to \in Point

VARIABLES
    call,     \* caller -> the call it is in, or None
    rest,     \* caller -> what is left of it
    locks,    \* lock -> [owner, active, readers, queued]
    data,     \* point -> what was committed, [current, replays], or None
    seen,     \* caller -> what it has read of a point so far
    calls     \* calls made

vars == <<call, rest, locks, data, seen, calls>>

pub(k) == <<"pub", k>>
hook(r) == <<"hook", r>>
op == <<"op", None>>
oph == <<"oph", None>>
adm == <<"adm", None>>

Lock ==
    {pub(k) : k \in Point} \cup {hook(r) : r \in Point \cup {"op"}} \cup {op, oph, adm}

-----------------------------------------------------------------------------
(* What calls do. *)

I(do, on) == [do |-> do, on |-> on]
Locked(lock, body) == <<I("lock", lock)>> \o body \o <<I("unlock", lock)>>
RLocked(lock, body) == <<I("rlock", lock)>> \o body \o <<I("runlock", lock)>>

\* Mutant: every point has a lock of its own for the hook.
RegistryPerPoint(k) == k

\* Fork shares the registry, and with it the lock of each hook.
RegistryOf(k) == Origin

\* frozenValidator.ValidateFact and its siblings; "use" is the hook at work.
Hook(r) == Locked(hook(r), <<I("use", hook(r))>>)

\* Mutant: what was committed is handed out through Current.
ApplyReadingBack(k) ==
    Locked(pub(k), Hook(RegistryOf(k))
                   \o <<I("setCurrent", k), I("setReplays", k)>>
                   \o RLocked(pub(k), <<I("getCurrent", k), I("getReplays", k)>>))

\* Apply: current, canonical bytes and replays are replaced one after another.
Apply(k) ==
    Locked(pub(k), Hook(RegistryOf(k)) \o <<I("setCurrent", k), I("setReplays", k)>>)

\* Current, CurrentAt
Current(k) == RLocked(pub(k), <<I("getCurrent", k), I("getReplays", k)>>)

\* Mutant: a fork is copied without the lock.
ForkUnlocked(k, j) == <<I("getCurrent", k), I("getReplays", k), I("install", j)>>

\* Fork: the copy becomes a point of its own when it is complete.
Fork(k, j) == RLocked(pub(k), <<I("getCurrent", k), I("getReplays", k)>>) \o <<I("install", j)>>

\* validateIntent: the hooks of the arguments' fields under both locks, those of
\* the facts the intent names, and the intent's own.
ValidateIntent == Locked(oph, Hook("op")) \o Hook("op") \o Locked(oph, <<I("use", oph)>>)

\* Authorize, the caller's own code, runs with no lock of the kernel's held.
Authorize == <<I("use", op)>>

\* Admit: the intent is validated and looked up; the hooks of the snapshot's records,
\* of the preconditions and of the route's constraints; the authority; and the
\* admission is retained.  A replay returns after the lookup.
Admit ==
    ValidateIntent
    \o Locked(op, <<>>)
    \o Hook("op")
    \o Authorize
    \o Locked(op, <<>>)

\* Mutant: ownership is looked up with the admission already locked.
RecordUnderAdmission ==
    Locked(adm, Locked(op, <<>>) \o Hook("op") \o Locked(oph, <<I("use", oph)>>))

\* Record with a readback: the kernel's lock is given back before the
\* admission's is taken; the readback's hooks run under the admission's.
Record ==
    Locked(op, <<>>)
    \o Locked(adm, Hook("op") \o Locked(oph, <<I("use", oph)>>))

\* RecordRejection of an intent that was admitted.
RecordRejection == Locked(op, Locked(adm, <<>>))

\* Intent, Route, AdmittedAt, GuardClaims, Recorded
Inspect == Locked(adm, <<>>)

Program(c) ==
    CASE c.name = "Apply" -> Apply(c.at)
      [] c.name = "Current" -> Current(c.at)
      [] c.name = "Fork" -> Fork(c.at, c.to)
      [] c.name = "Admit" -> Admit
      [] c.name = "Record" -> Record
      [] c.name = "RecordRejection" -> RecordRejection
      [] c.name = "Inspect" -> Inspect

-----------------------------------------------------------------------------
(* Steps of a caller. *)

Doing(t, do) == rest[t] # <<>> /\ Head(rest[t]).do = do
On(t) == Head(rest[t]).on
L(t) == locks[On(t)]
Advance(t) == rest' = [rest EXCEPT ![t] = Tail(@)]

\* A call begins.  Every Fork makes a kernel of its own.
Begin(t, c) ==
    /\ call[t] = None /\ calls < MaxCalls
    /\ c.name \in {"Apply", "Current", "Fork"} => data[c.at] # None
    /\ c.name = "Fork" => /\ data[c.to] = None
                          /\ \A u \in Caller : call[u] # None => call[u].to # c.to
    /\ call' = [call EXCEPT ![t] = c]
    /\ rest' = [rest EXCEPT ![t] = Program(c)]
    /\ seen' = [seen EXCEPT ![t] = None]
    /\ calls' = calls + 1
    /\ UNCHANGED <<locks, data>>

Return(t) ==
    /\ call[t] # None /\ rest[t] = <<>>
    /\ call' = [call EXCEPT ![t] = None]
    /\ UNCHANGED <<rest, locks, data, seen, calls>>

\* Lock: one writer at a time announces itself, then waits for the readers.
Announce(t) ==
    /\ Doing(t, "lock") /\ L(t).owner = None
    /\ locks' = [locks EXCEPT ![On(t)].owner = t]
    /\ UNCHANGED <<call, rest, data, seen, calls>>

Acquire(t) ==
    /\ Doing(t, "lock") /\ L(t).owner = t /\ L(t).readers = {}
    /\ locks' = [locks EXCEPT ![On(t)].active = TRUE]
    /\ Advance(t)
    /\ UNCHANGED <<call, data, seen, calls>>

\* Unlock lets in the readers that were kept out.
Unlock(t) ==
    /\ Doing(t, "unlock")
    /\ locks' = [locks EXCEPT ![On(t)] =
                    [owner |-> None, active |-> FALSE, readers |-> @.queued, queued |-> {}]]
    /\ Advance(t)
    /\ UNCHANGED <<call, data, seen, calls>>

Queue(t) ==
    /\ Doing(t, "rlock") /\ L(t).owner # None
    /\ t \notin L(t).queued \cup L(t).readers
    /\ locks' = [locks EXCEPT ![On(t)].queued = @ \cup {t}]
    /\ UNCHANGED <<call, rest, data, seen, calls>>

RLock(t) ==
    /\ Doing(t, "rlock")
    /\ L(t).owner = None \/ t \in L(t).readers
    /\ locks' = [locks EXCEPT ![On(t)].readers = @ \cup {t}]
    /\ Advance(t)
    /\ UNCHANGED <<call, data, seen, calls>>

RUnlock(t) ==
    /\ Doing(t, "runlock")
    /\ locks' = [locks EXCEPT ![On(t)].readers = @ \ {t}]
    /\ Advance(t)
    /\ UNCHANGED <<call, data, seen, calls>>

\* Commit, one assignment after the other.
SetCurrent(t) ==
    /\ Doing(t, "setCurrent")
    /\ data' = [data EXCEPT ![On(t)].current = @ + 1]
    /\ Advance(t)
    /\ UNCHANGED <<call, locks, seen, calls>>

SetReplays(t) ==
    /\ Doing(t, "setReplays")
    /\ data' = [data EXCEPT ![On(t)].replays = data[On(t)].current]
    /\ Advance(t)
    /\ UNCHANGED <<call, locks, seen, calls>>

GetCurrent(t) ==
    /\ Doing(t, "getCurrent")
    /\ seen' = [seen EXCEPT ![t] = [current |-> data[On(t)].current, replays |-> 0]]
    /\ Advance(t)
    /\ UNCHANGED <<call, locks, data, calls>>

GetReplays(t) ==
    /\ Doing(t, "getReplays")
    /\ seen' = [seen EXCEPT ![t].replays = data[On(t)].replays]
    /\ Advance(t)
    /\ UNCHANGED <<call, locks, data, calls>>

Install(t) ==
    /\ Doing(t, "install")
    /\ data' = [data EXCEPT ![On(t)] = seen[t]]
    /\ Advance(t)
    /\ UNCHANGED <<call, locks, seen, calls>>

\* A hook runs; what it decides is an input of the other modules.
Run(t) ==
    /\ Doing(t, "use")
    /\ Advance(t)
    /\ UNCHANGED <<call, locks, data, seen, calls>>

Step(t) ==
    \/ Return(t) \/ Announce(t) \/ Acquire(t) \/ Unlock(t)
    \/ Queue(t) \/ RLock(t) \/ RUnlock(t)
    \/ SetCurrent(t) \/ SetReplays(t) \/ GetCurrent(t) \/ GetReplays(t)
    \/ Install(t) \/ Run(t)

Init ==
    /\ call = [t \in Caller |-> None]
    /\ rest = [t \in Caller |-> <<>>]
    /\ locks = [l \in Lock |-> [owner |-> None, active |-> FALSE, readers |-> {}, queued |-> {}]]
    /\ data = [k \in Point |-> IF k = Origin THEN [current |-> 0, replays |-> 0] ELSE None]
    /\ seen = [t \in Caller |-> None]
    /\ calls = 0

Next == \E t \in Caller : Step(t) \/ \E c \in Calls : Begin(t, c)

\* A goroutine that can run does run, and hooks return.  Nothing is assumed of
\* the order in which waiters get a lock.
Spec == Init /\ [][Next]_vars /\ \A t \in Caller : WF_vars(Step(t))

-----------------------------------------------------------------------------
(* Properties. *)

\* Nobody waits for ever: whatever calls run at the same time, on a point and
\* its forks and on the operation kernel, each of them returns.  No two calls
\* take two locks in opposite orders, and no call takes a lock it holds.
EveryCallReturns == \A t \in Caller : call[t] # None ~> call[t] = None

\* A hook need not be reentrant: two points that go back to one fork never are
\* in the same hook at the same time, since they share its lock
\* (frozenValidator.mutex is a pointer).
HooksAreSerialized ==
    \A t, u \in Caller : t # u =>
        ~(/\ Doing(t, "use") /\ Doing(u, "use")
          /\ call[t].name = "Apply" /\ call[u].name = "Apply")

\* Nobody sees half a commit: a reader or a fork that took both halves of a
\* point's state took them from one commit, and so a fork starts from one.
NobodySeesHalf ==
    /\ \A t \in Caller : call[t] # None /\ rest[t] = <<>> /\ seen[t] # None =>
          seen[t].current = seen[t].replays
    /\ \A k \in Point : data[k] # None /\ locks[pub(k)].owner = None =>
          data[k].current = data[k].replays
=============================================================================
