------------------------------ MODULE Resolver -------------------------------
(***************************************************************************)
(* How the derivation graph is walked (closeCandidateGraph, findCycles,    *)
(* resolve and resolveCycle in publication.go).  CandidateGraph says which *)
(* candidates of a staged map resolve and what each failure reports; the   *)
(* code finds that out in two depth-first walks over the candidates in the *)
(* order of their ids, the first collapsing cycles (Tarjan), the second    *)
(* memoising one result per candidate.                                     *)
(*                                                                         *)
(* The recursion is a stack of frames and one call, one edge or one return *)
(* is one step.  Ids are numbers, ordered as the code orders strings.      *)
(***************************************************************************)
EXTENDS CandidateGraph, Sequences

CONSTANTS Graphs,     \* the staged candidate maps to close
          Paths       \* binding id -> native binding of the post-state

VARIABLES
    cands,            \* the staged candidates; no step changes them
    index, low,       \* findCycles: candidate id -> visit numbers, 0 when not visited
    stack,            \* findCycles: visited ids in no component yet, last one first
    calls,            \* findCycles: open calls of visit, innermost first
    cycles,           \* candidate id -> the cyclic component it is in, or {}
    states,           \* candidate id -> 0 not resolved, 1 being resolved, 2 resolved
    results,          \* candidate id -> [err, paths, depth] where resolved
    frames            \* open calls of resolve and resolveCycle, innermost first

search  == <<index, low, stack, calls, cycles>>
walk    == <<states, results, frames>>
vars    == <<cands, search, walk>>

IDs == DOMAIN cands
NoError == "none"                      \* no error

\* bestError on what a call has collected so far and one more.
Worse(failure, e) == IF failure = NoError THEN e ELSE IF e = NoError THEN failure ELSE BestError({failure, e})

Least(S) == CHOOSE x \in S : \A y \in S : x <= y

\* The next input of an open call: inputs are listed by candidate id, those of
\* a component member after member.
NextEdge(todo) ==
    CHOOSE e \in todo : \A f \in todo :
        e[1] < f[1] \/ (e[1] = f[1] /\ e[2].cand <= f[2].cand)

Edges(ids) == UNION {{<<id, i>> : i \in Inputs(cands[id])} : id \in ids}

-----------------------------------------------------------------------------
(* findCycles *)

\* Mutant: a visited input lowers the mark whether or not it is on the stack.
LoweredByVisited(child) == index[child]

\* What an input that was visited before says of the component.
LoweredBy(child) ==
    IF \E n \in DOMAIN stack : stack[n] = child THEN index[child] ELSE Cardinality(IDs) + 1

Push(id) ==
    LET n == Cardinality({d \in IDs : index[d] # 0}) + 1
    IN  /\ index' = [index EXCEPT ![id] = n]
        /\ stack' = <<id>> \o stack

Call(id) == [id |-> id, todo |-> Edges({id})]

Visit ==
    /\ calls = <<>>
    /\ LET fresh == {id \in IDs : index[id] = 0}
       IN  /\ fresh # {}
           /\ Push(Least(fresh))
           /\ low' = [low EXCEPT ![Least(fresh)] = index'[Least(fresh)]]
           /\ calls' = <<Call(Least(fresh))>>
    /\ UNCHANGED <<cands, cycles, walk>>

FollowInput ==
    /\ calls # <<>> /\ Head(calls).todo # {}
    /\ LET top   == Head(calls)
           edge  == NextEdge(top.todo)
           child == edge[2].cand
           rest  == <<[top EXCEPT !.todo = @ \ {edge}]>> \o Tail(calls)
       IN  \/ /\ ~Present(cands, edge[2])
              /\ calls' = rest
              /\ UNCHANGED <<index, low, stack>>
           \/ /\ Present(cands, edge[2]) /\ index[child] = 0
              /\ Push(child)
              /\ low' = [low EXCEPT ![child] = index'[child]]
              /\ calls' = <<Call(child)>> \o rest
           \/ /\ Present(cands, edge[2]) /\ index[child] # 0
              /\ low' = [low EXCEPT ![top.id] = Least({@, LoweredBy(child)})]
              /\ calls' = rest
              /\ UNCHANGED <<index, stack>>
    /\ UNCHANGED <<cands, cycles, walk>>

\* Mutant: only components of several members are cycles.
SeveralMembers(id, component) == Cardinality(component) > 1

Cyclic(id, component) ==
    \/ Cardinality(component) > 1
    \/ \E i \in Inputs(cands[id]) : i.cand = id /\ i.revision = cands[id].revision

\* visit returns: the root of a component takes its members off the stack.
CloseComponent ==
    /\ calls # <<>> /\ Head(calls).todo = {}
    /\ LET id   == Head(calls).id
           root == low[id] = index[id]
           at   == CHOOSE n \in DOMAIN stack : stack[n] = id
           component == IF root THEN {stack[n] : n \in 1..at} ELSE {}
       IN  /\ stack' = IF root THEN SubSeq(stack, at + 1, Len(stack)) ELSE stack
           /\ cycles' = [d \in IDs |-> IF d \in component /\ Cyclic(id, component)
                                       THEN component ELSE cycles[d]]
           /\ low' = IF Tail(calls) = <<>> THEN low
                     ELSE [low EXCEPT ![Head(Tail(calls)).id] = Least({@, low[id]})]
           /\ calls' = Tail(calls)
    /\ UNCHANGED <<cands, index, walk>>

Searched == calls = <<>> /\ \A id \in IDs : index[id] # 0

-----------------------------------------------------------------------------
(* resolve and resolveCycle *)

Finish(ids, result) ==
    /\ states' = [id \in IDs |-> IF id \in ids THEN 2 ELSE states[id]]
    /\ results' = [id \in IDs |-> IF id \in ids THEN result ELSE results[id]]

\* A call on a candidate that has no result yet.
Resolve(id) ==
    \/ /\ cycles[id] # {}
       /\ frames' = <<[ids |-> cycles[id], todo |-> Edges(cycles[id]), cyclic |-> TRUE,
                       failure |-> "derivation_cycle", paths |-> {}, depth |-> 0]>> \o frames
       /\ UNCHANGED <<states, results>>
    \/ /\ cycles[id] = {} /\ Observed(cands[id])
       /\ LET errors == PathErrors(cands[id], Paths)
          IN  IF errors = {}
              THEN Finish({id}, [err |-> NoError, paths |-> {PathOf(cands[id])}, depth |-> 1])
              ELSE Finish({id}, [err |-> BestError(errors), paths |-> {}, depth |-> 1])
       /\ UNCHANGED frames
    \/ /\ cycles[id] = {} /\ ~Observed(cands[id])
       /\ states' = [states EXCEPT ![id] = 1]
       /\ frames' = <<[ids |-> {id}, todo |-> Edges({id}), cyclic |-> FALSE,
                       failure |-> NoError, paths |-> {}, depth |-> 1]>> \o frames
       /\ UNCHANGED results

\* What a call on a candidate that is resolved, or being resolved, returns.
Outcome(id) ==
    IF states[id] = 1 THEN [err |-> "derivation_cycle", paths |-> {}, depth |-> 0]
                      ELSE results[id]

\* Mutant: an input that fails ends the collection of paths and depth, but its
\* failure is not passed on.
AbsorbedSilently(frame, i) ==
    LET r == Outcome(i.cand)
    IN  IF r.err # NoError THEN frame
        ELSE [frame EXCEPT !.failure = Worse(@, IF r.paths = i.paths THEN NoError
                                                ELSE "dangling_reference"),
                           !.depth = IF r.depth + 1 > @ THEN r.depth + 1 ELSE @,
                           !.paths = @ \cup r.paths]

\* What a frame makes of an input that is resolved.
Absorbed(frame, i) ==
    LET r == Outcome(i.cand)
    IN  IF r.err # NoError THEN [frame EXCEPT !.failure = Worse(@, r.err)]
        ELSE [frame EXCEPT !.failure = Worse(@, IF r.paths = i.paths THEN NoError
                                                ELSE "dangling_reference"),
                           !.depth = IF r.depth + 1 > @ THEN r.depth + 1 ELSE @,
                           !.paths = @ \cup r.paths]

ResolveNext ==
    /\ Searched /\ frames = <<>>
    /\ LET fresh == {id \in IDs : states[id] = 0}
       IN  fresh # {} /\ Resolve(Least(fresh))
    /\ UNCHANGED <<cands, search>>

\* One input of the innermost call.  The edge stays until its candidate has a
\* result, which is then what the inner call returned.
ResolveInput ==
    /\ frames # <<>> /\ Head(frames).todo # {}
    /\ LET top    == Head(frames)
           edge   == NextEdge(top.todo)
           i      == edge[2]
           left   == [top EXCEPT !.todo = @ \ {edge}]
           inside == top.cyclic /\ i.cand \in top.ids
           Becomes(frame) == /\ frames' = <<frame>> \o Tail(frames)
                             /\ UNCHANGED <<states, results>>
       IN  \/ ~Present(cands, i) /\ Becomes([left EXCEPT !.failure = Worse(@, "dangling_reference")])
           \/ Present(cands, i) /\ inside /\ Becomes(left)
           \/ Present(cands, i) /\ ~inside /\ states[i.cand] # 0 /\ Becomes(Absorbed(left, i))
           \/ Present(cands, i) /\ ~inside /\ states[i.cand] = 0 /\ Resolve(i.cand)
    /\ UNCHANGED <<cands, search>>

\* Mutant: the width of the union of paths is not limited.
LimitedInDepth(frame) ==
    Worse(frame.failure, IF frame.depth > MaxDepth THEN "derivation_cycle" ELSE NoError)

\* What the limits add once every input has been looked at.
Limited(frame) ==
    Worse(Worse(frame.failure, IF frame.depth > MaxDepth THEN "derivation_cycle" ELSE NoError),
          IF Cardinality(frame.paths) > MaxPaths THEN "bounds_exceeded" ELSE NoError)

\* resolve or resolveCycle returns and the result is kept for every member.
ReturnResult ==
    /\ frames # <<>> /\ Head(frames).todo = {}
    /\ LET top == Head(frames)
           err == IF top.cyclic THEN top.failure ELSE Limited(top)
       IN  /\ Finish(top.ids, [err |-> err, paths |-> IF err = NoError THEN top.paths ELSE {},
                               depth |-> top.depth])
           /\ frames' = Tail(frames)
    /\ UNCHANGED <<cands, search>>

Done == Searched /\ frames = <<>> /\ \A id \in IDs : states[id] = 2

-----------------------------------------------------------------------------
(* closeCandidateGraph, once every candidate has its result. *)

Failed(id) == results[id].err # NoError

Kept(upserted) == {id \in IDs : ~Failed(id) \/ id \in upserted}

CloseError(upserted) ==
    LET failures == {results[id].err : id \in {d \in upserted : Failed(d)}}
                    \cup Flag(Cardinality(Kept(upserted)) > MaxNodes, "bounds_exceeded")
    IN  IF failures = {} THEN NoError ELSE BestError(failures)

-----------------------------------------------------------------------------
Init ==
    /\ cands \in Graphs
    /\ index = [id \in IDs |-> 0] /\ low = index
    /\ stack = <<>> /\ calls = <<>>
    /\ cycles = [id \in IDs |-> {}]
    /\ states = index
    /\ results = [id \in IDs |-> [err |-> NoError, paths |-> {}, depth |-> 0]]
    /\ frames = <<>>

Next == \/ Visit \/ FollowInput \/ CloseComponent
        \/ ResolveNext \/ ResolveInput \/ ReturnResult
        \/ Done /\ UNCHANGED vars

Spec == Init /\ [][Next]_vars

-----------------------------------------------------------------------------
(* Properties. *)

\* The first walk finds exactly the cycles: a candidate ends up in the set of
\* candidates that it rests on and that rest on it, through inputs of the right
\* revision, and in none when it does not rest on itself, whatever the order of
\* ids and inputs (findCycles).
CyclesAreExact ==
    Searched =>
        \A id \in IDs :
            cycles[id] = {d \in Dependencies(cands, id) : id \in Dependencies(cands, d)}

\* No recursive call is made on a candidate that is still being resolved: the
\* branch of resolve that reports a cycle for one is never what decides, so a
\* memoised failure never depends on where the walk happened to enter a cycle.
NoReentry ==
    (frames # <<>> /\ Head(frames).todo # {}) =>
        LET i == NextEdge(Head(frames).todo)[2]
        IN  Present(cands, i) /\ ~Head(frames).cyclic => states[i.cand] # 1

\* The walk agrees with the definition: it finds the cycles there are, never
\* depends on where it entered one, and whatever subset of the candidates the
\* batch supplied, the candidates that stay and the identifier that is reported
\* are those of CandidateGraph (closeCandidateGraph).
WalkIsExact ==
    /\ CyclesAreExact
    /\ NoReentry
    /\ Done =>
        /\ \A id \in IDs : ~Failed(id) => results[id].paths = SourcePaths(cands[id])
        /\ \A upserted \in SUBSET IDs :
              LET errors == CloseErrors(cands, upserted, Paths)
              IN  /\ Kept(upserted) = DOMAIN Closed(cands, upserted, Paths)
                  /\ CloseError(upserted) = IF errors = {} THEN NoError ELSE BestError(errors)
=============================================================================
