----------------------------- MODULE SmallGraphs ------------------------------
(***************************************************************************)
(* Every small derivation graph.  Ids 1..3; binding p and q are current, f *)
(* is fenced.                                                              *)
(***************************************************************************)
EXTENDS Naturals, TLC

ThreePaths ==
    [x \in {"p", "q", "f"} |->
        [source |-> "s1", epoch |-> "e1", gen |-> 1,
         state |-> IF x = "f" THEN "fenced" ELSE "current"]]

PathRef(x) == <<x, "s1", "e1", 1>>
Observation(x) == [assertion |-> "observed", binding |-> x, source |-> "s1", epoch |-> "e1",
                   gen |-> 1, revision |-> 1]
Observations(xs) == {Observation(x) : x \in xs}

\* An input of revision 2 dangles: every candidate has revision 1.
Input(id, revision, xs) == [cand |-> id, revision |-> revision, paths |-> {PathRef(x) : x \in xs}]

\* Inferred candidates over the given ids with inputs that declare one of the
\* given sets of paths; an empty set stands for an input that dangles.
Inferred(ids, declared) ==
    LET choice == declared \cup {{}, {"unused"}}
    IN  {[assertion |-> "inferred", revision |-> 1,
          inputs |-> {Input(id, IF pick[id] = {} THEN 2 ELSE 1, pick[id])
                        : id \in {d \in ids : pick[d] # {"unused"}}}]
           : pick \in {f \in [ids -> choice] : \E id \in ids : f[id] # {"unused"}}}

Staged(x, y, z) == {(1 :> a) @@ (2 :> b) @@ (3 :> c) : a \in x, b \in y, c \in z}

\* All shapes of three candidates, cycles included, over one declared path (the
\* third one does not rest on itself).
Shapes ==
    LET any == Inferred(1..3, {{"p"}}) \cup Observations({"p", "f"})
    IN  Staged(any, any, Inferred({1, 2}, {{"p"}}) \cup Observations({"p", "f"}))

\* Fewer shapes, all declarations of two paths.
Declarations ==
    LET either == {{"p"}, {"q"}, {"p", "q"}}
        leaves == Observations({"p", "q", "f"})
    IN  Staged(Inferred({2, 3}, either) \cup leaves,
               Inferred({1, 3}, either) \cup leaves,
               Inferred({1}, {{"p"}}) \cup leaves)

ShapesAndDeclarations == Shapes \cup Declarations
=============================================================================
