----------------------------- MODULE MCReaders -------------------------------
(***************************************************************************)
(* Readers of snapshots, one scene at a time: the derivations of a snapshot *)
(* that are walked; the ages of facts under drifting clocks and restarts,   *)
(* where the reader's own state does not matter; and the reader who         *)
(* fetches, evaluates and selects while commits go on.                      *)
(***************************************************************************)
EXTENDS Evaluation

CONSTANTS c1, c2, k1, k2, p1

VARIABLES cands, index, low, stack, calls, cycles, states, results, frames,
          scene

resolver == <<cands, index, low, stack, calls, cycles, states, results, frames>>

-----------------------------------------------------------------------------
(* Evaluation.  The constants of the configuration are those of the first    *)
(* scene; the policy has a width limit that some pairs of UTC readings       *)
(* exceed and some keep.                                                     *)

Measured == {[fresh |-> 2, retain |-> 3, maxUnc |-> 1]}

AgesNext ==
    \/ Tick \/ Restart \/ Retire
    \/ \E id \in {c1, c2}, p \in Measured : Publish(id, k1, p)
    \/ \E id, from \in {c1, c2}, p \in Measured : Infer(id, from, k1, p)

Selecting == INSTANCE Evaluation WITH
    MaxUint64 <- 3, LocalReadings <- {},
    FactKey <- {k1, k2}, PolicyID <- {p1},
    MaxNow <- 1, MaxUnc <- 0, MaxBoots <- 1

-----------------------------------------------------------------------------
(* Every small derivation graph. *)

Small == INSTANCE SmallGraphs

Walks == INSTANCE Resolver WITH
    MaxNodes <- 2, MaxDepth <- 2, MaxPaths <- 1,
    Graphs <- Small!ShapesAndDeclarations, Paths <- Small!ThreePaths

NoWalk ==
    /\ cands = None /\ index = None /\ low = None /\ stack = None /\ calls = None
    /\ cycles = None /\ states = None /\ results = None /\ frames = None

NoReader == now = None /\ boot = None /\ current = None /\ policies = None /\ selection = None
            /\ shown = None /\ view = None

-----------------------------------------------------------------------------
\* Clocks and readers may stop; a walk may not.
MCInit ==
    \/ scene = "ages"      /\ Init           /\ NoWalk
    \/ scene = "selecting" /\ Selecting!Init /\ NoWalk
    \/ scene = "walking"   /\ Walks!Init     /\ NoReader

MCNext ==
    /\ UNCHANGED scene
    /\ \/ scene = "ages"      /\ AgesNext       /\ UNCHANGED resolver
       \/ scene = "selecting" /\ Selecting!Next /\ UNCHANGED resolver
       \/ scene = "walking"   /\ Walks!Next     /\ UNCHANGED vars
       \/ scene # "walking"   /\ UNCHANGED <<vars, resolver>>

MCSpec == MCInit /\ [][MCNext]_<<vars, resolver, scene>>

-----------------------------------------------------------------------------
\* The two walks of a commit find the cycles there are, and what stays and what is
\* reported is what the definition says (closeCandidateGraph; see Resolver).
WalkIsExact == scene = "walking" => Walks!WalkIsExact
=============================================================================
