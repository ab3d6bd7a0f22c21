------------------------------ MODULE MCLocks --------------------------------
(***************************************************************************)
(* Publication points and the operation kernel share no lock, so a         *)
(* behaviour is about the one, with the constants of the configuration, or *)
(* about the other.                                                        *)
(***************************************************************************)
EXTENDS Locks

CONSTANTS k1, k2

VARIABLE scene

On1(name, at) == [name |-> name, at |-> at, to |-> None]

\* A point and its fork.
PointCalls == {On1(n, k) : n \in {"Apply", "Current"}, k \in {k1, k2}}
              \cup {[name |-> "Fork", at |-> k1, to |-> k2]}

Operations == INSTANCE Locks WITH
    MaxCalls <- 3,
    Calls <- {On1(n, None) : n \in {"Admit", "Record", "RecordRejection", "Inspect"}}

MCInit ==
    \/ scene = "points" /\ Init
    \/ scene = "operations" /\ Operations!Init

MCNext ==
    /\ UNCHANGED scene
    /\ \/ scene = "points" /\ Next
       \/ scene = "operations" /\ Operations!Next

MCSpec ==
    /\ MCInit /\ [][MCNext]_<<vars, scene>>
    /\ \A t \in Caller :
          /\ WF_<<vars, scene>>(UNCHANGED scene /\ scene = "points" /\ Step(t))
          /\ WF_<<vars, scene>>(UNCHANGED scene /\ scene = "operations" /\ Operations!Step(t))
=============================================================================
