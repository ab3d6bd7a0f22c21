----------------------------- MODULE MCDelivery ------------------------------
(***************************************************************************)
(* Three drivers of one source, the second under the next generation of    *)
(* the same epoch and the third under a new epoch; and one of another      *)
(* source.                                                                 *)
(***************************************************************************)
EXTENDS Delivery

Point == [wall |-> [clock |-> UTC, ns |-> 0, unc |-> 0], mono |-> [epoch |-> "boot1", ns |-> 0]]
Walls == {Point.wall}
Monos == {Point.mono}
Policies == {[fresh |-> 1, retain |-> 2, maxUnc |-> 0]}
WideLimits == [c \in Collections |-> 8]

Lineage(d) == CASE d = "d1" -> <<"s1", "e1", 1>>
                [] d = "d2" -> <<"s1", "e1", 2>>
                [] d = "d3" -> <<"s1", "e2", 1>>
                [] d = "d4" -> <<"s2", "e2", 1>>

Identities == [d \in Driver |-> Lineage(d)]
Objects    == [d \in Driver |-> d]
Readings   == [d \in Driver |-> Lineage(d)[1]]
\* Two generations that retry; a succession over a generation and an epoch; two
\* sources whose commits make each other's batches stale.
Load(d1, d2, d3, d4, lost) ==
    [jobs |-> [d \in Driver |-> CASE d = "d1" -> d1 [] d = "d2" -> d2 [] d = "d3" -> d3 [] d = "d4" -> d4],
     faults |-> lost]
Workloads == {Load(2, 2, 0, 0, 2), Load(1, 1, 1, 0, 1), Load(2, 0, 0, 1, 1)}

Observations == Driver \X Job
Digests    == Driver \X Job \X (1..MaxUint64) \X (0..MaxUint64)
=============================================================================
