----------------------------- MODULE MCExchange ------------------------------
(***************************************************************************)
(* What passes between a site and other systems, one scene at a time.      *)
(* Callers with copies of snapshots: reports that are put together;        *)
(* reports that are checked against points and their forks; availability   *)
(* views.  And commands on their way: two receivers over a time in which   *)
(* commands expire; three receivers and all hops a command may make, while *)
(* no time passes.                                                         *)
(***************************************************************************)
EXTENDS Projection, Relay

CONSTANTS c1, c2, r1, r2, r3

VARIABLE scene

-----------------------------------------------------------------------------
(* Facts 1 and 2 belong to shipped packs, 3 to a pack that is not shipped;   *)
(* the metadata of 4's pack do not know the field, and 5 has a dimension     *)
(* that its field has not.                                                   *)

Judged == {[fresh |-> 2, retain |-> 3, maxUnc |-> 0]}

Owner == [k \in 1..5 |-> CASE k \in {1, 4, 5} -> "pv" [] k = 2 -> "thermal" [] k = 3 -> "other"]
ServiceOwner == [inverter |-> "pv", array |-> "pv"]
ShippedMetadata == [packs |-> {"pv", "thermal"}, fields |-> {1, 2, 5}, services |-> {"inverter"},
                    owns |-> {<<"inverter", "pv">>}]
PackChecks == [dimensions |-> {1, 2, 4}, values |-> {1, 2, 4, 5}, services |-> {"inverter"}]

At(n) == [wall |-> [clock |-> "utc", ns |-> n, unc |-> 0], mono |-> [epoch |-> 1, ns |-> n]]
Start == {At(0)}
Twice == {At(0), At(1)}
Later == {At(1), At(3)}

Cap(pack, service, constrained, qualified, state) ==
    [pack |-> pack, service |-> service, constrained |-> constrained, qualified |-> qualified,
     availability |-> state]
PVCapabilities ==
    {Cap("pv", "inverter", TRUE, TRUE, "available"), Cap("pv", "inverter", TRUE, FALSE, "degraded"),
     Cap("pv", "inverter", FALSE, TRUE, "available"), Cap("pv", "array", TRUE, TRUE, "available"),
     Cap("thermal", "inverter", TRUE, TRUE, "available")}

Told(outcome, keys, loss, reason) ==
    [outcome |-> outcome, keys |-> keys, loss |-> loss, reason |-> reason]

AllOutcomes ==
    {Told("exact", <<1>>, <<>>, FALSE), Told("exact", <<>>, <<1>>, FALSE),
     Told("exact", <<2, 1>>, <<>>, FALSE), Told("exact", <<1, 0, 1>>, <<>>, FALSE),
     Told("transformed", <<1>>, <<1, 2>>, FALSE), Told("transformed", <<1>>, <<2, 2>>, TRUE),
     Told("transformed", <<1>>, <<>>, FALSE),
     Told("withheld", <<>>, <<>>, TRUE), Told("unknown", <<>>, <<>>, FALSE)}
CitedFacts == {Told("exact", <<1>>, <<>>, FALSE), Told("transformed", <<3>>, <<1>>, FALSE)}

ManyItems == {<<1, 1>>, <<1, 2>>, <<2, 1>>, <<0, 1>>}
OneItem == {<<1, 1>>}

OutcomesUsed == AllOutcomes \cup CitedFacts

\* No point is forked while a report is put together.
Accounts == INSTANCE Projection WITH
    Candidate <- {c1}, FactKey <- {1}, Capabilities <- {}, Moments <- Start, ReadAt <- {},
    Outcomes <- AllOutcomes, MaxCommits <- 1

Reports == INSTANCE Projection WITH
    FactKey <- {1, 3}, Capabilities <- {}, ReadAt <- {},
    Items <- OneItem, Outcomes <- CitedFacts, MaxItems <- 1

Views == INSTANCE Projection WITH
    Candidate <- {c1}, FactKey <- {1, 3, 4, 5}, Items <- {}, Outcomes <- {}, MaxItems <- 0

-----------------------------------------------------------------------------
(* Budgets inside and outside the limit; expiry before, at and after it.    *)

TimeBudgets == {0, 2}
TimeLives == {-1, 2, 3, 5}

Hops == INSTANCE Relay WITH
    Target <- {r1, r2, r3}, HopLimit <- 3, Budgets <- {2, 3, 4}, Lives <- {2},
    Uncertainty <- 0, MaxTime <- 0

-----------------------------------------------------------------------------
(* Nothing happens to what a scene is not about: nobody has committed, and *)
(* no command was issued.                                                  *)

MCInit ==
    \/ scene = "accounts" /\ Accounts!Init /\ RelayInit
    \/ scene = "reports"  /\ Reports!Init  /\ RelayInit
    \/ scene = "views"    /\ Views!Init    /\ RelayInit
    \/ scene = "time"     /\ Init          /\ RelayInit
    \/ scene = "hops"     /\ Init          /\ Hops!RelayInit

MCNext ==
    /\ UNCHANGED scene
    /\ \/ scene = "accounts" /\ Accounts!Next  /\ UNCHANGED <<forked, traffic>>
       \/ scene = "reports"  /\ Reports!Next   /\ UNCHANGED traffic
       \/ scene = "views"    /\ Views!Next     /\ UNCHANGED traffic
       \/ scene = "time"     /\ RelayNext      /\ UNCHANGED vars
       \/ scene = "hops"     /\ Hops!RelayNext /\ UNCHANGED vars

mcvars == <<vars, traffic, scene>>

\* Links keep delivering (RelaySpec).
Delivered ==
    /\ \/ scene = "time" /\ Arrive
       \/ scene = "hops" /\ Hops!Arrive
    /\ UNCHANGED <<vars, scene>>

MCSpec == MCInit /\ [][MCNext]_mcvars /\ WF_mcvars(Delivered)
=============================================================================
