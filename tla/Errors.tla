-------------------------------- MODULE Errors -------------------------------
(***************************************************************************)
(* Stable rejection identifiers and their precedence (errorRanks and       *)
(* bestError in validation.go).  A check contributes a set of identifiers; *)
(* the caller is told only the one that ranks first.                       *)
(***************************************************************************)
EXTENDS Integers

ErrorRanks ==
    [invalid_json |-> 1, duplicate_key |-> 2, invalid_contract |-> 3,
     missing_member |-> 4, unknown_member |-> 5, invalid_identifier |-> 6,
     invalid_decimal |-> 7, invalid_value |-> 8, invalid_time |-> 9,
     invalid_evidence |-> 10, invalid_enum |-> 11, bounds_exceeded |-> 12,
     noncanonical_order |-> 13, digest_mismatch |-> 14,
     dangling_reference |-> 15, derivation_cycle |-> 16,
     stale_source_epoch |-> 17, stale_driver_generation |-> 18,
     sequence_conflict |-> 19, revision_conflict |-> 20,
     incomparable_clock_epoch |-> 21, generation_transition_incomplete |-> 22,
     definition_owner_conflict |-> 23, definition_owner_missing |-> 24,
     identity_not_qualified |-> 25, capability_not_qualified |-> 26,
     capability_unavailable |-> 27, authority_missing |-> 28,
     deadline_expired |-> 29, precondition_failed |-> 30,
     route_selection_forbidden |-> 31, ambiguous_route |-> 32,
     retry_forbidden |-> 33, invalid_outcome |-> 34, echo_suppressed |-> 35,
     causal_budget_exceeded |-> 36, projection_incomplete |-> 37,
     alias_not_routable |-> 38]

ErrorID == DOMAIN ErrorRanks

\* The members of errors that rank before limit.
RankedBefore(errors, limit) ==
    {e \in errors : ErrorRanks[e] < ErrorRanks[limit]}

\* bestError: the one identifier a rejected call reports.
BestError(errors) ==
    CHOOSE e \in errors : \A f \in errors : ErrorRanks[e] <= ErrorRanks[f]

\* A check that fails contributes its identifier.
Flag(failed, id) == IF failed THEN {id} ELSE {}
=============================================================================
