----------------------------- MODULE MCGateReview -----------------------------
(* Instances of GateReview for TLC. *)
EXTENDS GateReview
CodeGates == {Validation, Diff}
PlanOnly  == {Plan}
DiffOnly  == {Diff}
SkipValidation == {<<Validation, "skipped">>}
PlanOverride == {<<Plan, "overridden">>}
=============================================================================
