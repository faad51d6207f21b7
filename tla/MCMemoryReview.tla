--------------------------- MODULE MCMemoryReview ---------------------------
(* Instances of MemoryReview for TLC. *)
EXTENDS MemoryReview
Two == {"project-manager", "architect"}
ArchitectDrafts == <<"architect">>
ShortPlans == {<<>>, <<"architect">>, <<"none">>}

=============================================================================
