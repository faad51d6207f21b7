----------------------------- MODULE MCRoundFlow -----------------------------
(* Instances of RoundFlow for TLC. *)
EXTENDS RoundFlow
Two == {"project-manager", "coder"}
CoderOnly == {"coder"}
=============================================================================
