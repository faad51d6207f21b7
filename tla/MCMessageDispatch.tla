-------------------------- MODULE MCMessageDispatch --------------------------
(* Instances of MessageDispatch for TLC. *)
EXTENDS MessageDispatch
CONSTANTS coder, tester
OneRole  == {coder}
TwoRoles == {coder, tester}
MCMessages == 1..MaxMessages

(* Which steps a thrown call may follow: none, or those after which the  *)
(* claim already has a monitor or is over.                               *)
Reliable == {}
OwnedSteps == {"marked", "confirmed"}
=============================================================================
