-------------------------- MODULE MCWorkflowControl --------------------------
(* Instances of WorkflowControl for TLC: tasks that differ in the flows    *)
(* asked for and in the artifacts and Gate results produced.               *)
EXTENDS WorkflowControl
CONSTANT m1
MCMessages == {m1}

Nothing == [x \in Evidence |-> {}]

(* A delivery of code: planned, coded, tested, reviewed, synced, accepted. *)
Delivery == [flows |-> {"code-change", "architect-debug"}, grants |-> {}, late |-> FALSE, bound |-> 6,
  writes |-> [Nothing EXCEPT
    !["plan"] = {"complete"}, !["coder"] = {"ready", "failed"}, !["test"] = {"pass", "fail"},
    !["debug"] = {"fixed", "normal plan"},
    !["docsSync"] = {"synced"}, !["acceptance"] = {"accepted"},
    !["planGate"] = {"approve"}, !["validation"] = {"approve"}, !["codeDiff"] = {"approve", "changes"}]]

(* A repair that goes from Debug to Diagnosis and back. *)
Repair == [flows |-> {"code-change", "architect-debug", "architecture-diagnosis"},
  grants |-> {}, late |-> FALSE, bound |-> 5,
  writes |-> [Nothing EXCEPT
    !["test"] = {"accepted gap", "fail", "repair"},
    !["debug"] = {"fixed", "clarification"}, !["diagnosis"] = {"fixed", "analysis"},
    !["docsSync"] = {"synced"}, !["acceptance"] = {"accepted"},
    !["validation"] = {"exempt", "changes"}, !["codeDiff"] = {"disabled"}]]

(* A delivery whose tests fail until a Diagnosis in the Debug branch says  *)
(* that nothing is wrong with the code.                                    *)
Analysis == [flows |-> {"code-change", "architect-debug", "architecture-diagnosis"},
  grants |-> {}, late |-> FALSE, bound |-> 7,
  writes |-> [Nothing EXCEPT
    !["plan"] = {"complete"}, !["planGate"] = {"disabled"}, !["coder"] = {"ready"},
    !["test"] = {"fail"}, !["debug"] = {"fixed"}, !["diagnosis"] = {"analysis"},
    !["validation"] = {"disabled"}, !["codeDiff"] = {"disabled"}]]

(* A docs sync that is blocked on a role, and an acceptance that is not    *)
(* given.                                                                  *)
Correction == [flows |-> {"code-change"}, grants |-> {}, late |-> FALSE, bound |-> 6,
  writes |-> [Nothing EXCEPT
    !["plan"] = {"complete"}, !["planGate"] = {"approve"}, !["coder"] = {"ready"},
    !["test"] = {"pass"}, !["docsSync"] = {"synced", "coder", "tester"},
    !["acceptance"] = {"accepted", "needs coder", "needs architect"},
    !["validation"] = {"approve"}, !["codeDiff"] = {"approve", "test changes", "other source"}]]

(* Documentation and validation without a delivery, artifacts rewritten at *)
(* any time.                                                               *)
Docs == [flows |-> {"docs-only", "validation-only", "code-change"},
  grants |-> {}, late |-> TRUE, bound |-> 4,
  writes |-> [Nothing EXCEPT
    !["docsUpdate"] = {"synced", "blocked"},
    !["test"] = {"incomplete", "fail", "production change"}, !["validation"] = {"approve", "changes"}]]

(* User records, questions and lost state around a Debug branch. *)
User == [flows |-> {"code-change", "architect-debug"},
  grants |-> {"override", "followUp"}, late |-> FALSE, bound |-> 4,
  writes |-> [Nothing EXCEPT
    !["debug"] = {"fixed"}, !["test"] = {"pass"}, !["validation"] = {"approve"}]]

FlowTasks == {Delivery, Repair, Analysis, Correction, Docs}
UserTasks == {User}
AllTasks == FlowTasks \union UserTasks
=============================================================================
