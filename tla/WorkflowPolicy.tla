---------------------------- MODULE WorkflowPolicy ----------------------------
(***************************************************************************)
(* The transition rules of workflow-control-service, as pure operators on  *)
(* a view v of the task:                                                   *)
(*   v.status, v.flow   of the confirmed Workflow Progress                 *)
(*   v.rows             the Dispatch History, as [flow, role]              *)
(*   v.run              the recorded flow run, or NoRun                    *)
(*   v.active           the last confirmed dispatch, or NoDispatch         *)
(*   v.value, v.gate    what each artifact and Gate record says            *)
(*   v.fresh            the artifacts and Gates whose fingerprint differs  *)
(*                      from the baseline of v.active                      *)
(* A fingerprint covers the file version, so every write makes it differ.  *)
(***************************************************************************)
EXTENDS Naturals, Sequences

Flows == {"code-change", "architect-debug", "architecture-diagnosis", "docs-only",
          "validation-only"}
TargetRoles == {"architect", "coder", "tester"}

(* What a workflow artifact decides (artifactState).  For a Test Report    *)
(* "accepted gap" is a failure whose coverage gap the user approved,       *)
(* "repair" and "production change" a failure the test infrastructure      *)
(* explains; for a blocked Docs Sync Report the value is the role that     *)
(* owns the correction.                                                    *)
Values == [
  plan       |-> {"missing", "incomplete", "complete"},
  coder      |-> {"missing", "incomplete", "failed", "ready"},
  test       |-> {"missing", "incomplete", "pass", "fail", "accepted gap", "repair",
                  "production change"},
  debug      |-> {"missing", "fixed", "normal plan", "clarification"},
  diagnosis  |-> {"missing", "fixed", "analysis", "clarification"},
  docsUpdate |-> {"missing", "synced", "blocked"},
  docsSync   |-> {"missing", "synced", "architect", "coder", "tester"},
  acceptance |-> {"missing", "accepted", "needs coder", "needs architect",
                  "needs docs sync", "blocked"}]
Artifacts == DOMAIN Values

(* What a Gate record decides (gateState).  "other source" is an approval  *)
(* of another code source; "exempt" is not_required, skipped, overridden.  *)
GateValues == [
  planGate   |-> {"none", "disabled", "exempt", "approve", "changes"},
  validation |-> {"none", "disabled", "exempt", "approve", "changes"},
  codeDiff   |-> {"none", "disabled", "exempt", "approve", "other source", "changes",
                  "test changes"}]
Gates == DOMAIN GateValues

Evidence == Artifacts \cup Gates

NoRun      == [root |-> "none", branch |-> "none", resumed |-> "none", start |-> 0]
NoDispatch == [seq |-> 0, flow |-> "none", role |-> "none"]
NewRun(f, n) == [NoRun EXCEPT !.root = f, !.start = n]

LastOf(S) == IF S = {} THEN 0 ELSE CHOOSE i \in S : \A j \in S : j <= i
-----------------------------------------------------------------------------
(* Freshness. *)

Matches(v, f, r)          == v.active.flow = f /\ v.active.role = r

(* evidenceIsFresh, gateRecordIsFresh / evidenceProducedAfterActiveDispatch *)
IsFresh(v, f, r, x)       == Matches(v, f, r) => x \in v.fresh
ProducedAfter(v, f, r, x) == Matches(v, f, r) /\ x \in v.fresh

(* gatePassedForDispatch *)
Passed(v, f, r, g) ==
  \/ v.gate[g] = "disabled"
  \/ v.gate[g] \in {"exempt", "approve", "other source"} /\ IsFresh(v, f, r, g)

(* freshGateDecision = "request_changes" *)
Rejected(v, f, r, g) == v.gate[g] \in {"changes", "test changes"} /\ IsFresh(v, f, r, g)
-----------------------------------------------------------------------------
(* The flow run: the root flow, the branch it is in or returned from, and  *)
(* the history row it started with.                                        *)

SegmentStarts(rows) == {i \in DOMAIN rows : i = 1 \/ rows[i - 1].flow # rows[i].flow}

(* The run as the segments of the history suggest it. *)
RunFromHistory(rows) ==
  LET starts == SegmentStarts(rows)
      last   == LastOf(starts)
      prev   == LastOf({i \in starts : i < last})
      grand  == LastOf({i \in starts : i < prev})
      At(i)  == IF i = 0 THEN "none" ELSE rows[i].flow
      Branch(root, start) == [NewRun(root, start) EXCEPT !.branch = At(last)]
  IN CASE At(last) = "architect-debug" /\ At(prev) = "code-change" ->
            Branch("code-change", prev)
       [] At(last) = "architecture-diagnosis" /\ At(prev) = "architect-debug" ->
            IF At(grand) = "code-change" THEN Branch("code-change", grand)
                                         ELSE Branch("architect-debug", prev)
       [] At(last) = "architecture-diagnosis" /\ At(prev) = "code-change" ->
            Branch("code-change", prev)
       [] /\ At(last) = "code-change" /\ At(grand) = "code-change"
          /\ At(prev) \in {"architect-debug", "architecture-diagnosis"} ->
            [NewRun("code-change", grand) EXCEPT !.resumed = At(prev)]
       [] OTHER -> NewRun(At(last), last)

ResolveFlowRun(v) ==
  IF v.flow # "none" /\ v.flow \in {v.run.root, v.run.branch} THEN v.run
  ELSE IF v.rows = <<>> THEN NewRun("code-change", 1)
  ELSE RunFromHistory(v.rows)

(* mutant of AdvanceFlowRun: a normal plan is a return like any other *)
AdvanceIgnoresReplan(v, f, n) ==
  LET run == ResolveFlowRun(v)
  IN IF v.flow = "none" \/ v.status = "completed" THEN NewRun(f, n)
     ELSE IF v.flow = f THEN run
     ELSE IF run.branch = v.flow /\ f = run.root
     THEN [run EXCEPT !.branch = "none", !.resumed = v.flow]
     ELSE [run EXCEPT !.branch = f, !.resumed = "none"]

(* The run after flow f is dispatched as row n. *)
AdvanceFlowRun(v, f, n) ==
  LET run == ResolveFlowRun(v)
      EntersBranch ==
        \/ v.flow = "code-change" /\ f = "architect-debug" /\ run.root = "code-change"
        \/ /\ v.flow = "architect-debug" /\ f = "architecture-diagnosis"
           /\ \/ run.root = "code-change" /\ run.branch = "architect-debug"
              \/ run.root = "architect-debug" /\ run.branch = "none"
      Returns == run.branch = v.flow /\ f = run.root
      Replans == /\ v.flow = "architect-debug" /\ f = "code-change"
                 /\ v.value["debug"] = "normal plan"
  IN IF v.flow = "none" \/ v.status = "completed" THEN NewRun(f, n)
     ELSE IF v.flow = f THEN run
     ELSE IF EntersBranch THEN [run EXCEPT !.branch = f, !.resumed = "none"]
     ELSE IF Returns /\ ~Replans THEN [run EXCEPT !.branch = "none", !.resumed = v.flow]
     ELSE NewRun(f, n)

(* activeFlowSegment: the rows of the run since the flow was last entered. *)
ActiveSegment(v) ==
  {i \in DOMAIN v.rows : /\ i >= ResolveFlowRun(v).start
                         /\ \A j \in DOMAIN v.rows : j >= i => v.rows[j].flow = v.flow}
LastRowOf(v, r) == LastOf({i \in ActiveSegment(v) : v.rows[i].role = r})
-----------------------------------------------------------------------------
(* Legal next dispatches, as <<flow, role>>. *)

To(f, r) == {<<f, r>>}

DocsOnlyRoles == {"docs-only"} \X TargetRoles
DocsOnlyExits == {<<"code-change", "architect">>, <<"validation-only", "tester">>}

InitialTransitions ==
  To("code-change", "architect") \cup To("architect-debug", "architect")
  \cup To("architecture-diagnosis", "architect") \cup DocsOnlyRoles
  \cup To("validation-only", "tester")

AllowedDocsOnly(v) ==
  LET role == v.active.role
  IN IF v.active.flow # "docs-only" \/ ("docsUpdate" \in v.fresh /\ v.value["docsUpdate"] # "missing")
     THEN DocsOnlyRoles \cup DocsOnlyExits
     ELSE To("docs-only", role) \cup DocsOnlyExits

AllowedValidationOnly(v) ==
  LET again == To("validation-only", "tester")
  IN IF ~IsFresh(v, "validation-only", "tester", "test") THEN again
     ELSE IF v.value["test"] = "production change" THEN To("code-change", "architect")
     ELSE IF v.value["test"] \in {"incomplete", "repair"} THEN again
     ELSE IF Rejected(v, "validation-only", "tester", "validation") THEN again
     ELSE {}

(* allowedFreshArchitecturePlan; PlanIsNew says whether it decides.  The   *)
(* follow-up of a delivery needs a Gate record newer than its dispatch.    *)
PlanIsNew(v) == ProducedAfter(v, "code-change", "architect", "plan")
AllowedFromPlan(v, followUp) ==
  LET g == "planGate"
  IN IF v.value["plan"] # "complete" THEN To("code-change", "architect")
     ELSE IF v.gate[g] = "none" \/ (followUp /\ g \notin v.fresh) THEN {}
     ELSE IF Rejected(v, "code-change", "architect", g) THEN To("code-change", "architect")
     ELSE IF Passed(v, "code-change", "architect", g) THEN To("code-change", "coder")
     ELSE {}

AllowedPostImplementation(v, f) ==
  LET sync == v.value["docsSync"]
      accepted == v.value["acceptance"]
  IN IF f = "code-change" /\ PlanIsNew(v) THEN AllowedFromPlan(v, TRUE)
     ELSE IF ~IsFresh(v, f, "architect", "docsSync") \/ sync = "missing" THEN To(f, "architect")
     ELSE IF sync # "synced" THEN To(f, sync)
     ELSE IF accepted = "needs coder" /\ f = "code-change" THEN To(f, "coder")
     ELSE IF accepted \in {"needs docs sync", "needs architect"} THEN To(f, "architect")
     ELSE {}

(* allowedActiveCoderDocsCorrection: a Coder dispatched to correct a       *)
(* blocked docs sync; the report is the one it was dispatched for.         *)
CoderCorrectsDocs(v, f) ==
  Matches(v, f, "coder") /\ v.value["docsSync"] = "coder" /\ "docsSync" \notin v.fresh

AllowedDocsCorrection(v, f) ==
  IF "coder" \notin v.fresh \/ v.value["coder"] \in {"missing", "incomplete"} THEN To(f, "coder")
  ELSE IF v.value["coder"] = "ready" THEN To(f, "tester")
  ELSE IF f = "code-change" THEN To("architect-debug", "architect")
  ELSE IF f = "architect-debug" THEN To("architecture-diagnosis", "architect")
  ELSE {}

(* allowedAfterTester; onFailure and onFindings are the branch that repairs *)
(* a failed test and a rejected diff, or "none".                            *)
AllowedAfterTester(v, f, onFailure, onFindings, success) ==
  LET Repair(branch) == IF branch = "none" THEN {} ELSE To(branch, "architect")
      test == v.value["test"]
  IN IF ~IsFresh(v, f, "tester", "test") THEN To(f, "tester")
     ELSE IF test \in {"incomplete", "repair"} THEN To(f, "tester")
     ELSE IF Rejected(v, f, "tester", "validation") THEN To(f, "tester")
     ELSE IF test \in {"fail", "production change"} THEN Repair(onFailure)
     ELSE IF ~Passed(v, f, "tester", "validation") THEN {}
     ELSE IF Rejected(v, f, "tester", "codeDiff")
          THEN IF v.gate["codeDiff"] = "test changes" THEN To(f, "tester") ELSE Repair(onFindings)
     ELSE IF ~Passed(v, f, "tester", "codeDiff") \/ v.gate["codeDiff"] = "other source" THEN {}
     ELSE success

AllowedCodeChange(v) ==
  LET coder  == LastRowOf(v, "coder")
      tester == LastRowOf(v, "tester")
      run    == ResolveFlowRun(v)
      AfterTester == AllowedAfterTester(v, "code-change", "architect-debug", "architect-debug",
                                        To("code-change", "architect"))
  IN IF run.resumed # "none" /\ coder = 0
     THEN IF tester = 0 THEN AllowedPostImplementation(v, "code-change") ELSE AfterTester
     ELSE IF coder = 0
     THEN IF PlanIsNew(v) THEN AllowedFromPlan(v, FALSE) ELSE To("code-change", "architect")
     ELSE IF tester < coder
     THEN IF ~IsFresh(v, "code-change", "coder", "coder") THEN To("code-change", "coder")
          ELSE IF v.value["coder"] = "failed" THEN To("architect-debug", "architect")
          ELSE IF v.value["coder"] = "ready" THEN To("code-change", "tester")
          ELSE To("code-change", "coder")
     ELSE IF LastRowOf(v, "architect") > tester THEN AllowedPostImplementation(v, "code-change")
     ELSE AfterTester

(* allowedArchitectFix, for Architect Debug and Architecture Diagnosis. *)
AllowedArchitectFix(v, f) ==
  LET report    == IF f = "architect-debug" THEN "debug" ELSE "diagnosis"
      architect == LastRowOf(v, "architect")
      tester    == LastRowOf(v, "tester")
      run       == ResolveFlowRun(v)
      resumed   == f = "architect-debug" /\ run.resumed # "none"
      parent    == IF run.branch = "none" THEN "none" ELSE run.root
      isNew     == IsFresh(v, f, "architect", report)
      again     == To(f, "architect")
  IN IF resumed /\ architect # 0 /\ tester = 0 THEN AllowedPostImplementation(v, f)
     ELSE IF architect = 0 THEN again
     ELSE IF tester = 0
     THEN IF ~isNew THEN again
          ELSE IF v.value[report] = "normal plan" THEN To("code-change", "architect")
          ELSE IF v.value[report] = "analysis"
               THEN IF parent = "none" THEN {} ELSE To(parent, "architect")
          ELSE IF v.value[report] = "fixed" THEN To(f, "tester")
          ELSE again
     ELSE IF architect > tester
     THEN IF isNew /\ v.value[report] = "clarification" THEN again
          ELSE IF isNew /\ v.value[report] # "missing" THEN To(f, "tester")
          ELSE IF IsFresh(v, f, "architect", "docsSync") /\ v.value["docsSync"] = "synced" THEN {}
          ELSE again
     ELSE AllowedAfterTester(v, f,
            IF f = "architect-debug" THEN "architecture-diagnosis" ELSE "none", f,
            To(IF parent = "none" THEN f ELSE parent, "architect"))

AllowedTransitions(v) ==
  IF v.status = "completed" \/ v.flow = "none" \/ v.rows = <<>> THEN InitialTransitions
  ELSE IF v.flow = "docs-only" THEN AllowedDocsOnly(v)
  ELSE IF v.flow = "validation-only" THEN AllowedValidationOnly(v)
  ELSE IF CoderCorrectsDocs(v, v.flow) THEN AllowedDocsCorrection(v, v.flow)
  ELSE IF v.flow = "code-change" THEN AllowedCodeChange(v)
  ELSE AllowedArchitectFix(v, v.flow)

(* canRouteUserApprovedFollowUp *)
CanFollowUp(v, f, r) ==
  LET run  == ResolveFlowRun(v)
      exit == IF run.branch = f THEN run.root ELSE f
  IN /\ r = "tester" /\ v.status = "active" /\ v.flow = f
     /\ f \in {"code-change", "architect-debug", "architecture-diagnosis"}
     /\ Matches(v, f, "tester")
     /\ v.value["test"] = "pass" /\ "test" \in v.fresh
     /\ Passed(v, f, "tester", "validation") /\ Passed(v, f, "tester", "codeDiff")
     /\ AllowedTransitions(v) = To(exit, "architect")
-----------------------------------------------------------------------------
(* validateCompletion, validateCompleteDeliveryEvidence *)

DeliveryComplete(v) ==
  /\ Matches(v, v.flow, "architect")
  /\ "docsSync" \in v.fresh /\ v.value["docsSync"] = "synced"
  /\ "acceptance" \in v.fresh /\ v.value["acceptance"] = "accepted"

CompletionValid(v) ==
  /\ v.flow # "none" /\ v.rows # <<>>
  /\ ResolveFlowRun(v).branch # v.flow
  /\ CASE v.flow \in {"code-change", "architect-debug"} -> DeliveryComplete(v)
       [] v.flow = "architecture-diagnosis" ->
            \/ /\ v.value["diagnosis"] = "analysis"
               /\ ProducedAfter(v, v.flow, "architect", "diagnosis")
            \/ DeliveryComplete(v)
       [] v.flow = "docs-only" ->
            /\ v.active.flow = "docs-only"
            /\ "docsUpdate" \in v.fresh /\ v.value["docsUpdate"] = "synced"
       [] v.flow = "validation-only" ->
            /\ ProducedAfter(v, v.flow, "tester", "test")
            /\ v.value["test"] \in {"pass", "fail", "accepted gap", "production change", "repair"}
            /\ Passed(v, v.flow, "tester", "validation")
-----------------------------------------------------------------------------
(* assertDocsArtifactAllowed: which of the two documentation reports the   *)
(* active dispatch of a role requires, or "any".                           *)
DocsReportRequired(v, r) ==
  LET run == ResolveFlowRun(v)
      hadTester == \E i \in DOMAIN v.rows :
                     i >= run.start /\ i < v.active.seq /\ v.rows[i].role = "tester"
      done == To(v.flow, "architect")
  IN IF v.status # "active" \/ v.active.role # r THEN "any"
     ELSE IF v.flow = "docs-only" THEN "docsUpdate"
     ELSE IF /\ r = "architect" /\ v.flow # "validation-only"
             /\ run.branch = "none" /\ hadTester
             /\ done \subseteq AllowedAfterTester(v, v.flow, "none", "none", done)
     THEN "docsSync" ELSE "any"
=============================================================================
