--------------------------- MODULE ArtifactChecks ---------------------------
(***************************************************************************)
(* The managed artifacts: what artifact-service accepts under their        *)
(* content contracts (artifact-check, managed-artifact-validation and the  *)
(* artifact registry), and what Workflow Control and the Gate reviews, who *)
(* read the accepted file with readers of their own, take from it.         *)
(*                                                                         *)
(* A document is what the contracts tell apart of a Markdown file: its     *)
(* fields and decisions, and of a section whether it says exactly "None.", *)
(* something vague (blank, "none", "TBD"), text, or a complete table row   *)
(* of the L3 mapping.  Workflow Progress is left to WorkflowControl.       *)
(***************************************************************************)
EXTENDS Naturals

CONSTANTS
  FieldForms,     \* how a role may write a "Field: value" line
  MaxSubmissions  \* bound on the number of submissions

ASSUME FormsAssumption == FieldForms \subseteq {"plain", "capital", "indented", "bulleted"}

VARIABLES
  artifact,    \* the kind of artifact the behaviour follows, or "none"
  assigned,    \* whether the role holds a durable documentation assignment
  requestOpen, \* whether the assigned Gate request exists
  stored,      \* the authoritative file: the handoff, or the assignment's report
  accepted,    \* how each came about: "template", "draft" or "final"
  submitted    \* number of accepted submissions
artifactVars == <<artifact, assigned, requestOpen, stored, accepted, submitted>>

P == INSTANCE WorkflowPolicy
-----------------------------------------------------------------------------
(* The registry. *)

Allowed == [
  brief     |-> {"interviewing", "confirmed"},
  evidence  |-> {"incomplete", "complete"},
  progress  |-> {"active", "complete"},
  plan      |-> {"complete", "incomplete", "user clarification required"},
  coder     |-> {"ready_for_review", "incomplete", "failed"},
  debug     |-> {"pending", "completed"}]
Final == [
  brief |-> {"confirmed"}, evidence |-> {"complete"}, progress |-> {"complete"},
  plan |-> {"complete"}, coder |-> {"ready_for_review", "failed"}, debug |-> {"completed"}]
Dispositions == [
  debug     |-> {"local fix completed", "normal architecture plan required",
                 "user clarification required"},
  diagnosis |-> {"analysis completed", "diagnosis implementation completed",
                 "user clarification required"}]
DocsDecisions == {"synced", "unchanged", "blocked"}
Acceptances   == {"accepted", "accepted-with-known-risks", "needs-coder-follow-up",
                  "needs-architect-follow-up", "needs-docs-sync", "blocked-by-user-decision"}

Workers == {"architect", "coder", "tester"}
Roles   == Workers \cup {"project-manager", "reviewer"}
Owner == [
  brief |-> {"architect"}, evidence |-> {"architect"}, progress |-> {"architect"},
  plan |-> {"architect"}, issues |-> {"architect"}, coder |-> {"coder"},
  debug |-> {"architect"}, diagnosis |-> {"architect"}, test |-> {"tester"},
  docsUpdate |-> Workers, docsSync |-> {"architect"}, acceptance |-> {"project-manager"},
  route |-> Roles \ {"reviewer"}, worker |-> {"coder"}, review |-> {"reviewer"},
  memory |-> Roles, feedback |-> Roles]
Dynamic == {"route", "worker", "review", "memory", "feedback"}
Kinds   == DOMAIN Owner
Fixed   == Kinds \ Dynamic

Modes(kind) == IF kind \in Dynamic THEN {"final"} ELSE {"draft", "final"}
-----------------------------------------------------------------------------
(* What the readers find in a document. *)

IsNone(d, section) == d.text[section] = "none"
IsSaid(d, section) == d.text[section] \in {"text", "table"}

\* readInlineField accepts blanks before the field, and no bullet.
Checked(d, field) == IF d.form = "bulleted" THEN "absent" ELSE d.text[field]

\* artifactState of Workflow Control accepts neither.
WorkflowReads(d, field) ==
  IF d.form \in {"plain", "capital"} THEN d.text[field] ELSE "absent"

\* matchField of the Gate reviews accepts both, and keeps the capitals.
GateReads(d, field) == IF d.form = "capital" THEN "capitals" ELSE d.text[field]
-----------------------------------------------------------------------------
(* The content contracts. *)

HeadingsHold(d) == d.flaw \notin {"missing heading", "repeated heading", "swapped headings"}

LifecycleHolds(d, mode) ==
  Checked(d, "status") \in IF mode = "final" THEN Final[d.kind] ELSE Allowed[d.kind]

BriefHolds(d) == Checked(d, "status") = "confirmed" => IsNone(d, "decisions")

DispositionHolds(d) == d.text["disposition"] \in Dispositions[d.kind]

Infrastructure == {"files", "boundary", "sweep"}
InfrastructureHolds(d) ==
  LET status == Checked(d, "infra")
  IN /\ status \in {"none", "repair-required", "repaired", "production-change-required"}
     /\ status = "none" => \A s \in Infrastructure \cup {"commit"} : IsNone(d, s)
     /\ status \in {"repair-required", "production-change-required"} =>
          /\ \A s \in Infrastructure : IsSaid(d, s)
          /\ IsNone(d, "commit")
          /\ Checked(d, "status") = "fail"
     /\ status = "repaired" => \A s \in Infrastructure \cup {"commit"} : IsSaid(d, s)

EndToEndHolds(d) ==
  LET required == Checked(d, "l3")
  IN /\ required \in {"yes", "no"}
     /\ required = "yes" =>
          IsSaid(d, "trigger") /\ IsSaid(d, "commands") /\ d.text["flows"] = "table"
     /\ required = "no" => IsSaid(d, "exempt")

Unresolved == {"gaps", "blocking", "approval", "failed"}
ResultHolds(d, mode) ==
  LET result == Checked(d, "status")
  IN /\ result \in {"pass", "fail"} \cup (IF mode = "draft" THEN {"incomplete"} ELSE {})
     /\ result = "pass" => \A s \in Unresolved \cup {"remaining"} : IsNone(d, s)
     /\ result = "incomplete" =>
          /\ IsSaid(d, "done") /\ IsSaid(d, "remaining")
          /\ \A s \in Unresolved : IsNone(d, s)
     /\ result = "fail" => IsSaid(d, "blocking")

\* Mutant: a recorded coverage gap needs no approval of the user.
GapsAnyway(d) ==
  IF IsSaid(d, "gaps") THEN Checked(d, "status") = "fail" ELSE ~IsSaid(d, "approval")
GapsHold(d) ==
  IF IsSaid(d, "gaps") THEN Checked(d, "status") = "fail" /\ IsSaid(d, "approval")
  ELSE ~IsSaid(d, "approval")

DocsUpdateHolds(d, mode) ==
  /\ d.text["decision"] \in DocsDecisions
  /\ mode = "final" /\ d.text["decision"] = "synced" => d.text["commit"] = "hash"

DocsSyncHolds(d) ==
  /\ d.text["decision"] \in DocsDecisions
  /\ d.text["owner"] \in Workers \cup {"none"}
  /\ d.text["decision"] \in {"synced", "unchanged"} =>
       d.text["owner"] = "none" /\ IsNone(d, "evidence")
  /\ d.text["decision"] = "blocked" => d.text["owner"] # "none" /\ IsSaid(d, "evidence")

RouteHolds(d) == d.text["type"] # "other" /\ IsSaid(d, "body")

WorkerReportHolds(d) ==
  d.text["state"] = "completed" /\ d.text["result"] \in {"success", "has_failed_items"}

\* A review names its gate and request; an approval says "None.", a refusal
\* lists complete findings, in the code-diff gate each with its place and scope.
ReviewHolds(d) ==
  /\ d.text["request"] = "assigned"
  /\ IsSaid(d, "summary") /\ IsSaid(d, "analysis")
  /\ \/ d.text["decision"] = "approve" /\ IsNone(d, "findings")
     \/ d.text["decision"] = "request_changes" /\ d.text["findings"] = "table"

\* Only a memory of its own has no document; a decision fits its items.
ProposalHolds(d) ==
  /\ (d.text["decision"] = "update") = IsSaid(d, "items")
  /\ IsSaid(d, "items") => (d.text["disposition"] = "memory") = (d.text["document"] = "none")

FeedbackHolds(d) == IsSaid(d, "fields") /\ d.text["urgency"] # "other"

FieldsHold(d, mode) ==
  /\ d.kind \in DOMAIN Allowed => LifecycleHolds(d, mode)
  /\ d.kind = "brief" => BriefHolds(d)
  /\ d.kind = "diagnosis" \/ (d.kind = "debug" /\ mode = "final") => DispositionHolds(d)
  /\ d.kind = "test" =>
       InfrastructureHolds(d) /\ EndToEndHolds(d) /\ ResultHolds(d, mode) /\ GapsHold(d)
  /\ d.kind = "docsUpdate" => DocsUpdateHolds(d, mode)
  /\ d.kind = "docsSync"   => DocsSyncHolds(d)
  /\ d.kind = "acceptance" => d.text["decision"] \in Acceptances
  /\ d.kind = "route"      => RouteHolds(d)
  /\ d.kind = "worker"     => WorkerReportHolds(d)
  /\ d.kind = "review"     => ReviewHolds(d)
  /\ d.kind = "memory"     => ProposalHolds(d)
  /\ d.kind = "feedback"   => FeedbackHolds(d)

Passes(d, mode) ==
  /\ mode \in Modes(d.kind)
  /\ HeadingsHold(d)
  /\ FieldsHold(d, mode)
  /\ mode = "final" => d.flaw # "placeholder"

\* checkMarkdownArtifact says "ok".
IsOk(d) == Passes(d, "final")
-----------------------------------------------------------------------------
(* What Workflow Control and the Gates take from a file. *)

Reports == {"plan", "coder", "test", "debug", "diagnosis", "docsUpdate", "docsSync", "acceptance"}

Repairs == {"repair-required", "production-change-required"}

TestValue(d) ==
  LET infra == WorkflowReads(d, "infra")  result == WorkflowReads(d, "status")
  IN CASE result = "incomplete" -> "incomplete"
       [] result # "incomplete" /\ infra = "repair-required" -> "repair"
       [] result # "incomplete" /\ infra = "production-change-required" -> "production change"
       [] result \notin {"incomplete", "fail"} /\ infra \notin Repairs -> "pass"
       [] result = "fail" /\ infra \notin Repairs ->
            IF IsOk(d) /\ IsSaid(d, "gaps") /\ IsSaid(d, "approval") THEN "accepted gap"
                                                                     ELSE "fail"

FixValue(d) ==
  CASE d.text["disposition"] = "normal architecture plan required" -> "normal plan"
    [] d.text["disposition"] = "analysis completed"                -> "analysis"
    [] d.text["disposition"] = "user clarification required"       -> "clarification"
    [] OTHER                              -> IF IsOk(d) THEN "fixed" ELSE "missing"

AcceptanceValue(d) ==
  CASE d.text["decision"] = "needs-coder-follow-up"     -> "needs coder"
    [] d.text["decision"] = "needs-docs-sync"           -> "needs docs sync"
    [] d.text["decision"] = "needs-architect-follow-up" -> "needs architect"
    [] d.text["decision"] = "blocked-by-user-decision"  -> IF IsOk(d) THEN "blocked" ELSE "missing"
    [] OTHER                                            -> IF IsOk(d) THEN "accepted" ELSE "missing"

DocsSyncValue(d) ==
  IF ~IsOk(d) THEN "missing"
  ELSE IF d.text["decision"] \in {"synced", "unchanged"} THEN "synced" ELSE d.text["owner"]

\* The value Workflow Control's transition rules see, in the terms of WorkflowPolicy.
WorkflowValue(d) ==
  CASE d.kind = "plan"  -> IF WorkflowReads(d, "status") = "complete" THEN "complete"
                           ELSE "incomplete"
    [] d.kind = "coder" -> CASE WorkflowReads(d, "status") = "failed"           -> "failed"
                             [] WorkflowReads(d, "status") = "ready_for_review" -> "ready"
                             [] OTHER                                           -> "incomplete"
    [] d.kind = "test"  -> TestValue(d)
    [] d.kind \in {"debug", "diagnosis"} -> FixValue(d)
    [] d.kind = "docsUpdate" -> IF ~IsOk(d) THEN "missing"
                                ELSE IF d.text["decision"] = "blocked" THEN "blocked" ELSE "synced"
    [] d.kind = "docsSync"   -> DocsSyncValue(d)
    [] d.kind = "acceptance" -> AcceptanceValue(d)

\* readArchitectureBriefError, readArchitectureEvidenceError, readArchitecturePlanError
PlanGateTakes(d) == IsOk(d) /\ Checked(d, "status") \in Final[d.kind]

\* readValidationReportError
ValidationGateTakes(d) ==
  IsOk(d) /\ GateReads(d, "infra") \notin Repairs

\* readCodeDiffSourceArtifactError
CodeDiffGateTakes(d) ==
  /\ IsOk(d)
  /\ CASE d.kind = "coder"     -> GateReads(d, "status") = "ready_for_review"
       [] d.kind = "debug"     -> GateReads(d, "status") = "completed"
       [] d.kind = "diagnosis" -> d.text["disposition"] = "diagnosis implementation completed"
-----------------------------------------------------------------------------
(* The documents a role may submit. *)

Said == {"none", "vague", "text", "table"}

Report(result, infra, l3, gap) ==
  LET Where(c) == IF c THEN "text" ELSE "none"
      broken == infra # "none"
  IN [status |-> result, infra |-> infra, l3 |-> l3,
      files |-> Where(broken), boundary |-> Where(broken), sweep |-> Where(broken),
      commit |-> Where(infra = "repaired"),
      trigger |-> Where(l3 = "yes"), commands |-> Where(l3 = "yes"),
      flows |-> IF l3 = "yes" THEN "table" ELSE "none", exempt |-> Where(l3 = "no"),
      gaps |-> Where(gap), approval |-> Where(gap), blocking |-> Where(result = "fail"),
      failed |-> Where(result = "fail"), done |-> "text",
      remaining |-> Where(result = "incomplete")]
WholeReports ==
  {Report(result, infra, l3, gap) :
     result \in {"pass", "fail", "incomplete", "other"},
     infra \in {"none", "repair-required", "repaired", "production-change-required"},
     l3 \in {"yes", "no"}, gap \in BOOLEAN}
ReportTexts ==
  WholeReports
    \cup {[r EXCEPT ![s] = c] : r \in WholeReports, c \in Said,
            s \in Infrastructure \cup Unresolved
                  \cup {"commit", "trigger", "commands", "flows", "exempt", "done", "remaining"}}

Texts(kind) ==
  CASE kind = "brief" -> [status : Allowed.brief \cup {"other"}, decisions : Said]
    [] kind = "debug" -> [status : Allowed.debug \cup {"other"},
                          disposition : Dispositions.debug \cup {"other"}]
    [] kind \in DOMAIN Allowed \ {"brief", "debug"} -> [status : Allowed[kind] \cup {"other"}]
    [] kind = "diagnosis" -> [disposition : Dispositions.diagnosis \cup {"other"}]
    [] kind = "test" -> ReportTexts
    [] kind = "docsUpdate" -> [decision : DocsDecisions \cup {"other"},
                               commit : {"hash", "text", "none"}, id : {"assigned", "other"}]
    [] kind = "docsSync" -> [decision : DocsDecisions \cup {"other"},
                             owner : Workers \cup {"none", "other"}, evidence : Said]
    [] kind = "acceptance" -> [decision : Acceptances \cup {"other"}]
    [] kind = "issues"   -> [body : {"text"}]
    [] kind = "route"    -> [type : {"task", "other"}, body : Said]
    [] kind = "worker"   -> [state : {"completed", "other"},
                             result : {"success", "has_failed_items", "other"}]
    [] kind = "review"   -> [request : {"assigned", "other"}, summary : Said, analysis : Said,
                             decision : {"approve", "request_changes", "other"}, findings : Said]
    [] kind = "memory"   -> [decision : {"update", "no-change"}, items : Said,
                             disposition : {"memory", "durable-doc", "memory-reference"},
                             document : {"none", "path"}]
    [] kind = "feedback" -> [fields : Said, urgency : {"low", "medium", "high", "other"}]

Flaws == {"none", "missing heading", "repeated heading", "swapped headings", "placeholder"}

\* The test reports with a deviation in one section have no other flaw.
Documents ==
  [kind \in Kinds |->
     {d \in [kind : {kind}, text : Texts(kind), form : FieldForms, flaw : Flaws] :
        kind = "test" /\ d.flaw # "none" => d.text \in WholeReports}]

\* What createArtifactTemplates writes: the options of every field, joined by "|".
Template(kind) ==
  [kind |-> kind, form |-> "plain", flaw |-> "placeholder",
   text |-> CASE kind = "test" -> [Report("options", "options", "options", FALSE) EXCEPT
                                     !.files = "none", !.boundary = "none", !.sweep = "none",
                                     !.trigger = "vague", !.commands = "vague",
                                     !.flows = "vague", !.exempt = "vague", !.done = "vague"]
              [] kind = "brief" -> [status |-> "options", decisions |-> "none"]
              [] kind = "debug" -> [status |-> "options", disposition |-> "options"]
              [] kind = "diagnosis" -> [disposition |-> "options"]
              [] kind = "docsUpdate" -> [decision |-> "options", commit |-> "text", id |-> "other"]
              [] kind = "docsSync" -> [decision |-> "options", owner |-> "options",
                                       evidence |-> "none"]
              [] kind = "acceptance" -> [decision |-> "options"]
              [] OTHER -> [status |-> "options"]]
-----------------------------------------------------------------------------
(* Submissions. *)

Assignment(role) == assigned /\ artifact = "docsUpdate" /\ role \in Owner.docsUpdate
Place(role)      == IF Assignment(role) THEN "assignment" ELSE "handoff"

\* A fixed artifact takes --path only for an assignment, which its ID must name;
\* a dynamic one goes where its kind, role and request allow.
PathHolds(role, path, d) ==
  IF artifact \in Fixed
  THEN IF Assignment(role) THEN path = "assigned" /\ d.text["id"] = "assigned" ELSE path = "none"
  ELSE /\ path = "assigned" \/ (artifact = "memory" /\ path = "planning" /\ role = "architect")
       /\ artifact = "review" => requestOpen

\* submitArtifact.  Workflow Control may also refuse a docs report or PM's route.
Submit(role, mode, path) ==
  /\ artifact # "none" /\ submitted < MaxSubmissions
  /\ role \in Owner[artifact]
  /\ \E d \in Documents[artifact] :
       /\ PathHolds(role, path, d)
       /\ Passes(d, mode)
       /\ stored' = [stored EXCEPT ![Place(role)] = d]
  /\ accepted' = [accepted EXCEPT ![Place(role)] = mode]
  /\ submitted' = submitted + 1
  /\ UNCHANGED <<artifact, assigned, requestOpen>>

ArtifactInit ==
  /\ artifact \in Kinds \cup {"none"}
  /\ assigned \in IF artifact = "docsUpdate" THEN BOOLEAN ELSE {FALSE}
  /\ requestOpen \in IF artifact = "review" THEN BOOLEAN ELSE {FALSE}
  /\ stored = [place \in {"handoff", "assignment"} |-> Template(artifact)]
  /\ accepted = [place \in {"handoff", "assignment"} |-> "template"]
  /\ submitted = 0

ArtifactNext ==
  \E role \in Roles, mode \in {"draft", "final"}, path \in {"none", "assigned", "planning"} :
    Submit(role, mode, path)

ArtifactSpec == ArtifactInit /\ [][ArtifactNext]_artifactVars
-----------------------------------------------------------------------------
(* Properties. *)

Decided(kind) == P!Values[kind] \ {"missing", "incomplete"}

(* What VCM accepted as final means the same to everyone who acts on it.   *)
(* Workflow Control finds a decision it has a rule for; the plan gate      *)
(* takes what the Architect finished; the validation gate takes a Test     *)
(* Report exactly when Workflow sends it there instead of to a repair; a   *)
(* coverage gap never counts as a plain failure; and the code-diff gate    *)
(* takes exactly the code Workflow sends to it.  An untouched template     *)
(* decides nothing anywhere.  The contracts, artifactState and the readers *)
(* of gate-review-service are three pieces of code that must agree.        *)
ReadersAgree ==
  LET d == stored["handoff"]
      final == accepted["handoff"] = "final"
  IN artifact \in Fixed /\ accepted["handoff"] # "draft" =>
     /\ artifact \in {"brief", "evidence", "plan"} => PlanGateTakes(d) = final
     /\ artifact \in Reports \ {"test"} => (WorkflowValue(d) \in Decided(artifact)) = final
     /\ artifact = "test" =>
          /\ ValidationGateTakes(d) =
               (final /\ WorkflowValue(d) \in {"pass", "fail", "accepted gap"})
          /\ final => WorkflowValue(d) \in Decided("test")
          /\ final /\ IsSaid(d, "gaps") => WorkflowValue(d) # "fail"
     /\ artifact = "coder"     => CodeDiffGateTakes(d) = (WorkflowValue(d) = "ready")
     /\ artifact = "debug"     => (WorkflowValue(d) = "fixed" => CodeDiffGateTakes(d))
     /\ artifact = "diagnosis" => CodeDiffGateTakes(d) = (WorkflowValue(d) = "fixed")
=============================================================================
