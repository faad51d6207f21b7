--------------------------- MODULE WorkflowControl ---------------------------
(***************************************************************************)
(* Workflow control of one task: the approval of DispatchApproval, granted *)
(* by the transition rules of WorkflowPolicy on the evidence the roles and *)
(* the Gates have produced since the last confirmed dispatch.              *)
(***************************************************************************)
EXTENDS DispatchApproval, WorkflowPolicy

CONSTANTS
  Tasks,               \* what VCM tasks are about, the fields below
  CompletedProposals,  \* a proposal may come with Status: completed
  Interrupted,         \* tasks with questions, cancellations and failed deliveries
  Losable              \* tasks whose workflow-control.json may disappear

(* A task has the flows its Project Manager asks for, the user records it   *)
(* may cite, what may be recorded per artifact and Gate, whether artifacts *)
(* may change after a proposal was judged on them, and a bound on the      *)
(* revisions of its Workflow Progress.                                     *)
ASSUME ControlAssumption ==
  /\ Roles = TargetRoles
  /\ \A t \in Tasks :
       /\ DOMAIN t = {"flows", "grants", "writes", "late", "bound"}
       /\ t.flows \subseteq Flows
       /\ t.grants \subseteq {"override", "followUp"}
       /\ DOMAIN t.writes = Evidence
       /\ \A a \in Artifacts : t.writes[a] \subseteq Values[a]
       /\ \A g \in Gates : t.writes[g] \subseteq GateValues[g]
       /\ t.late \in BOOLEAN
       /\ t.bound \in 0..MaxRevision
  /\ CompletedProposals \in BOOLEAN

VARIABLES
  task,       \* the task at hand
  status,     \* Status and Flow of Workflow Progress
  flow,
  proposal,   \* the Proposed Dispatch of the document
  flows,      \* per Dispatch History row, its flow
  pending,    \* what the pending approval remembers of its proposal, and the
              \* length of the history it was granted on
  run,        \* flowRun
  active,     \* activeDispatch
  value,      \* what each artifact says
  gate,       \* what each Gate record says
  fresh,      \* evidence changed since the baseline of the active dispatch
  claimed     \* evidence changed since the baseline of the claimed approval
controlVars == <<task, status, flow, proposal, flows, pending, run, active, value, gate,
                 fresh, claimed>>
workflowVars == <<approvalVars, controlVars>>

Kinds      == {"plain", "override", "followUp"}
NoProposal == [flow |-> "none", role |-> NoRole]
NoPending  == [flow |-> "none", kind |-> "none", base |-> 0]

View == [status |-> status, flow |-> flow, run |-> run, active |-> active,
         value |-> value, gate |-> gate, fresh |-> fresh,
         rows |-> [i \in DOMAIN flows |-> [flow |-> flows[i], role |-> history[i].role]]]

ControlTypeOK ==
  /\ ApprovalTypeOK
  /\ task \in Tasks
  /\ status \in {"not-started", "active", "completed"}
  /\ flow \in Flows \cup {"none"}
  /\ proposal \in [flow : Flows, role : Roles] \cup {NoProposal}
  /\ flows \in Seq(Flows) /\ Len(flows) = Len(history)
  /\ pending \in [flow : Flows, kind : Kinds, base : 0..MaxRevision]
                  \cup {NoPending}
  /\ run.root \in Flows \cup {"none"} /\ run.start \in 0..MaxRevision
  /\ active.seq \in 0..MaxRevision
  /\ value \in [Artifacts -> UNION {Values[a] : a \in Artifacts}]
  /\ \A a \in Artifacts : value[a] \in Values[a]
  /\ \A g \in Gates : gate[g] \in GateValues[g]
  /\ fresh \subseteq Evidence /\ claimed \subseteq Evidence

WorkflowInit ==
  /\ ApprovalInit
  /\ task \in Tasks
  /\ status = "not-started"
  /\ flow = "none"
  /\ proposal = NoProposal
  /\ flows = <<>>
  /\ pending = NoPending
  /\ run = NoRun
  /\ active = NoDispatch
  /\ value = [a \in Artifacts |-> "missing"]
  /\ gate = [g \in Gates |-> "none"]
  /\ fresh = {}
  /\ claimed = {}
-----------------------------------------------------------------------------
(* stateProgressConsistencyWarnings: any of these refuses every request.   *)
Consistent ==
  /\ approval = NoApproval => proposal = NoProposal
  /\ approval # NoApproval =>
       /\ approval.rev = revision
       /\ pending.base = Len(history)
       /\ proposal = [flow |-> pending.flow, role |-> approval.role]
  /\ active = IF history = <<>> THEN NoDispatch
              ELSE [seq |-> Len(history), flow |-> flows[Len(flows)],
                    role |-> history[Len(history)].role]

(* The verdict on a proposal of flow f and role r: legal on its own, or by *)
(* the user's record of one kind - never a record it does not need.        *)
Granted(f, r, kind) ==
  LET legal == <<f, r>> \in AllowedTransitions(View)
  IN /\ kind = "plain" <=> legal
     /\ kind = "followUp" => CanFollowUp(View, f, r)

(* submitProgress with a proposal.  The candidate keeps the confirmed      *)
(* Status or says completed; only the confirmed one is judged.             *)
SubmitProposal(f, r, kind) ==
  /\ Consistent
  /\ f \in task.flows /\ kind \in task.grants \cup {"plain"} /\ revision < task.bound
  /\ Granted(f, r, kind)
  /\ Approve(r, kind # "plain")
  /\ proposal' = [flow |-> f, role |-> r]
  /\ pending' = [flow |-> f, kind |-> kind, base |-> Len(history)]
  /\ status' \in {status} \cup (IF CompletedProposals THEN {"completed"} ELSE {})
  /\ UNCHANGED <<task, flow, flows, run, active, value, gate, fresh, claimed>>

(* submitProgress without a proposal *)
SubmitCompletion ==
  /\ Consistent
  /\ revision < task.bound
  /\ CompletionValid(View)
  /\ CompleteFlow
  /\ status' = "completed"
  /\ UNCHANGED <<task, flow, proposal, flows, pending, run, active, value, gate, fresh, claimed>>

(* claimDispatch: the evidence baseline of the next dispatch is taken now. *)
ClaimDispatch(m) ==
  /\ Consistent
  /\ Claim(approval.role, m)
  /\ claimed' = {}
  /\ UNCHANGED <<task, status, flow, proposal, flows, pending, run, active, value, gate, fresh>>

ReleaseDispatch(m) ==
  /\ task \in Interrupted
  /\ Claimed(m)
  /\ Release(m)
  /\ UNCHANGED controlVars

(* confirmDispatch *)
ConfirmDispatch(m) ==
  /\ Consistent
  /\ Confirm(m, "hook")
  /\ run' = AdvanceFlowRun(View, pending.flow, Len(history) + 1)
  /\ flow' = pending.flow
  /\ status' = "active"
  /\ flows' = Append(flows, pending.flow)
  /\ active' = [seq |-> Len(history) + 1, flow |-> pending.flow, role |-> approval.role]
  /\ fresh' = claimed
  /\ claimed' = {}
  /\ proposal' = NoProposal
  /\ pending' = NoPending
  /\ UNCHANGED <<task, value, gate>>

(* cancelPendingDispatch *)
CancelDispatch ==
  /\ task \in Interrupted
  /\ approval # NoApproval
  /\ Cancel
  /\ proposal' = NoProposal
  /\ pending' = NoPending
  /\ UNCHANGED <<task, status, flow, flows, run, active, value, gate, fresh, claimed>>

(* mutant of RequestUserInput: the document keeps the proposal *)
AskKeepsProposal ==
  /\ task \in Interrupted
  /\ Consistent
  /\ AskUser
  /\ pending' = NoPending
  /\ UNCHANGED <<task, status, flow, proposal, flows, run, active, value, gate, fresh, claimed>>

RequestUserInput ==
  /\ task \in Interrupted
  /\ Consistent
  /\ AskUser
  /\ proposal' = NoProposal
  /\ pending' = NoPending
  /\ UNCHANGED <<task, status, flow, flows, run, active, value, gate, fresh, claimed>>

ResolveUserInput ==
  /\ Consistent
  /\ asking
  /\ ResolveQuestion
  /\ UNCHANGED controlVars
-----------------------------------------------------------------------------
(* The roles and the Gates. *)

Owners == [plan |-> {"architect"}, debug |-> {"architect"}, diagnosis |-> {"architect"},
           docsSync |-> {"architect"}, coder |-> {"coder"}, test |-> {"tester"},
           docsUpdate |-> TargetRoles, acceptance |-> {"project-manager"},
           planGate |-> {"architect"}, validation |-> {"tester"}, codeDiff |-> {"tester"}]

(* The role that may write: the active dispatch's and the Project Manager, *)
(* until the next dispatch is proposed; in a late task any role that was  *)
(* ever dispatched, at any time, since VCM checks the owner alone.         *)
AtWork(r) ==
  \/ r \in {active.role, "project-manager"} /\ approval = NoApproval
  \/ task.late /\ (r = "project-manager" \/ \E i \in DOMAIN history : history[i].role = r)

(* A write changes the fingerprint, whatever it says. *)
Touch(x) ==
  /\ fresh' = fresh \cup {x}
  /\ claimed' = IF Dispatching THEN claimed \cup {x} ELSE claimed

(* submitArtifact of a workflow artifact; assertDocsArtifactAllowed guards *)
(* the two documentation reports.                                          *)
WriteArtifact(a) ==
  /\ \E r \in Owners[a] :
       /\ AtWork(r)
       /\ a \in {"docsSync", "docsUpdate"} =>
            Consistent /\ DocsReportRequired(View, r) \in {"any", a}
  /\ value' \in {[value EXCEPT ![a] = x] : x \in task.writes[a]}
  /\ Touch(a)
  /\ UNCHANGED <<approvalVars, task, status, flow, proposal, flows, pending, run, active, gate>>

(* A Gate record is rewritten: a request, its exemption, or its decision. *)
WriteGate(g) ==
  /\ \E r \in Owners[g] : AtWork(r)
  /\ gate' \in {[gate EXCEPT ![g] = x] : x \in task.writes[g]}
  /\ Touch(g)
  /\ UNCHANGED <<approvalVars, task, status, flow, proposal, flows, pending, run, active, value>>

(* getState without workflow-control.json: reconstructStateFromProgress.   *)
(* The question and the user records are lost with the file; with a        *)
(* proposal in the document every request is refused until it is restored. *)
LoseState ==
  /\ task \in Losable
  /\ approval = NoApproval /\ history # <<>>
  /\ asking' = FALSE
  /\ active' = [seq |-> Len(history), flow |-> flows[Len(flows)],
                role |-> history[Len(history)].role]
  /\ run' = ResolveFlowRun([View EXCEPT !.run = NoRun])
  /\ fresh' = {}
  /\ grant' = [v \in Revisions |-> "none"]
  /\ UNCHANGED <<revision, approval, history, task, status, flow, proposal, flows, pending,
                 value, gate, claimed>>
-----------------------------------------------------------------------------
WorkflowNext ==
  \/ \E f \in Flows, r \in Roles, k \in Kinds : SubmitProposal(f, r, k)
  \/ SubmitCompletion
  \/ \E m \in Messages : ClaimDispatch(m) \/ ReleaseDispatch(m) \/ ConfirmDispatch(m)
  \/ CancelDispatch \/ RequestUserInput \/ ResolveUserInput
  \/ \E a \in Artifacts : WriteArtifact(a)
  \/ \E g \in Gates : WriteGate(g)
  \/ LoseState

WorkflowSpec == WorkflowInit /\ [][WorkflowNext]_workflowVars
-----------------------------------------------------------------------------
Rows      == 1..Len(history)
RunRows   == {i \in Rows : i >= run.start}
Unaided(S) == \A i \in S : ~history[i].granted
RowIs(i, f, r) == flows[i] = f /\ history[i].role = r
Branches  == {"architect-debug", "architecture-diagnosis"}

(* No sequence of accepted requests makes the two workflow files disagree: *)
(* any warning of stateProgressConsistencyWarnings would refuse every      *)
(* further request of the task.                                            *)
NoSelfInflictedWarning == Consistent

(* The recorded flow run is a story of the Dispatch History: it starts     *)
(* with a row of its root flow, all its later rows belong to the root flow *)
(* or to a branch, and the document's flow is the branch it is in, or else *)
(* the root - "completed flows are not mistaken for the parent".           *)
RunIsRooted ==
  history # <<>> =>
    /\ run.start \in Rows /\ flows[run.start] = run.root
    /\ \A i \in RunRows : flows[i] \in {run.root} \cup Branches
    /\ flow = IF run.branch = "none" THEN run.root ELSE run.branch
    /\ run.resumed # "none" => \E i \in RunRows : flows[i] = run.resumed

(* "does not reuse unchanged evidence": while nothing has been produced    *)
(* since the last dispatch, the only legal dispatch is that same one       *)
(* again, whatever earlier reports and Gate approvals lie around.          *)
NothingFreshNothingNext ==
  status = "active" /\ fresh = {} /\ Unaided(Rows) =>
    AllowedTransitions(View) \subseteq
      {<<active.flow, active.role>>} \cup (IF flow = "docs-only" THEN DocsOnlyExits ELSE {})

(* A branch returns to its parent before the task is completed.            *)
BranchNeverCompletes == status = "completed" => run.branch = "none" /\ flow = run.root

(* What a Tester is still to be sent: the code of a delivery; the repair of *)
(* a branch, that of a Diagnosis once a Tester has sent it back - before   *)
(* that it may turn out to be an analysis.  Elsewhere a Coder corrects     *)
(* documentation.                                                          *)
SentBack(i) == \E k \in RunRows : /\ k < i /\ history[k].role = "tester"
                                  /\ \A l \in k..i : flows[l] = flows[i]
Repairs(i) ==
  \/ RowIs(i, "code-change", "coder")
  \/ RowIs(i, "architect-debug", "architect") /\ run.root = "code-change"
  \/ /\ RowIs(i, "architecture-diagnosis", "architect")
     /\ run.root # "architecture-diagnosis" /\ SentBack(i)

(* Unaided by the user, the Architect follows a Coder, or the repair of a  *)
(* branch, only after a Tester dispatch in between.                        *)
CodeIsTestedFirst ==
  history # <<>> /\ Unaided(RunRows) /\ run.branch = "none" /\ active.role = "architect" =>
    \A i \in RunRows : Repairs(i) => \E j \in RunRows : j > i /\ history[j].role = "tester"

(* "VCM checks the required accepted artifact": the document says          *)
(* completed only when the completion evidence was there.                  *)
CompletionHasEvidence ==
  [][status' = "completed" /\ status # "completed" => CompletionValid(View)]_workflowVars

(* The requests change the approval only as DispatchApproval allows; a     *)
(* lost runtime state takes an open question and the user's records along. *)
ApprovalLoss == /\ approval = NoApproval
                /\ asking' = FALSE
                /\ grant' = [v \in Revisions |-> "none"]
                /\ UNCHANGED <<revision, approval, history>>
KeepsApproval == ApprovalInit /\ [][ApprovalNext \/ ApprovalLoss]_approvalVars
=============================================================================
