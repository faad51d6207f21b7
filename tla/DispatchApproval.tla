-------------------------- MODULE DispatchApproval --------------------------
(***************************************************************************)
(* The dispatch approval of a task, as workflow-control-service grants it: *)
(* an accepted Workflow Progress revision creates one approval, a PM route *)
(* claims it for one message, and the target's prompt confirms it into one *)
(* row of the Dispatch History.  A question to the user cancels it and     *)
(* locks the workflow.  Whether a transition is legal is left open here    *)
(* (WorkflowControl decides it); an accepted one may carry a grant, the    *)
(* one-time record of a user's override or follow-up approval.             *)
(*                                                                         *)
(* Every action is one request under the workflow lock; the two files it   *)
(* updates are one record by WorkflowJournal.                              *)
(***************************************************************************)
EXTENDS Naturals, Sequences

CONSTANTS
  Roles,        \* the roles the Project Manager may dispatch to
  NoRole,
  Messages,     \* message ids
  NoMessage,
  MaxRevision   \* bound on the Workflow Progress revisions

ASSUME RolesAssumption    == NoRole \notin Roles
ASSUME MessagesAssumption == NoMessage \notin Messages
ASSUME RevisionAssumption == MaxRevision \in Nat

VARIABLES
  revision,  \* revision of the confirmed Workflow Progress document
  approval,  \* pendingDispatch
  asking,    \* awaitingUser is set
  history,   \* the Dispatch History
  grant      \* per revision: the one-time user record accepted with it
approvalVars == <<revision, approval, asking, history, grant>>

Revisions == 1..MaxRevision
GrantStatus == {"none", "accepted", "consumed", "abandoned"}

NoApproval == [status |-> "none", rev |-> 0, role |-> NoRole, msg |-> NoMessage,
               unconfirmed |-> FALSE, granted |-> FALSE]
Approval == [status : {"pending", "dispatching"}, rev : Revisions, role : Roles,
             msg : Messages \cup {NoMessage}, unconfirmed : BOOLEAN, granted : BOOLEAN]
Row == [rev : Revisions, role : Roles, msg : Messages, source : {"hook", "manual"},
        granted : BOOLEAN]

ApprovalTypeOK ==
  /\ revision \in 0..MaxRevision
  /\ approval \in Approval \cup {NoApproval}
  /\ asking \in BOOLEAN
  /\ history \in Seq(Row)
  /\ grant \in [Revisions -> GrantStatus]

ApprovalInit ==
  /\ revision = 0
  /\ approval = NoApproval
  /\ asking = FALSE
  /\ history = <<>>
  /\ grant = [v \in Revisions |-> "none"]
-----------------------------------------------------------------------------
Pending     == approval.status = "pending"
Dispatching == approval.status = "dispatching"
Claimed(m)  == Dispatching /\ approval.msg = m

(* submitProgress with a proposal: refused while a question is open or     *)
(* another approval exists.  granted: it was accepted on a user's record.  *)
Approve(r, granted) ==
  /\ ~asking
  /\ approval = NoApproval
  /\ revision < MaxRevision
  /\ revision' = revision + 1
  /\ approval' = [NoApproval EXCEPT !.status = "pending", !.rev = revision + 1,
                                    !.role = r, !.granted = granted]
  /\ grant' = IF granted THEN [grant EXCEPT ![revision + 1] = "accepted"] ELSE grant
  /\ UNCHANGED <<asking, history>>

(* submitProgress without a proposal: the active flow is completed. *)
CompleteFlow ==
  /\ ~asking
  /\ approval = NoApproval
  /\ history # <<>>
  /\ revision < MaxRevision
  /\ revision' = revision + 1
  /\ UNCHANGED <<approval, asking, history, grant>>

(* assertRouteAuthorized *)
RouteAuthorized(r) == ~asking /\ Pending /\ approval.role = r /\ approval.rev = revision

(* claimDispatch *)
Claim(r, m) ==
  /\ RouteAuthorized(r)
  /\ approval' = [approval EXCEPT !.status = "dispatching", !.msg = m]
  /\ UNCHANGED <<revision, asking, history, grant>>

Unclaimed == [approval EXCEPT !.status = "pending", !.msg = NoMessage, !.unconfirmed = FALSE]

(* releaseDispatch: only the claim of this very message. *)
Release(m) ==
  /\ approval' = IF Claimed(m) THEN Unclaimed ELSE approval
  /\ UNCHANGED <<revision, asking, history, grant>>

(* markDispatchUnconfirmed *)
MarkUnconfirmed(m) ==
  /\ approval' = IF Claimed(m) THEN [approval EXCEPT !.unconfirmed = TRUE] ELSE approval
  /\ UNCHANGED <<revision, asking, history, grant>>

(* abandonPendingApprovals *)
Abandon == grant' = IF approval.granted THEN [grant EXCEPT ![approval.rev] = "abandoned"]
                                        ELSE grant

(* cancelPendingDispatch: a claim that may still be confirmed is kept. *)
CancelAllowed == Dispatching => approval.unconfirmed

(* mutant of Cancel: the user's record keeps its status *)
CancelKeepsGrant ==
  /\ CancelAllowed
  /\ approval' = NoApproval
  /\ UNCHANGED <<revision, asking, history, grant>>

Cancel ==
  /\ CancelAllowed
  /\ approval' = NoApproval
  /\ Abandon
  /\ UNCHANGED <<revision, asking, history>>

(* confirmDispatch; "manual" is the user's Confirm Executed. *)
ConfirmAllowed(m, source) ==
  /\ ~asking
  /\ Claimed(m)
  /\ source = "manual" => approval.unconfirmed
  /\ approval.rev = revision

Confirm(m, source) ==
  /\ ConfirmAllowed(m, source)
  /\ history' = Append(history, [rev |-> approval.rev, role |-> approval.role, msg |-> m,
                                 source |-> source, granted |-> approval.granted])
  /\ grant' = IF approval.granted THEN [grant EXCEPT ![approval.rev] = "consumed"] ELSE grant
  /\ approval' = NoApproval
  /\ UNCHANGED <<revision, asking>>

(* requestUserInput: refused while a claim is being delivered. *)
AskUser ==
  /\ ~Dispatching
  /\ asking' = TRUE
  /\ approval' = NoApproval
  /\ Abandon
  /\ UNCHANGED <<revision, history>>

(* resolveUserInput *)
ResolveQuestion ==
  /\ asking' = FALSE
  /\ UNCHANGED <<revision, approval, history, grant>>

(* recoverTask: a claim whose message is recorded as delivered keeps its   *)
(* message and waits for the user, any other is given back.                *)
RecoverClaim(delivered) ==
  /\ approval' = IF ~Dispatching THEN approval
                 ELSE IF delivered THEN [approval EXCEPT !.unconfirmed = TRUE]
                 ELSE Unclaimed
  /\ UNCHANGED <<revision, asking, history, grant>>
-----------------------------------------------------------------------------
ApprovalNext ==
  \/ \E r \in Roles, g \in BOOLEAN : Approve(r, g)
  \/ CompleteFlow
  \/ \E r \in Roles, m \in Messages : Claim(r, m)
  \/ \E m \in Messages : Release(m) \/ MarkUnconfirmed(m)
  \/ \E m \in Messages, s \in {"hook", "manual"} : Confirm(m, s)
  \/ Cancel \/ AskUser \/ ResolveQuestion
  \/ \E d \in BOOLEAN : RecoverClaim(d)

ApprovalSpec == ApprovalInit /\ [][ApprovalNext]_approvalVars
-----------------------------------------------------------------------------
(* An open question and an approval exclude each other: what was approved  *)
(* before the question can never be dispatched after it.                   *)
QuestionExcludesApproval == asking => approval = NoApproval

(* The approval belongs to the revision on disk, and that revision has no  *)
(* row yet: no approval is dispatched from a superseded document, or twice.*)
ApprovalIsCurrent ==
  approval # NoApproval =>
    /\ approval.rev = revision
    /\ \A i \in 1..Len(history) : history[i].rev < approval.rev

(* Each accepted revision gives at most one row, in the order accepted.    *)
OneRowPerApproval ==
  \A i, j \in 1..Len(history) : i < j => history[i].rev < history[j].rev

(* A user's one-time record is spent by the row of its own revision and by *)
(* no other; an unspent one still has its approval; an abandoned one never *)
(* reached the history.                                                    *)
GrantSpentByItsRow ==
  \A v \in Revisions :
    /\ grant[v] = "consumed" <=> \E i \in 1..Len(history) : history[i].rev = v /\ history[i].granted
    /\ grant[v] = "accepted" <=> approval # NoApproval /\ approval.rev = v /\ approval.granted
    /\ grant[v] = "abandoned" => \A i \in 1..Len(history) : history[i].rev # v

(* A spent or abandoned record is never revived ("The canceled approval is *)
(* never restored").                                                        *)
GrantFinal ==
  [][\A v \in Revisions : grant[v] \in {"consumed", "abandoned"} => grant'[v] = grant[v]]_approvalVars
=============================================================================
