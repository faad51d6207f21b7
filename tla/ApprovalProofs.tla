--------------------------- MODULE ApprovalProofs ---------------------------
(***************************************************************************)
(* Proofs about the two users of DispatchApproval: about MessageDispatch,  *)
(* for every set of roles, any number of messages and revisions, and with  *)
(* every kind of fault allowed, except in the two theorems that name the   *)
(* faults they leave out; and about WorkflowControl, for any number of     *)
(* revisions, any flows asked for and any artifacts and Gate results.      *)
(***************************************************************************)
EXTENDS MessageDispatch, WorkflowControl, TLAPS, WellFoundedInduction

-----------------------------------------------------------------------------
(* The approval by itself: DispatchApproval. *)

(* No row is newer than the document it was dispatched from. *)
RowsFromAcceptedRevisions == \A i \in 1..Len(history) : history[i].rev <= revision

(* Where the one-time record of every revision stands: unused above the    *)
(* current revision, and with an approval open, "accepted" exactly when    *)
(* the approval carries it.                                                *)
GrantFollowsApproval ==
  /\ \A v \in Revisions : grant[v] # "none" => v <= revision
  /\ approval # NoApproval =>
       grant[approval.rev] = IF approval.granted THEN "accepted" ELSE "none"

AInv == /\ ApprovalTypeOK
        /\ QuestionExcludesApproval
        /\ ApprovalIsCurrent
        /\ OneRowPerApproval
        /\ GrantSpentByItsRow
        /\ RowsFromAcceptedRevisions
        /\ GrantFollowsApproval

LEMMA ApprovalInitInv == ApprovalInit => AInv
<1>. SUFFICES ASSUME ApprovalInit PROVE AInv
  OBVIOUS
<1> USE RevisionAssumption DEF ApprovalInit, Revisions
<1>1. history \in Seq(Row) /\ Len(history) = 0
  OBVIOUS
<1>2. ApprovalTypeOK
  <2>1. revision \in 0..MaxRevision
    OBVIOUS
  <2>3. asking \in BOOLEAN
    BY Zenon
  <2>2. grant \in [Revisions -> GrantStatus]
    BY DEF GrantStatus
  <2>. QED
    BY <1>1, <2>1, <2>2, <2>3 DEF ApprovalTypeOK
<1>3. QuestionExcludesApproval /\ ApprovalIsCurrent /\ OneRowPerApproval
  BY <1>1 DEF QuestionExcludesApproval, ApprovalIsCurrent, OneRowPerApproval
<1>4. GrantSpentByItsRow /\ RowsFromAcceptedRevisions /\ GrantFollowsApproval
  BY <1>1 DEF GrantSpentByItsRow, RowsFromAcceptedRevisions, GrantFollowsApproval
<1>. QED
  BY <1>2, <1>3, <1>4 DEF AInv

(* NoApproval is not an approval: they differ in their status. *)
LEMMA NoApprovalIsNone == NoApproval.status = "none" /\ NoApproval \notin Approval
BY DEF NoApproval, Approval

-----------------------------------------------------------------------------
(* The steps that touch neither the history nor a record. *)

LEMMA SameRecords ==
  ASSUME AInv, UNCHANGED <<revision, history, grant>>,
         \/ UNCHANGED approval
         \/ /\ approval # NoApproval /\ approval' \in Approval
            /\ approval'.rev = approval.rev /\ approval'.granted = approval.granted,
         asking' \in BOOLEAN, asking' => asking
  PROVE  AInv'
BY NoApprovalIsNone
   DEF AInv, ApprovalTypeOK, QuestionExcludesApproval, ApprovalIsCurrent, OneRowPerApproval,
       GrantSpentByItsRow, RowsFromAcceptedRevisions, GrantFollowsApproval

(* The rows of a history are rows, and their revisions are numbers. *)
LEMMA RowTypes ==
  ASSUME history \in Seq(Row)
  PROVE  \A i \in 1..Len(history) : history[i] \in Row /\ history[i].rev \in Nat
<1>1. \A row \in Row : row.rev \in Nat
  BY RevisionAssumption DEF Row, Revisions
<1>2. \A i \in 1..Len(history) : history[i] \in Row
  OBVIOUS
<1>. QED
  BY <1>1, <1>2

LEMMA ApproveInv ==
  ASSUME AInv, NEW r \in Roles, NEW g \in BOOLEAN, Approve(r, g)
  PROVE  AInv'
<1> USE RevisionAssumption, NoApprovalIsNone DEF AInv, Approve, Revisions, GrantStatus
<1> DEFINE v == revision + 1
<1>1. /\ revision \in Nat /\ v \in Revisions /\ approval' \in Approval
      /\ approval'.rev = v /\ approval'.granted = g /\ approval' # NoApproval
  <2>1. revision \in Nat /\ v \in Revisions
    BY DEF ApprovalTypeOK
  <2>2. approval' = [status |-> "pending", rev |-> v, role |-> r, msg |-> NoMessage,
                     unconfirmed |-> FALSE, granted |-> g]
    BY DEF NoApproval
  <2> HIDE DEF Approve, AInv
  <2>3. approval'.rev = v /\ approval'.granted = g /\ approval'.status = "pending"
    BY <2>2
  <2>4. approval' \in Approval
    BY <2>1, <2>2 DEF Approval
  <2>. QED
    BY <2>1, <2>3, <2>4
<1>2. grant' \in [Revisions -> GrantStatus] /\ grant[v] = "none"
      /\ \A u \in Revisions : grant'[u] = IF u = v /\ g THEN "accepted" ELSE grant[u]
  BY <1>1 DEF ApprovalTypeOK, GrantFollowsApproval
<1>3. ApprovalTypeOK'
  BY <1>1, <1>2 DEF ApprovalTypeOK
<1>4. QuestionExcludesApproval' /\ OneRowPerApproval'
  BY DEF QuestionExcludesApproval, OneRowPerApproval
<1>5. ApprovalIsCurrent' /\ RowsFromAcceptedRevisions'
  BY <1>1, RowTypes DEF ApprovalTypeOK, ApprovalIsCurrent, RowsFromAcceptedRevisions
<1>6. GrantFollowsApproval'
  BY <1>1, <1>2 DEF GrantFollowsApproval
<1>7. GrantSpentByItsRow'
  <2>. SUFFICES ASSUME NEW u \in Revisions
       PROVE /\ grant'[u] = "consumed"
                 <=> \E i \in 1..Len(history) : history[i].rev = u /\ history[i].granted
             /\ grant'[u] = "accepted" <=> approval'.rev = u /\ approval'.granted
             /\ grant'[u] = "abandoned" => \A i \in 1..Len(history) : history[i].rev # u
    BY <1>1 DEF GrantSpentByItsRow
  <2>1. CASE u # v
    BY <1>1, <1>2, <2>1 DEF GrantSpentByItsRow
  <2>2. CASE u = v
    BY <1>1, <1>2, <2>2 DEF GrantSpentByItsRow
  <2>. QED
    BY <2>1, <2>2
<1>. QED
  BY <1>3, <1>4, <1>5, <1>6, <1>7

LEMMA CompleteFlowInv == ASSUME AInv, CompleteFlow PROVE AInv'
<1> USE RevisionAssumption DEF AInv, CompleteFlow, Revisions
<1>1. ApprovalTypeOK' /\ RowsFromAcceptedRevisions'
  BY RowTypes DEF ApprovalTypeOK, RowsFromAcceptedRevisions
<1>2. QuestionExcludesApproval' /\ ApprovalIsCurrent' /\ OneRowPerApproval'
  BY DEF QuestionExcludesApproval, ApprovalIsCurrent, OneRowPerApproval
<1>3. GrantSpentByItsRow' /\ GrantFollowsApproval'
  BY DEF GrantSpentByItsRow, GrantFollowsApproval, ApprovalTypeOK
<1>. QED
  BY <1>1, <1>2, <1>3

LEMMA ClaimInv ==
  ASSUME AInv, NEW r \in Roles, NEW m \in Messages, Claim(r, m)
  PROVE  AInv'
<1>. approval # NoApproval /\ approval' \in Approval
     /\ approval'.rev = approval.rev /\ approval'.granted = approval.granted
  BY NoApprovalIsNone DEF Claim, RouteAuthorized, Pending, AInv, ApprovalTypeOK, Approval
<1>. QED
  BY SameRecords DEF Claim, AInv, ApprovalTypeOK

(* Release and MarkUnconfirmed change a claim in place, as RecoverClaim does. *)
LEMMA ClaimChangesInv ==
  ASSUME AInv, NEW m \in Messages, Release(m) \/ MarkUnconfirmed(m)
  PROVE  AInv'
<1>1. approval' = approval \/ (approval # NoApproval /\ approval' \in Approval
        /\ approval'.rev = approval.rev /\ approval'.granted = approval.granted)
  BY NoApprovalIsNone
     DEF Release, MarkUnconfirmed, Claimed, Dispatching, Unclaimed, AInv,
         ApprovalTypeOK, Approval
<1>2. UNCHANGED <<revision, asking, history, grant>>
  BY DEF Release, MarkUnconfirmed
<1>. QED
  BY <1>1, <1>2, SameRecords DEF AInv, ApprovalTypeOK

-----------------------------------------------------------------------------
(* The steps that end an approval. *)

(* Cancel and AskUser: the record the approval carries is abandoned. *)
LEMMA EndInv ==
  ASSUME AInv, Cancel \/ AskUser
  PROVE  AInv'
<1> USE RevisionAssumption, NoApprovalIsNone DEF AInv, Revisions, GrantStatus
<1>1. /\ approval' = NoApproval /\ UNCHANGED <<revision, history>> /\ Abandon
      /\ asking' \in BOOLEAN
  BY DEF Cancel, AskUser, ApprovalTypeOK
<1>2. /\ grant' \in [Revisions -> GrantStatus]
      /\ \A u \in Revisions : grant'[u] = IF approval # NoApproval /\ approval.granted /\ u = approval.rev
                                           THEN "abandoned" ELSE grant[u]
  BY <1>1 DEF Abandon, ApprovalTypeOK, NoApproval, Approval
<1>3. ApprovalTypeOK' /\ RowsFromAcceptedRevisions' /\ OneRowPerApproval'
  BY <1>1, <1>2 DEF ApprovalTypeOK, RowsFromAcceptedRevisions, OneRowPerApproval
<1>4. QuestionExcludesApproval' /\ ApprovalIsCurrent'
  BY <1>1 DEF QuestionExcludesApproval, ApprovalIsCurrent
<1>5. GrantFollowsApproval'
  BY <1>1, <1>2 DEF GrantFollowsApproval, ApprovalTypeOK, Approval
<1>6. GrantSpentByItsRow'
  <2>. SUFFICES ASSUME NEW u \in Revisions
       PROVE /\ grant'[u] = "consumed"
                 <=> \E i \in 1..Len(history) : history[i].rev = u /\ history[i].granted
             /\ grant'[u] # "accepted"
             /\ grant'[u] = "abandoned" => \A i \in 1..Len(history) : history[i].rev # u
    BY <1>1 DEF GrantSpentByItsRow
  <2>1. CASE approval # NoApproval /\ approval.granted /\ u = approval.rev
    <3>1. grant[u] = "accepted" /\ grant'[u] = "abandoned"
      BY <1>2, <2>1 DEF GrantFollowsApproval
    <3>2. \A i \in 1..Len(history) : history[i].rev < u
      BY <2>1 DEF ApprovalIsCurrent
    <3>. QED
      BY <3>1, <3>2, RowTypes DEF GrantSpentByItsRow, ApprovalTypeOK
  <2>2. CASE ~(approval # NoApproval /\ approval.granted /\ u = approval.rev)
    BY <1>2, <2>2 DEF GrantSpentByItsRow
  <2>. QED
    BY <2>1, <2>2
<1>. QED
  BY <1>3, <1>4, <1>5, <1>6

LEMMA ConfirmInv ==
  ASSUME AInv, NEW m \in Messages, NEW source \in {"hook", "manual"}, Confirm(m, source)
  PROVE  AInv'
<1> USE RevisionAssumption, NoApprovalIsNone DEF AInv, Revisions, GrantStatus
<1> DEFINE row == [rev |-> approval.rev, role |-> approval.role, msg |-> m,
                   source |-> source, granted |-> approval.granted]
           n   == Len(history)
<1>1. /\ approval \in Approval /\ approval # NoApproval /\ approval.rev = revision
      /\ approval' = NoApproval /\ asking' = asking /\ ~asking /\ revision' = revision
  BY DEF Confirm, ConfirmAllowed, Claimed, Dispatching, ApprovalTypeOK
<1>2. row \in Row /\ row.rev = revision /\ row.granted = approval.granted
  BY <1>1 DEF Row, Approval
<1>3. /\ history' = Append(history, row) /\ history' \in Seq(Row) /\ n \in Nat
      /\ Len(history') = n + 1 /\ history'[n + 1] = row
      /\ \A i \in 1..n : history'[i] = history[i]
  BY <1>2 DEF Confirm, ApprovalTypeOK
<1>4. /\ grant' \in [Revisions -> GrantStatus]
      /\ \A u \in Revisions : grant'[u] = IF approval.granted /\ u = approval.rev
                                           THEN "consumed" ELSE grant[u]
  BY <1>1 DEF Confirm, ApprovalTypeOK, Approval
<1>5. \A i \in 1..n : history[i].rev \in Nat /\ history[i].rev < revision
  BY <1>1, RowTypes DEF ApprovalIsCurrent, ApprovalTypeOK
<1>6. ApprovalTypeOK'
  BY <1>1, <1>3, <1>4 DEF ApprovalTypeOK
<1>7. QuestionExcludesApproval' /\ ApprovalIsCurrent'
  BY <1>1 DEF QuestionExcludesApproval, ApprovalIsCurrent
<1>8. OneRowPerApproval' /\ RowsFromAcceptedRevisions'
  <2>. revision \in Nat
    BY DEF ApprovalTypeOK
  <2>. QED
    BY <1>1, <1>2, <1>3, <1>5 DEF OneRowPerApproval, RowsFromAcceptedRevisions
<1>9. GrantFollowsApproval'
  BY <1>1, <1>4 DEF GrantFollowsApproval, ApprovalTypeOK
<1>10. GrantSpentByItsRow'
  <2>. SUFFICES ASSUME NEW u \in Revisions
       PROVE /\ grant'[u] = "consumed"
                 <=> \E i \in 1..n + 1 : history'[i].rev = u /\ history'[i].granted
             /\ grant'[u] # "accepted"
             /\ grant'[u] = "abandoned" => \A i \in 1..n + 1 : history'[i].rev # u
    BY <1>1, <1>3 DEF GrantSpentByItsRow
  <2>1. CASE u = revision
    <3>1. grant'[u] = IF approval.granted THEN "consumed" ELSE "none"
      BY <1>1, <1>4, <2>1 DEF GrantFollowsApproval
    <3>2. \A i \in 1..n : history'[i].rev # u
      BY <1>3, <1>5, <2>1
    <3>. QED
      BY <1>2, <1>3, <2>1, <3>1, <3>2
  <2>2. CASE u # revision
    <3>1. grant'[u] = grant[u]
      BY <1>1, <1>4, <2>2
    <3>. QED
      BY <1>1, <1>2, <1>3, <2>2, <3>1 DEF GrantSpentByItsRow
  <2>. QED
    BY <2>1, <2>2
<1>. QED
  BY <1>6, <1>7, <1>8, <1>9, <1>10

LEMMA ApprovalStepInv == ASSUME AInv, [ApprovalNext]_approvalVars PROVE AInv'
<1>1. CASE ResolveQuestion
  BY <1>1, SameRecords DEF ResolveQuestion
<1>2. CASE UNCHANGED approvalVars
  BY <1>2, SameRecords DEF approvalVars, AInv, ApprovalTypeOK
<1>3. CASE \E m \in Messages : Release(m) \/ MarkUnconfirmed(m)
  BY <1>3, ClaimChangesInv
<1>4. CASE \E d \in BOOLEAN : RecoverClaim(d)
  <2>1. PICK d \in BOOLEAN : RecoverClaim(d)
    BY <1>4
  <2>2. approval' = approval \/ (approval # NoApproval /\ approval' \in Approval
          /\ approval'.rev = approval.rev /\ approval'.granted = approval.granted)
    BY <2>1, NoApprovalIsNone
       DEF RecoverClaim, Dispatching, Unclaimed, AInv, ApprovalTypeOK, Approval
  <2>. QED
    BY <2>1, <2>2, SameRecords DEF RecoverClaim, AInv, ApprovalTypeOK
<1>. QED
  BY <1>1, <1>2, <1>3, <1>4, ApproveInv, CompleteFlowInv, ClaimInv, EndInv, ConfirmInv
     DEF ApprovalNext
-----------------------------------------------------------------------------
LEMMA ApprovalInductive == ApprovalSpec => []AInv
BY ApprovalInitInv, ApprovalStepInv, PTL DEF ApprovalSpec

(* Every variable of the approval keeps its type. *)
THEOREM ApprovalIsTyped == ApprovalSpec => []ApprovalTypeOK
<1>1. AInv => ApprovalTypeOK
  BY DEF AInv
<1>. QED
  BY <1>1, ApprovalInductive, PTL

(* requestUserInput and submitProgress exclude each other's outcome: what  *)
(* was approved before a question is never dispatched after it.            *)
THEOREM QuestionAndApprovalExclude == ApprovalSpec => []QuestionExcludesApproval
<1>1. AInv => QuestionExcludesApproval
  BY DEF AInv
<1>. QED
  BY <1>1, ApprovalInductive, PTL

(* confirmDispatch writes at most one row for each accepted revision, in   *)
(* the order the revisions were accepted.                                  *)
THEOREM OneRowForEachApproval == ApprovalSpec => [](ApprovalIsCurrent /\ OneRowPerApproval)
<1>1. AInv => ApprovalIsCurrent /\ OneRowPerApproval
  BY DEF AInv
<1>. QED
  BY <1>1, ApprovalInductive, PTL

(* The user's one-time record is consumed by the row of its own revision   *)
(* and by no other (confirmDispatch, abandonPendingApprovals).             *)
THEOREM GrantIsSpentOnce == ApprovalSpec => []GrantSpentByItsRow
<1>1. AInv => GrantSpentByItsRow
  BY DEF AInv
<1>. QED
  BY <1>1, ApprovalInductive, PTL

LEMMA GrantStep ==
  ASSUME AInv, [ApprovalNext]_approvalVars, NEW v \in Revisions,
         grant[v] \in {"consumed", "abandoned"}
  PROVE  grant'[v] = grant[v]
<1> USE RevisionAssumption, NoApprovalIsNone DEF AInv
<1>1. CASE grant' = grant
  BY <1>1
<1>2. CASE \E r \in Roles, g \in BOOLEAN : Approve(r, g)
  <2>. v <= revision /\ revision \in Nat /\ v \in Nat
    BY DEF GrantFollowsApproval, ApprovalTypeOK, Revisions
  <2>. QED
    BY <1>2 DEF Approve, ApprovalTypeOK
<1>3. CASE Cancel \/ AskUser \/ \E m \in Messages, s \in {"hook", "manual"} : Confirm(m, s)
  <2>1. CASE approval # NoApproval /\ approval.granted
    <3>1. grant[approval.rev] = "accepted"
      BY <2>1 DEF GrantFollowsApproval
    <3>. QED
      BY <1>3, <3>1 DEF Cancel, AskUser, Abandon, Confirm, ApprovalTypeOK
  <2>2. CASE ~(approval # NoApproval /\ approval.granted)
    <3>1. ~approval.granted
      BY <2>2 DEF NoApproval
    <3>. QED
      BY <1>3, <3>1 DEF Cancel, AskUser, Abandon, Confirm
  <2>. QED
    BY <2>1, <2>2
<1>. QED
  BY <1>1, <1>2, <1>3
     DEF ApprovalNext, approvalVars, CompleteFlow, Claim, Release, MarkUnconfirmed,
         ResolveQuestion, RecoverClaim

(* "The canceled approval is never restored": a spent or abandoned record  *)
(* keeps its status for ever.                                              *)
THEOREM SpentGrantsStaySpent == ApprovalSpec => GrantFinal
<1>1. AInv /\ [ApprovalNext]_approvalVars =>
        [\A v \in Revisions : grant[v] \in {"consumed", "abandoned"} => grant'[v] = grant[v]]_approvalVars
  BY GrantStep
<1>. QED
  BY <1>1, ApprovalInductive, PTL DEF ApprovalSpec, GrantFinal

-----------------------------------------------------------------------------
(* Delivery: MessageDispatch. *)

(* A request that holds the message lock works on a message, and a listed  *)
(* one has a role to claim for.                                            *)
HolderHasWork == /\ holder.step # "free" => holder.msg \in Messages
                 /\ holder.step = "listed" => holder.role \in Roles

DInv == AInv /\ MessageTypeOK /\ HolderHasWork

LEMMA DispatchInit == Init => DInv
<1>. SUFFICES ASSUME Init PROVE DInv
  OBVIOUS
<1> USE DispatchAssumption, RevisionAssumption DEF Init
<1>1. AInv
  BY ApprovalInitInv
<1>2. [m \in Messages |-> NoEntry] \in [Messages -> Entry]
  BY DEF NoEntry, Entry, Stages
<1>3. holder \in Holder /\ HolderHasWork
  BY DEF Free, Holder, HolderSteps, HolderHasWork
<1>4. MessageTypeOK
  BY <1>2, <1>3 DEF MessageTypeOK, Idle
<1>. QED
  BY <1>1, <1>4, <1>3 DEF DInv

(* Every step of delivery is a step of the approval, or leaves it alone.   *)
LEMMA StepUsesApproval ==
  ASSUME DInv, [Next]_vars
  PROVE  [ApprovalNext]_approvalVars
<1> USE DEF approvalVars, vars, messageVars
<1>1. CASE \E r \in Roles, g \in BOOLEAN : SubmitProgress(r, g)
  BY <1>1 DEF SubmitProgress, ApprovalNext
<1>2. CASE AskAndResolve
  BY <1>2 DEF AskAndResolve, ApprovalNext
<1>3. CASE MarkAllDone
  BY <1>3 DEF MarkAllDone, ApprovalNext
<1>4. CASE ClaimRoute
  BY <1>4 DEF ClaimRoute, ApprovalNext, DInv, HolderHasWork
<1>5. CASE SubmitToTerminal
  BY <1>5 DEF SubmitToTerminal, ApprovalNext, DInv, HolderHasWork
<1>6. CASE ConfirmPasted
  BY <1>6 DEF ConfirmPasted, ApprovalNext, DInv, HolderHasWork
<1>7. CASE \E r \in Roles : PasteRoute(r)
  <2>1. PICK r \in Roles : PasteRoute(r)
    BY <1>7
  <2>2. NextId \in Messages
    BY <2>1, DispatchAssumption DEF PasteRoute, NextId, DInv, MessageTypeOK
  <2>. QED
    BY <2>1, <2>2 DEF PasteRoute, ApprovalNext
<1>8. CASE \E m \in Messages : HookArrives(m) \/ ConfirmExecuted(m) \/ MonitorEnds(m)
  BY <1>8 DEF HookArrives, ConfirmExecuted, MonitorEnds, ApprovalNext
<1>9. CASE RecoverWorkflow
  <2>. DEFINE d == approval.msg # NoMessage /\ log[approval.msg].stage \in {"delivered", "accepted", "pasted"}
  <2>1. RecoverClaim(d) /\ d \in BOOLEAN
    BY <1>9 DEF RecoverWorkflow
  <2>. HIDE DEF d
  <2>. QED
    BY <2>1 DEF ApprovalNext
<1>10. CASE \/ SetMode \/ DeleteMessageHistory \/ LogDispatching \/ MarkRunning \/ LogDelivered
            \/ RequestFails \/ LogAccepted \/ Crash \/ ReadForRecovery \/ RecoverMessages
            \/ \E r \in Roles : WriteRoute(r) \/ ListRoute(r) \/ RoleStarts(r) \/ RoleStops(r)
            \/ \E m \in Messages : LoseHook(m)
  BY <1>10 DEF SetMode, DeleteMessageHistory, LogDispatching, MarkRunning, LogDelivered,
     RequestFails, LogAccepted, Crash, ReadForRecovery, RecoverMessages, WriteRoute,
     ListRoute, RoleStarts, RoleStops, LoseHook
<1>11. CASE UNCHANGED vars
  BY <1>11
<1>. QED
  BY <1>1, <1>2, <1>3, <1>4, <1>5, <1>6, <1>7, <1>8, <1>9, <1>10, <1>11 DEF Next, ScanStep
-----------------------------------------------------------------------------
(* Helpers about the values the steps build. *)

LEMMA NextIdIsMessage ==
  ASSUME MessageTypeOK, lastId < MaxMessages
  PROVE  NextId \in Messages /\ NextId \in 0..MaxMessages
BY DispatchAssumption DEF MessageTypeOK, NextId

LEMMA FreeIsHolder == Free \in Holder /\ Free.step = "free"
BY RevisionAssumption DEF Free, Holder, HolderSteps

LEMMA EntriesAreEntries ==
  /\ NoEntry \in Entry
  /\ \A st \in Stages, r \in Roles \cup {NoRole}, w \in 0..MaxRevision :
       [stage |-> st, role |-> r, work |-> w] \in Entry
  /\ \A e \in Entry : Recovered(e) \in Entry
BY RevisionAssumption DEF NoEntry, Entry, Stages, Recovered

LEMMA IdleIsRecovery ==
  /\ Idle \in [phase : {"idle", "messages", "workflow"}, read : [Messages -> Entry]]
  /\ [Idle EXCEPT !.phase = "workflow"] \in
       [phase : {"idle", "messages", "workflow"}, read : [Messages -> Entry]]
BY EntriesAreEntries DEF Idle

(* A request goes on with the message it has, or releases the lock.        *)
LEMMA HolderGoesOn ==
  ASSUME holder \in Holder, HolderHasWork, holder.step # "free",
         NEW st \in HolderSteps \ {"listed"}, HoldAt(st)
  PROVE  holder' \in Holder /\ HolderHasWork'
<1>1. holder' \in Holder
  BY DEF HoldAt, Holder
<1>2. holder'.step = st /\ holder'.msg = holder.msg
  BY DEF HoldAt, Holder
<1>. QED
  BY <1>1, <1>2 DEF HolderHasWork

LEMMA HolderUnlocks ==
  ASSUME Unlock
  PROVE  holder' \in Holder /\ HolderHasWork'
BY FreeIsHolder DEF Unlock, HolderHasWork

LEMMA StepKeepsTypes ==
  ASSUME DInv, [Next]_vars
  PROVE  MessageTypeOK' /\ HolderHasWork'
<1> USE EntriesAreEntries, FreeIsHolder
    DEF DInv, MessageTypeOK, HolderHasWork
<1>1. CASE \/ \E r \in Roles, g \in BOOLEAN : SubmitProgress(r, g)
           \/ AskAndResolve \/ UNCHANGED vars
  BY <1>1 DEF SubmitProgress, AskAndResolve, messageVars, vars
<1>2. CASE SetMode
  BY <1>2 DEF SetMode
<1>3. CASE MarkAllDone
  BY <1>3, RevisionAssumption DEF MarkAllDone
<1>4. CASE DeleteMessageHistory
  BY <1>4 DEF DeleteMessageHistory
<1>5. CASE \E r \in Roles : WriteRoute(r)
  BY <1>5 DEF WriteRoute, AInv, ApprovalTypeOK
<1>6. CASE \E r \in Roles : ListRoute(r)
  <2>1. PICK r \in Roles : ListRoute(r)
    BY <1>6
  <2>2. NextId \in Messages /\ NextId \in 0..MaxMessages
    BY <2>1, NextIdIsMessage DEF ListRoute
  <2>3. holder' \in Holder /\ holder'.role \in Roles /\ holder'.msg \in Messages
    BY <2>1, <2>2 DEF ListRoute, Holder, HolderSteps
  <2>. QED
    BY <2>1, <2>2, <2>3 DEF ListRoute
<1>7. CASE ClaimRoute
  <2>1. holder' \in Holder /\ HolderHasWork'
    BY <1>7, HolderGoesOn, HolderUnlocks DEF ClaimRoute, HolderSteps
  <2>2. claims' \in [Messages -> 0..MaxRevision]
    BY <1>7, RevisionAssumption
       DEF ClaimRoute, RouteAuthorized, Pending, AInv, ApprovalTypeOK
  <2>. QED
    BY <1>7, <2>1, <2>2 DEF ClaimRoute
<1>8. CASE LogDispatching
  <2>1. holder' \in Holder /\ HolderHasWork'
    BY <1>8, HolderGoesOn DEF LogDispatching, HolderSteps
  <2>2. log' \in [Messages -> Entry]
    BY <1>8 DEF LogDispatching, Holder, Stages
  <2>. QED
    BY <1>8, <2>1, <2>2 DEF LogDispatching
<1>9. CASE SubmitToTerminal
  <2>1. holder' \in Holder /\ HolderHasWork'
    BY <1>9, HolderGoesOn, HolderUnlocks DEF SubmitToTerminal, HolderSteps
  <2>2. box' \in [Roles -> Messages \cup {NoMessage}]
    BY <1>9 DEF SubmitToTerminal, Holder
  <2>. QED
    BY <1>9, <2>1, <2>2 DEF SubmitToTerminal
<1>10. CASE MarkRunning
  <2>1. holder' \in Holder /\ HolderHasWork'
    BY <1>10, HolderGoesOn DEF MarkRunning, HolderSteps
  <2>. QED
    BY <1>10, <2>1 DEF MarkRunning
<1>11. CASE LogDelivered \/ LogAccepted
  <2>1. log' \in [Messages -> Entry] /\ route' \in [Roles -> 0..MaxRevision]
    BY <1>11, RevisionAssumption
       DEF LogDelivered, LogAccepted, Holder, Stages, ClearMatchingRoute
  <2>. QED
    BY <1>11, <2>1 DEF LogDelivered, LogAccepted, Unlock
<1>12. CASE RequestFails
  BY <1>12 DEF RequestFails, Unlock
<1>13. CASE \E r \in Roles : PasteRoute(r)
  <2>1. PICK r \in Roles : PasteRoute(r)
    BY <1>13
  <2>2. NextId \in Messages /\ NextId \in 0..MaxMessages
    BY <2>1, NextIdIsMessage DEF PasteRoute
  <2>3. holder' \in Holder /\ holder'.role \in Roles /\ holder'.msg \in Messages
    BY <2>1, <2>2 DEF PasteRoute, Holder, HolderSteps
  <2>4. claims' \in [Messages -> 0..MaxRevision]
    BY <2>1, <2>2, RevisionAssumption
       DEF PasteRoute, Claim, RouteAuthorized, AInv, ApprovalTypeOK
  <2>. QED
    BY <2>1, <2>2, <2>3, <2>4 DEF PasteRoute
<1>14. CASE ConfirmPasted
  <2>1. holder' \in Holder /\ HolderHasWork'
    BY <1>14, HolderGoesOn, HolderUnlocks DEF ConfirmPasted, HolderSteps
  <2>. QED
    BY <1>14, <2>1 DEF ConfirmPasted
<1>15. CASE \E r \in Roles : RoleStarts(r) \/ RoleStops(r)
  BY <1>15 DEF RoleStarts, RoleStops
<1>16. CASE \E m \in Messages : LoseHook(m) \/ MonitorEnds(m)
  BY <1>16 DEF LoseHook, MonitorEnds
<1>17. CASE \E m \in Messages : HookArrives(m) \/ ConfirmExecuted(m)
  <2>1. PICK m \in Messages : HookArrives(m) \/ ConfirmExecuted(m)
    BY <1>17
  <2>2. CASE holder' = holder
    BY <2>1, <2>2 DEF HookArrives, ConfirmExecuted
  <2>3. CASE holder' # holder
    <3>1. /\ log[m].stage = "delivered" /\ log[m] \in Entry
          /\ holder' = [step |-> "confirmed", role |-> log[m].role, msg |-> m, work |-> log[m].work]
      BY <2>1, <2>3 DEF HookArrives, ConfirmExecuted
    <3>2. holder' \in Holder /\ holder'.step = "confirmed" /\ holder'.msg = m
      BY <3>1 DEF Holder, HolderSteps, Entry
    <3>. QED
      BY <2>1, <3>2 DEF HookArrives, ConfirmExecuted
  <2>. QED
    BY <2>2, <2>3
<1>18. CASE Crash
  BY <1>18, IdleIsRecovery DEF Crash
<1>19. CASE ReadForRecovery
  BY <1>19 DEF ReadForRecovery
<1>20. CASE RecoverMessages
  <2>1. recovery' \in [phase : {"idle", "messages", "workflow"}, read : [Messages -> Entry]]
    BY <1>20, IdleIsRecovery DEF RecoverMessages
  <2>2. log' \in [Messages -> Entry]
    BY <1>20 DEF RecoverMessages
  <2>. QED
    BY <1>20, <2>1, <2>2 DEF RecoverMessages
<1>21. CASE RecoverWorkflow
  BY <1>21, IdleIsRecovery DEF RecoverWorkflow
<1>. QED
  BY <1>1, <1>2, <1>3, <1>4, <1>5, <1>6, <1>7, <1>8, <1>9, <1>10, <1>11, <1>12, <1>13,
     <1>14, <1>15, <1>16, <1>17, <1>18, <1>19, <1>20, <1>21 DEF Next, ScanStep
-----------------------------------------------------------------------------
LEMMA DispatchInductive == Spec => []DInv
<1>1. DInv /\ [Next]_vars => DInv'
  BY StepUsesApproval, StepKeepsTypes, ApprovalStepInv DEF DInv
<1>. QED
  BY <1>1, DispatchInit, PTL DEF Spec

(* Every variable of the composed system keeps its type. *)
THEOREM DispatchIsTyped == Spec => []TypeOK
<1>1. DInv => TypeOK
  BY DEF DInv, AInv, TypeOK
<1>. QED
  BY <1>1, DispatchInductive, PTL

(* Scans, hooks, monitors, user requests, crashes and recovery together    *)
(* (message-service, runtime-recovery-service) use the approval only as    *)
(* DispatchApproval allows.                                                *)
THEOREM DispatchUsesApproval == Spec => UsesApproval
<1>1. Init => ApprovalInit
  BY DEF Init
<1>2. DInv /\ [Next]_vars => [ApprovalNext]_approvalVars
  BY StepUsesApproval
<1>. QED
  BY <1>1, <1>2, DispatchInductive, PTL DEF Spec, UsesApproval, ApprovalSpec

(* So what the approval promises holds of delivery, faults included: a     *)
(* question excludes an approval, an approval gives one row, and a user's  *)
(* one-time record is spent by the row of its own revision.                *)
THEOREM DispatchKeepsApprovalPromises ==
  Spec => [](QuestionExcludesApproval /\ OneRowPerApproval /\ GrantSpentByItsRow)
<1>1. DInv => QuestionExcludesApproval /\ OneRowPerApproval /\ GrantSpentByItsRow
  BY DEF DInv, AInv
<1>. QED
  BY <1>1, DispatchInductive, PTL
-----------------------------------------------------------------------------
(***************************************************************************)
(* A claim has an owner.                                                   *)
(***************************************************************************)

(* A delivery watches its message before it lets go of it and not earlier; *)
(* what is delivered or watched has an id already given.                   *)
WatchedWhenMarked ==
  /\ holder.step = "marked" => holder.msg \in monitors
  /\ holder.step \in {"listed", "claimed", "logged", "submitted"} => holder.msg \notin monitors
  /\ holder.step \in {"listed", "claimed", "logged", "submitted"} => holder.msg <= lastId
  /\ \A m \in monitors : m <= lastId

(* A request that has its confirmation is past the claim. *)
ConfirmedIsOver == holder.step = "confirmed" => ~Dispatching

(* Under a claim that a delivery or a monitor looks after, the log shows   *)
(* the message and not its acceptance, so that the monitor's end reports   *)
(* it; unless recovery is about to judge the claim anyway.                 *)
Shown(e) == e.stage \in {"dispatching", "delivered", "failed"}
Watched(m) == \/ m \in monitors
              \/ holder.msg = m /\ holder.step \in {"logged", "submitted", "marked"}
LogShowsClaim ==
  Dispatching /\ Watched(approval.msg) /\ recovery.phase # "workflow" /\ ~approval.unconfirmed
    => Shown(log[approval.msg])

LEMMA HoldKeeps ==
  ASSUME holder \in Holder, NEW st \in HolderSteps, HoldAt(st)
  PROVE  holder'.step = st /\ holder'.msg = holder.msg
BY DEF HoldAt, Holder

LEMMA WatchedStep ==
  ASSUME DInv, WatchedWhenMarked, [Next]_vars
  PROVE  WatchedWhenMarked'
<1> USE DispatchAssumption DEF DInv, MessageTypeOK, HolderHasWork, WatchedWhenMarked
<1>1. CASE UNCHANGED <<holder, monitors, lastId>>
  BY <1>1
<1>2. CASE \E r \in Roles : ListRoute(r) \/ PasteRoute(r)
  <2>1. /\ lastId' = lastId + 1 /\ monitors' = monitors
        /\ holder'.step \in {"listed", "pasted"} /\ holder'.msg = lastId + 1
    BY <1>2 DEF ListRoute, PasteRoute, NextId
  <2>2. lastId \in Nat /\ \A m \in monitors : m \in Nat
    OBVIOUS
  <2>. QED
    BY <2>1, <2>2
<1>3. CASE ClaimRoute \/ LogDispatching \/ SubmitToTerminal
  <2>1. /\ UNCHANGED <<lastId, monitors>>
        /\ holder.step \in {"listed", "claimed", "logged"}
    BY <1>3 DEF ClaimRoute, LogDispatching, SubmitToTerminal
  <2>2. \/ holder'.step \in {"claimed", "logged", "submitted"} /\ holder'.msg = holder.msg
        \/ holder'.step = "free"
    BY <1>3, HoldKeeps DEF ClaimRoute, LogDispatching, SubmitToTerminal, Unlock, Free, HolderSteps
  <2>. QED
    BY <2>1, <2>2
<1>4. CASE MarkRunning
  BY <1>4 DEF MarkRunning, HoldAt, Holder
<1>5. CASE LogDelivered \/ RequestFails \/ LogAccepted \/ ConfirmPasted \/ Crash
  BY <1>5 DEF LogDelivered, RequestFails, LogAccepted, ConfirmPasted, Crash, HoldAt, Unlock,
     Free, Holder
<1>6. CASE \E m \in Messages : HookArrives(m) \/ ConfirmExecuted(m) \/ MonitorEnds(m)
  <2>1. /\ lastId' = lastId /\ monitors' \subseteq monitors
        /\ holder' = holder \/ holder'.step = "confirmed"
        /\ holder = Free
    BY <1>6 DEF HookArrives, ConfirmExecuted, MonitorEnds, LockFree
  <2>. QED
    BY <2>1 DEF Free
<1>7. CASE \/ \E r \in Roles, g \in BOOLEAN : SubmitProgress(r, g)
           \/ AskAndResolve \/ SetMode \/ MarkAllDone \/ DeleteMessageHistory
           \/ \E r \in Roles : WriteRoute(r) \/ RoleStarts(r) \/ RoleStops(r)
           \/ \E m \in Messages : LoseHook(m)
           \/ ReadForRecovery \/ RecoverMessages \/ RecoverWorkflow \/ UNCHANGED vars
  BY <1>7, <1>1 DEF SubmitProgress, AskAndResolve, SetMode, MarkAllDone, DeleteMessageHistory,
     WriteRoute, RoleStarts, RoleStops, LoseHook, ReadForRecovery, RecoverMessages,
     RecoverWorkflow, messageVars, vars
<1>. QED
  BY <1>2, <1>3, <1>4, <1>5, <1>6, <1>7 DEF Next, ScanStep

(* Only a delivery or a pasted route claims, and neither is confirmed yet. *)
LEMMA ConfirmedStep ==
  ASSUME DInv, ConfirmedIsOver, [Next]_vars
  PROVE  ConfirmedIsOver'
<1> USE DEF ConfirmedIsOver, Dispatching, NoApproval
<1>1. CASE UNCHANGED holder /\ (Dispatching' => Dispatching)
  BY <1>1
<1>2. CASE ClaimRoute \/ LogDispatching \/ SubmitToTerminal \/ MarkRunning \/ LogDelivered
           \/ RequestFails \/ LogAccepted \/ Crash
  BY <1>2 DEF ClaimRoute, LogDispatching, SubmitToTerminal, MarkRunning, LogDelivered,
     RequestFails, LogAccepted, Crash, HoldAt, Unlock, Free, DInv, MessageTypeOK, Holder
<1>3. CASE ConfirmPasted
  BY <1>3 DEF ConfirmPasted, Confirm, Unlock, Free
<1>4. CASE \E r \in Roles : ListRoute(r) \/ PasteRoute(r)
  BY <1>4 DEF ListRoute, PasteRoute
<1>5. CASE \E m \in Messages : HookArrives(m) \/ ConfirmExecuted(m)
  BY <1>5, <1>1 DEF HookArrives, ConfirmExecuted, Confirm, approvalVars
<1>6. CASE \E m \in Messages : MonitorEnds(m)
  BY <1>6 DEF MonitorEnds, LockFree, Free
<1>7. CASE \E r \in Roles, g \in BOOLEAN : SubmitProgress(r, g)
  BY <1>7 DEF SubmitProgress, Approve, messageVars
<1>8. CASE AskAndResolve \/ MarkAllDone
  BY <1>8 DEF AskAndResolve, MarkAllDone, AskUser, ResolveQuestion, Cancel, messageVars
<1>9. CASE RecoverWorkflow
  BY <1>9 DEF RecoverWorkflow, RecoverClaim
<1>10. CASE \/ SetMode \/ DeleteMessageHistory
            \/ \E r \in Roles : WriteRoute(r) \/ RoleStarts(r) \/ RoleStops(r)
            \/ \E m \in Messages : LoseHook(m)
            \/ ReadForRecovery \/ RecoverMessages \/ UNCHANGED vars
  BY <1>10, <1>1 DEF SetMode, DeleteMessageHistory, WriteRoute, RoleStarts, RoleStops,
     LoseHook, ReadForRecovery, RecoverMessages, approvalVars, messageVars, vars
<1>. QED
  BY <1>2, <1>3, <1>4, <1>5, <1>6, <1>7, <1>8, <1>9, <1>10 DEF Next, ScanStep

(* The log follows the delivery; a rewrite of recovery, which may lose a   *)
(* snapshot, hands the claim to recoverTask.                               *)
LEMMA LogShowsStep ==
  ASSUME DInv, WatchedWhenMarked, ConfirmedIsOver, LogShowsClaim, [Next]_vars
  PROVE  LogShowsClaim'
<1> USE DispatchAssumption DEF LogShowsClaim, Watched, Shown, Dispatching
<1>1. CASE \/ UNCHANGED <<approval, holder, monitors, recovery, log>>
           \/ approval'.status # "dispatching"
  BY <1>1
<1>2. CASE ClaimRoute
  <2>1. CASE RouteAuthorized(holder.role)
    <3>1. /\ holder'.step = "claimed" /\ monitors' = monitors /\ holder.step = "listed"
          /\ approval' = [approval EXCEPT !.status = "dispatching", !.msg = holder.msg]
      BY <1>2, <2>1, HoldKeeps DEF ClaimRoute, Claim, HolderSteps, DInv, MessageTypeOK
    <3>2. approval'.msg = holder.msg
      BY <2>1, <3>1 DEF RouteAuthorized, Pending, DInv, AInv, ApprovalTypeOK, Approval, NoApproval
    <3>. QED
      BY <3>1, <3>2 DEF WatchedWhenMarked
  <2>2. CASE ~RouteAuthorized(holder.role)
    BY <1>2, <2>2 DEF ClaimRoute, Unlock, Free, approvalVars
  <2>. QED
    BY <2>1, <2>2
<1>3. CASE LogDispatching
  BY <1>3 DEF LogDispatching, HoldAt, approvalVars, DInv, MessageTypeOK, HolderHasWork, Holder
<1>4. CASE SubmitToTerminal
  <2>1. CASE UNCHANGED approvalVars /\ HoldAt("submitted")
    <3>1. holder'.step = "submitted" /\ holder'.msg = holder.msg
      BY <2>1, HoldKeeps DEF HolderSteps, DInv, MessageTypeOK
    <3>. QED
      BY <1>4, <2>1, <3>1 DEF SubmitToTerminal, approvalVars
  <2>2. CASE Release(holder.msg) /\ Unlock
    BY <1>4, <2>2 DEF SubmitToTerminal, Release, Claimed, Unclaimed, Unlock, Free, DInv, AInv,
       ApprovalTypeOK, Approval, NoApproval
  <2>. QED
    BY <1>4, <2>1, <2>2 DEF SubmitToTerminal
<1>5. CASE MarkRunning
  BY <1>5 DEF MarkRunning, HoldAt, approvalVars, DInv, MessageTypeOK, Holder
<1>6. CASE LogDelivered
  BY <1>6 DEF LogDelivered, Unlock, Free, approvalVars, DInv, MessageTypeOK, HolderHasWork, Holder
<1>7. CASE RequestFails
  BY <1>7 DEF RequestFails, Unlock, Free, approvalVars
<1>8. CASE LogAccepted
  BY <1>8 DEF LogAccepted, ConfirmedIsOver, approvalVars
<1>9. CASE ConfirmPasted
  <2>1. CASE Confirm(holder.msg, "hook")
    BY <2>1 DEF Confirm, NoApproval
  <2>2. CASE Release(holder.msg) /\ Unlock
    BY <1>9, <2>2 DEF ConfirmPasted, Release, Claimed, Unclaimed, Unlock, Free, DInv, AInv,
       ApprovalTypeOK, Approval, NoApproval
  <2>. QED
    BY <1>9, <2>1, <2>2 DEF ConfirmPasted
<1>10. CASE \E r \in Roles : ListRoute(r)
  BY <1>10 DEF ListRoute, LockFree, Free, approvalVars
<1>11. CASE \E r \in Roles : PasteRoute(r)
  BY <1>11 DEF PasteRoute, Claim, NextId, WatchedWhenMarked, DInv, MessageTypeOK, AInv,
     ApprovalTypeOK, Approval, RouteAuthorized, Pending, NoApproval
<1>12. CASE \E m \in Messages : HookArrives(m) \/ ConfirmExecuted(m)
  BY <1>12 DEF HookArrives, ConfirmExecuted, Confirm, NoApproval, approvalVars
<1>13. CASE \E m \in Messages : MonitorEnds(m)
  BY <1>13 DEF MonitorEnds, MarkUnconfirmed, Claimed, approvalVars, DInv, AInv, ApprovalTypeOK,
     Approval, NoApproval
<1>14. CASE \E r \in Roles, g \in BOOLEAN : SubmitProgress(r, g)
  BY <1>14 DEF SubmitProgress, Approve, NoApproval
<1>15. CASE AskAndResolve \/ MarkAllDone
  BY <1>15 DEF AskAndResolve, MarkAllDone, AskUser, ResolveQuestion, Cancel, messageVars, NoApproval
<1>16. CASE DeleteMessageHistory
  BY <1>16 DEF DeleteMessageHistory, approvalVars
<1>17. CASE RecoverWorkflow
  BY <1>17 DEF RecoverWorkflow, RecoverClaim, Unclaimed, DInv, AInv, ApprovalTypeOK, Approval,
     NoApproval
<1>18. CASE RecoverMessages
  BY <1>18 DEF RecoverMessages, Idle
<1>19. CASE ReadForRecovery
  BY <1>19 DEF ReadForRecovery, approvalVars
<1>20. CASE Crash
  BY <1>20 DEF Crash, Free
<1>21. CASE \/ SetMode
            \/ \E r \in Roles : WriteRoute(r) \/ RoleStarts(r) \/ RoleStops(r)
            \/ \E m \in Messages : LoseHook(m)
            \/ UNCHANGED vars
  BY <1>21, <1>1 DEF SetMode, WriteRoute, RoleStarts, RoleStops, LoseHook, approvalVars,
     messageVars, vars
<1>. QED
  BY <1>2, <1>3, <1>4, <1>5, <1>6, <1>7, <1>8, <1>9, <1>10, <1>11, <1>12, <1>13, <1>14, <1>15,
     <1>16, <1>17, <1>18, <1>19, <1>20, <1>21 DEF Next, ScanStep

(* Every step that starts a claim, lets go of one or loses what the log    *)
(* says of it leaves an owner behind.                                      *)
LEMMA OwnerStep ==
  ASSUME DInv, WatchedWhenMarked, ConfirmedIsOver, LogShowsClaim, ClaimHasOwner, [Next]_vars,
         FaultySteps \subseteq {"marked", "confirmed"}
  PROVE  ClaimHasOwner'
<1> USE DispatchAssumption DEF ClaimHasOwner, HolderOwns, Dispatching
<1>1. CASE \/ UNCHANGED <<approval, holder, monitors, recovery, connected>>
           \/ approval'.status # "dispatching" \/ approval'.unconfirmed
  <2>1. CASE UNCHANGED <<approval, holder, monitors, recovery, connected>>
    BY <2>1
  <2>2. CASE approval'.status # "dispatching"
    BY <2>2
  <2>3. CASE approval'.unconfirmed
    BY <2>3, Zenon
  <2>. QED
    BY <1>1, <2>1, <2>2, <2>3, Zenon
<1>2. CASE ClaimRoute
  <2>1. CASE RouteAuthorized(holder.role)
    <3>1. /\ holder'.step = "claimed" /\ holder'.msg = holder.msg
          /\ approval' = [approval EXCEPT !.status = "dispatching", !.msg = holder.msg]
      BY <1>2, <2>1, HoldKeeps DEF ClaimRoute, Claim, HolderSteps, DInv, MessageTypeOK
    <3>2. approval'.msg = holder.msg
      BY <2>1, <3>1 DEF RouteAuthorized, Pending, DInv, AInv, ApprovalTypeOK, Approval, NoApproval
    <3>. QED
      BY <3>1, <3>2
  <2>2. CASE ~RouteAuthorized(holder.role)
    BY <1>2, <2>2 DEF ClaimRoute, Unlock, approvalVars
  <2>. QED
    BY <2>1, <2>2
<1>3. CASE LogDispatching \/ MarkRunning
  <2>1. holder'.step \in {"logged", "marked"} /\ holder'.msg = holder.msg
    BY <1>3, HoldKeeps DEF LogDispatching, MarkRunning, HolderSteps, DInv, MessageTypeOK
  <2>2. /\ UNCHANGED <<approval, recovery, connected>>
        /\ holder.step \in {"claimed", "submitted"}
        /\ approval.msg \in monitors => approval.msg \in monitors'
    BY <1>3 DEF LogDispatching, MarkRunning, approvalVars
  <2>. QED
    BY <2>1, <2>2
<1>4. CASE SubmitToTerminal
  <2>1. CASE UNCHANGED approvalVars /\ HoldAt("submitted")
    <3>1. holder'.step = "submitted" /\ holder'.msg = holder.msg
      BY <2>1, HoldKeeps DEF HolderSteps, DInv, MessageTypeOK
    <3>. QED
      BY <1>4, <2>1, <3>1 DEF SubmitToTerminal, approvalVars
  <2>2. CASE Release(holder.msg) /\ Unlock
    BY <1>4, <2>2 DEF SubmitToTerminal, Release, Claimed, Unclaimed, Unlock, Free, DInv, AInv,
       ApprovalTypeOK, Approval, NoApproval
  <2>. QED
    BY <1>4, <2>1, <2>2 DEF SubmitToTerminal
<1>5. CASE LogDelivered \/ RequestFails
  <2>1. /\ UNCHANGED <<approval, monitors, recovery, connected>>
        /\ holder.step \in {"marked", "confirmed"}
    BY <1>5 DEF LogDelivered, RequestFails, approvalVars
  <2>2. Dispatching /\ HolderOwns(approval.msg) => approval.msg \in monitors
    BY <2>1 DEF WatchedWhenMarked, ConfirmedIsOver
  <2>. QED
    BY <2>1, <2>2
<1>6. CASE LogAccepted
  BY <1>6 DEF LogAccepted, ConfirmedIsOver, approvalVars
<1>7. CASE ConfirmPasted
  <2>1. CASE Confirm(holder.msg, "hook")
    BY <2>1 DEF Confirm, NoApproval
  <2>2. CASE Release(holder.msg) /\ Unlock
    BY <1>7, <2>2 DEF ConfirmPasted, Release, Claimed, Unclaimed, Unlock, Free, DInv, AInv,
       ApprovalTypeOK, Approval, NoApproval
  <2>. QED
    BY <1>7, <2>1, <2>2 DEF ConfirmPasted
<1>8. CASE \E r \in Roles : ListRoute(r)
  BY <1>8 DEF ListRoute, LockFree, Free, approvalVars
<1>9. CASE \E r \in Roles : PasteRoute(r)
  BY <1>9 DEF PasteRoute, Claim, DInv, AInv, ApprovalTypeOK, Approval, RouteAuthorized, Pending,
     NoApproval
<1>10. CASE \E m \in Messages : HookArrives(m) \/ ConfirmExecuted(m)
  <2>1. PICK m \in Messages : HookArrives(m) \/ ConfirmExecuted(m)
    BY <1>10
  <2>2. CASE Confirm(m, "hook") \/ Confirm(m, "manual")
    BY <2>2 DEF Confirm, NoApproval
  <2>3. CASE ~(Confirm(m, "hook") \/ Confirm(m, "manual"))
    BY <2>1, <2>3, <1>1 DEF HookArrives, ConfirmExecuted, approvalVars
  <2>. QED
    BY <2>2, <2>3
<1>11. CASE \E m \in Messages : MonitorEnds(m)
  <2>1. PICK m \in Messages : MonitorEnds(m)
    BY <1>11
  <2>2. CASE Claimed(m)
    <3>1. CASE recovery.phase = "workflow" \/ approval.unconfirmed
      BY <2>1, <3>1 DEF MonitorEnds, MarkUnconfirmed, approvalVars, DInv, AInv,
         ApprovalTypeOK, Approval, NoApproval
    <3>2. CASE ~(recovery.phase = "workflow" \/ approval.unconfirmed)
      <4>1. Shown(log[m])
        BY <2>1, <2>2, <3>2 DEF MonitorEnds, LogShowsClaim, Watched, Claimed
      <4>2. approval' = [approval EXCEPT !.unconfirmed = TRUE]
        BY <2>1, <2>2, <4>1 DEF MonitorEnds, Shown, Accepted, MarkUnconfirmed
      <4>. QED
        BY <2>2, <4>2 DEF Claimed, DInv, AInv, ApprovalTypeOK, Approval, NoApproval
    <3>. QED
      BY <3>1, <3>2
  <2>3. CASE ~Claimed(m)
    <3>1. UNCHANGED <<approval, holder, recovery, connected>> /\ monitors' = monitors \ {m}
      BY <2>1, <2>3 DEF MonitorEnds, MarkUnconfirmed, approvalVars
    <3>. QED
      BY <2>3, <3>1 DEF Claimed
  <2>. QED
    BY <2>2, <2>3
<1>12. CASE \E r \in Roles, g \in BOOLEAN : SubmitProgress(r, g)
  BY <1>12 DEF SubmitProgress, Approve, NoApproval
<1>13. CASE AskAndResolve \/ MarkAllDone
  <2>1. CASE AskUser \/ Cancel
    BY <2>1 DEF AskUser, Cancel, NoApproval
  <2>2. CASE ~(AskUser \/ Cancel)
    BY <1>13, <2>2, <1>1 DEF AskAndResolve, MarkAllDone, ResolveQuestion, messageVars
  <2>. QED
    BY <2>1, <2>2
<1>14. CASE RecoverWorkflow
  BY <1>14 DEF RecoverWorkflow, RecoverClaim, Unclaimed, DInv, AInv, ApprovalTypeOK, Approval,
     NoApproval
<1>15. CASE RecoverMessages \/ ReadForRecovery
  <2>1. /\ UNCHANGED <<approval, holder, monitors, connected>>
        /\ recovery.phase # "workflow" \/ recovery'.phase = "workflow"
    BY <1>15 DEF RecoverMessages, ReadForRecovery, Idle, approvalVars
  <2>. QED
    BY <2>1
<1>16. CASE Crash
  BY <1>16 DEF Crash
<1>17. CASE \/ SetMode \/ DeleteMessageHistory
            \/ \E r \in Roles : WriteRoute(r) \/ RoleStarts(r) \/ RoleStops(r)
            \/ \E m \in Messages : LoseHook(m)
            \/ UNCHANGED vars
  BY <1>17, <1>1 DEF SetMode, DeleteMessageHistory, WriteRoute, RoleStarts, RoleStops, LoseHook,
     approvalVars, messageVars, vars
<1>. QED
  BY <1>2, <1>3, <1>4, <1>5, <1>6, <1>7, <1>8, <1>9, <1>10, <1>11, <1>12, <1>13, <1>14, <1>15,
     <1>16, <1>17 DEF Next, ScanStep

(* Lost hooks, crashes, second connects and calls that throw once the      *)
(* monitor runs never leave a claim that nobody will end: Progress, Ask    *)
(* User, Mark All Done and Delete History would all refuse.                *)
THEOREM ClaimsHaveOwners ==
  ASSUME FaultySteps \subseteq {"marked", "confirmed"}
  PROVE  Spec => []ClaimHasOwner
<1> DEFINE OwnedInv == DInv /\ WatchedWhenMarked /\ ConfirmedIsOver /\ LogShowsClaim /\ ClaimHasOwner
<1>1. Init => OwnedInv
  <2>. SUFFICES ASSUME Init PROVE OwnedInv
    OBVIOUS
  <2>. QED
    BY DispatchInit DEF Init, ApprovalInit, NoApproval, Free, WatchedWhenMarked, ConfirmedIsOver,
       LogShowsClaim, ClaimHasOwner, Dispatching
<1>2. OwnedInv /\ [Next]_vars => OwnedInv'
  BY StepUsesApproval, StepKeepsTypes, ApprovalStepInv, WatchedStep, ConfirmedStep, LogShowsStep,
     OwnerStep DEF DInv
<1>. QED
  BY <1>1, <1>2, PTL DEF Spec
-----------------------------------------------------------------------------
(***************************************************************************)
(* A route file outlives its approval.                                     *)
(***************************************************************************)

(* A route, and every copy of it that delivery keeps, was written under an *)
(* accepted revision.                                                      *)
WorksAreAccepted ==
  /\ \A r \in Roles : route[r] <= revision
  /\ \A m \in Messages : log[m].work <= revision /\ recovery.read[m].work <= revision
  /\ holder.work <= revision

(* A request that clears a route after its confirmation meets an approval  *)
(* granted since, or none.                                                 *)
ConfirmedIsOlder ==
  holder.step = "confirmed" => approval = NoApproval \/ holder.work < approval.rev

(* The revision only grows. *)
LEMMA RevisionGrows ==
  ASSUME DInv, [Next]_vars
  PROVE  revision \in Nat /\ revision' \in Nat /\ revision <= revision'
<1>1. [ApprovalNext]_approvalVars /\ revision \in Nat
  BY StepUsesApproval, RevisionAssumption DEF DInv, AInv, ApprovalTypeOK
<1>2. revision' = revision \/ revision' = revision + 1
  BY <1>1, Zenon DEF ApprovalNext, approvalVars, Approve, CompleteFlow, Claim, Release,
     MarkUnconfirmed, Confirm, Cancel, AskUser, ResolveQuestion, RecoverClaim
<1>. QED
  BY <1>1, <1>2

LEMMA WorksStep ==
  ASSUME DInv, WorksAreAccepted, [Next]_vars
  PROVE  WorksAreAccepted'
<1>1. revision \in Nat /\ revision' \in Nat /\ revision <= revision'
  BY RevisionGrows
<1>2. MessageTypeOK /\ MessageTypeOK'
  BY StepKeepsTypes DEF DInv
<1>3. SUFFICES /\ \A r \in Roles : route'[r] <= revision
               /\ \A m \in Messages : log'[m].work <= revision /\ recovery'.read[m].work <= revision
               /\ holder'.work <= revision
  <2>1. \A r \in Roles : route'[r] \in Nat
    BY <1>2, RevisionAssumption DEF MessageTypeOK
  <2>2. \A m \in Messages : log'[m].work \in Nat /\ recovery'.read[m].work \in Nat
    BY <1>2, RevisionAssumption DEF MessageTypeOK, Entry
  <2>3. holder'.work \in Nat
    BY <1>2, RevisionAssumption DEF MessageTypeOK, Holder
  <2>. QED
    BY <1>1, <1>3, <2>1, <2>2, <2>3 DEF WorksAreAccepted
<1>4. 0 <= revision
  BY <1>1
<1> USE <1>2, <1>4 DEF WorksAreAccepted, MessageTypeOK
<1>5. CASE UNCHANGED <<route, log, recovery, holder>>
  BY <1>5
<1>6. CASE LogDispatching \/ MarkRunning \/ LogDelivered \/ RequestFails
  <2>1. UNCHANGED <<route, recovery>> /\ holder'.work <= revision
    BY <1>6 DEF LogDispatching, MarkRunning, LogDelivered, RequestFails, HoldAt, Unlock, Free,
       Holder
  <2>2. \A m \in Messages : log'[m].work <= revision
    BY <1>6 DEF LogDispatching, MarkRunning, LogDelivered, RequestFails
  <2>. QED
    BY <2>1, <2>2
<1>7. CASE ClaimRoute \/ SubmitToTerminal \/ ConfirmPasted
  <2>1. UNCHANGED <<route, log, recovery>> /\ holder'.work <= revision
    BY <1>7 DEF ClaimRoute, SubmitToTerminal, ConfirmPasted, HoldAt, Unlock, Free, Holder
  <2>. QED
    BY <2>1
<1>8. CASE LogAccepted
  <2>1. UNCHANGED recovery /\ holder'.work <= revision
    BY <1>8 DEF LogAccepted, Unlock, Free
  <2>2. \A m \in Messages : log'[m].work <= revision
    BY <1>8 DEF LogAccepted
  <2>3. \A r \in Roles : route'[r] <= revision
    BY <1>8 DEF LogAccepted, ClearMatchingRoute
  <2>. QED
    BY <2>1, <2>2, <2>3
<1>9. CASE \E r \in Roles : ListRoute(r) \/ PasteRoute(r)
  BY <1>9 DEF ListRoute, PasteRoute
<1>10. CASE \E m \in Messages : HookArrives(m) \/ ConfirmExecuted(m)
  <2>1. /\ UNCHANGED <<route, log, recovery>>
        /\ holder' = holder \/ \E m \in Messages : holder'.work = log[m].work
    BY <1>10 DEF HookArrives, ConfirmExecuted
  <2>. QED
    BY <2>1
<1>11. CASE MarkAllDone \/ \E r \in Roles : WriteRoute(r)
  <2>1. UNCHANGED <<log, recovery, holder>>
    BY <1>11 DEF MarkAllDone, WriteRoute
  <2>2. \A r \in Roles : route'[r] <= revision
    BY <1>1, <1>11 DEF MarkAllDone, WriteRoute
  <2>. QED
    BY <2>1, <2>2
<1>12. CASE DeleteMessageHistory
  BY <1>12 DEF DeleteMessageHistory, NoEntry
<1>13. CASE Crash
  BY <1>13 DEF Crash, Idle, Free, NoEntry
<1>14. CASE ReadForRecovery
  BY <1>14 DEF ReadForRecovery
<1>15. CASE RecoverMessages
  <2>1. UNCHANGED <<route, holder>> /\ recovery' = [Idle EXCEPT !.phase = "workflow"]
    BY <1>15 DEF RecoverMessages
  <2>2. recovery'.read = [m \in Messages |-> NoEntry]
    BY <2>1, Zenon DEF Idle
  <2>3. \A m \in Messages : Recovered(recovery.read[m]).work <= revision
    BY DEF Recovered, Entry
  <2>4. \A m \in Messages : log'[m].work <= revision
    BY <1>15, <2>3 DEF RecoverMessages
  <2>. QED
    BY <2>1, <2>2, <2>4 DEF NoEntry
<1>16. CASE RecoverWorkflow
  BY <1>16 DEF RecoverWorkflow, Idle, NoEntry
<1>17. CASE \/ \E r \in Roles, g \in BOOLEAN : SubmitProgress(r, g)
            \/ AskAndResolve \/ SetMode \/ \E m \in Messages : LoseHook(m) \/ MonitorEnds(m)
            \/ \E r \in Roles : RoleStarts(r) \/ RoleStops(r)
            \/ UNCHANGED vars
  BY <1>17, <1>5 DEF SubmitProgress, AskAndResolve, SetMode, LoseHook, MonitorEnds, RoleStarts,
     RoleStops, messageVars, vars
<1>. QED
  BY <1>6, <1>7, <1>8, <1>9, <1>10, <1>11, <1>12, <1>13, <1>14, <1>15, <1>16, <1>17
     DEF Next, ScanStep

(* An approval keeps its revision, ends, or is granted for the next one.   *)
LEMMA RevOfApproval ==
  ASSUME DInv, [Next]_vars
  PROVE  \/ approval' = NoApproval
         \/ approval # NoApproval /\ approval'.rev = approval.rev
         \/ approval = NoApproval /\ approval'.rev = revision + 1
<1>1. [ApprovalNext]_approvalVars /\ approval \in Approval \cup {NoApproval}
  BY StepUsesApproval DEF DInv, AInv, ApprovalTypeOK
<1>2. CASE \E r \in Roles, g \in BOOLEAN : Approve(r, g)
  BY <1>2 DEF Approve, NoApproval
<1>3. CASE UNCHANGED approval
  BY <1>3
<1>4. CASE \/ \E r \in Roles, m \in Messages : Claim(r, m)
           \/ \E m \in Messages : Release(m) \/ MarkUnconfirmed(m)
           \/ \E d \in BOOLEAN : RecoverClaim(d)
  <2>1. CASE approval = NoApproval
    BY <1>4, <2>1 DEF Claim, RouteAuthorized, Pending, Release, MarkUnconfirmed, Claimed,
       Dispatching, RecoverClaim, NoApproval
  <2>2. CASE approval \in Approval
    <3>1. approval # NoApproval
      BY <2>2 DEF Approval, NoApproval
    <3>2. approval'.rev = approval.rev
      BY <1>4, <2>2 DEF Approval, Claim, Release, MarkUnconfirmed, Unclaimed, RecoverClaim
    <3>. QED
      BY <3>1, <3>2
  <2>. QED
    BY <1>1, <2>1, <2>2
<1>5. CASE \/ \E m \in Messages, s \in {"hook", "manual"} : Confirm(m, s)
           \/ Cancel \/ AskUser
  BY <1>5 DEF Confirm, Cancel, AskUser
<1>. QED
  BY <1>1, <1>2, <1>3, <1>4, <1>5 DEF ApprovalNext, approvalVars, CompleteFlow, ResolveQuestion

LEMMA OlderStep ==
  ASSUME DInv, WorksAreAccepted, ConfirmedIsOlder, [Next]_vars
  PROVE  ConfirmedIsOlder'
<1> USE DEF ConfirmedIsOlder, DInv, MessageTypeOK, Holder, WorksAreAccepted
<1>1. CASE holder' = holder
  <2>1. revision \in Nat /\ holder.work \in Nat /\ holder.work <= revision
    BY RevisionGrows, RevisionAssumption
  <2>. QED
    BY <1>1, <2>1, RevOfApproval
<1>2. CASE holder'.step # "confirmed" \/ approval' = NoApproval
  BY <1>2
<1>3. CASE ClaimRoute \/ LogDispatching \/ SubmitToTerminal \/ MarkRunning \/ LogDelivered
           \/ RequestFails \/ LogAccepted \/ Crash
  BY <1>2, <1>3 DEF ClaimRoute, LogDispatching, SubmitToTerminal, MarkRunning, LogDelivered,
     RequestFails, LogAccepted, Crash, HoldAt, Unlock, Free
<1>4. CASE ConfirmPasted
  BY <1>2, <1>4 DEF ConfirmPasted, Confirm, Unlock, Free
<1>5. CASE \E r \in Roles : ListRoute(r) \/ PasteRoute(r)
  BY <1>2, <1>5 DEF ListRoute, PasteRoute
<1>6. CASE \E m \in Messages : HookArrives(m) \/ ConfirmExecuted(m)
  BY <1>1, <1>2, <1>6 DEF HookArrives, ConfirmExecuted, Confirm
<1>7. CASE \/ \E r \in Roles, g \in BOOLEAN : SubmitProgress(r, g)
           \/ AskAndResolve \/ SetMode \/ MarkAllDone \/ DeleteMessageHistory
           \/ \E m \in Messages : LoseHook(m) \/ MonitorEnds(m)
           \/ \E r \in Roles : WriteRoute(r) \/ RoleStarts(r) \/ RoleStops(r)
           \/ ReadForRecovery \/ RecoverMessages \/ RecoverWorkflow \/ UNCHANGED vars
  BY <1>1, <1>7 DEF SubmitProgress, AskAndResolve, SetMode, MarkAllDone, DeleteMessageHistory,
     LoseHook, MonitorEnds, WriteRoute, RoleStarts, RoleStops, ReadForRecovery, RecoverMessages,
     RecoverWorkflow, messageVars, vars
<1>. QED
  BY <1>3, <1>4, <1>5, <1>6, <1>7 DEF Next, ScanStep

(* A route is blanked by the request that confirmed it, or by Mark All     *)
(* Done, which ends the approval with it.                                  *)
LEMMA ClearStep ==
  ASSUME DInv, ConfirmedIsOlder, [Next]_vars, NEW r \in Roles, route[r] # 0, route'[r] = 0
  PROVE  approval'.rev # route[r]
<1>1. CASE MarkAllDone
  BY <1>1 DEF MarkAllDone, Cancel, NoApproval
<1>2. CASE LogAccepted
  <2>1. holder.step = "confirmed" /\ route[r] = holder.work /\ approval' = approval
    BY <1>2 DEF LogAccepted, ClearMatchingRoute, approvalVars, DInv, MessageTypeOK
  <2>2. holder.work \in Nat
    BY RevisionAssumption DEF DInv, MessageTypeOK, Holder
  <2>3. approval # NoApproval => approval.rev \in Nat
    BY DEF DInv, AInv, ApprovalTypeOK, Approval, Revisions
  <2>. QED
    BY <2>1, <2>2, <2>3 DEF ConfirmedIsOlder, NoApproval
<1>3. CASE \E q \in Roles : WriteRoute(q)
  <2>1. PICK q \in Roles : WriteRoute(q)
    BY <1>3
  <2>2. revision # 0
    BY <2>1 DEF WriteRoute, RouteAuthorized, Pending, DInv, AInv, ApprovalTypeOK, Approval,
       Revisions, NoApproval
  <2>. QED
    BY <2>1, <2>2 DEF WriteRoute, DInv, MessageTypeOK
<1>4. route' # route
  OBVIOUS
<1>. QED
  BY <1>1, <1>2, <1>3, <1>4 DEF Next, ScanStep, SubmitProgress, AskAndResolve, SetMode,
     DeleteMessageHistory, ListRoute, PasteRoute, RoleStarts, RoleStops, ClaimRoute,
     LogDispatching, SubmitToTerminal, MarkRunning, LogDelivered, RequestFails, ConfirmPasted,
     LoseHook, HookArrives, ConfirmExecuted, MonitorEnds, Crash, ReadForRecovery,
     RecoverMessages, RecoverWorkflow, messageVars, vars

(* clearRouteFileIfStillMatchesMessage and Mark All Done blank only routes *)
(* whose approval is over, crashes and a second connect included.          *)
THEOREM RoutesOutliveApprovals == Spec => RouteOutlivesApproval
<1> DEFINE RouteInv == DInv /\ WorksAreAccepted /\ ConfirmedIsOlder
<1>1. Init => RouteInv
  <2>. SUFFICES ASSUME Init PROVE RouteInv
    OBVIOUS
  <2>. QED
    BY DispatchInit DEF Init, ApprovalInit, Free, Idle, NoEntry, WorksAreAccepted, ConfirmedIsOlder
<1>2. RouteInv /\ [Next]_vars => RouteInv'
  BY StepUsesApproval, StepKeepsTypes, ApprovalStepInv, WorksStep, OlderStep DEF DInv
<1>3. RouteInv /\ [Next]_vars
        => [\A r \in Roles : route[r] # 0 /\ route'[r] = 0 => approval'.rev # route[r]]_vars
  BY ClearStep
<1>. QED
  BY <1>1, <1>2, <1>3, PTL DEF Spec, RouteOutlivesApproval
-----------------------------------------------------------------------------
(***************************************************************************)
(* One approval is executed at most once, while the backend runs.          *)
(***************************************************************************)

(* No recovery is under way, and none can begin. *)
Steady == connected /\ recovery.phase = "idle"

(* A message is in a terminal only after the delivery that got its id has  *)
(* submitted it.                                                           *)
Unsent ==
  /\ \A m \in Messages : InTerminal(m) => m <= lastId
  /\ holder.step \in {"listed", "claimed", "logged"} =>
       holder.msg <= lastId /\ ~InTerminal(holder.msg)

(* A delivery keeps its claim from the claim to its end: nobody else gives *)
(* it back or ends the approval.                                           *)
HoldsClaim ==
  holder.step \in {"claimed", "logged", "submitted", "marked", "pasted"} =>
    Claimed(holder.msg) /\ claims[holder.msg] = approval.rev

(* Two messages that reached a terminal claimed different approvals, and a *)
(* message that did so for the present approval still holds its claim.     *)
SentOnce ==
  \A m, n \in Messages : InTerminal(m) /\ InTerminal(n) /\ claims[m] = claims[n] => m = n
SentIsPast ==
  \A m \in Messages : InTerminal(m) =>
    /\ claims[m] <= revision
    /\ approval # NoApproval /\ claims[m] = approval.rev => Claimed(m)

OnceInv == DInv /\ Steady /\ Unsent /\ HoldsClaim /\ SentOnce /\ SentIsPast

LEMMA SteadyStep ==
  ASSUME DInv, Steady, ~Crashes, ~LiveReconnect, [Next]_vars
  PROVE  Steady' /\ ~Crash /\ ~ReadForRecovery /\ ~RecoverMessages /\ ~RecoverWorkflow
<1> USE DEF Steady
<1>1. ~Crash /\ ~ReadForRecovery /\ ~RecoverMessages /\ ~RecoverWorkflow
  BY DEF Crash, ReadForRecovery, RecoverMessages, RecoverWorkflow
<1>2. UNCHANGED <<connected, recovery>>
  BY <1>1, Zenon DEF Next, ScanStep, SubmitProgress, AskAndResolve, SetMode, MarkAllDone,
     DeleteMessageHistory, WriteRoute, ListRoute, PasteRoute, RoleStarts, RoleStops, ClaimRoute,
     LogDispatching, SubmitToTerminal, MarkRunning, LogDelivered, RequestFails, LogAccepted,
     ConfirmPasted, LoseHook, HookArrives, ConfirmExecuted, MonitorEnds, messageVars, vars
<1>. QED
  BY <1>1, <1>2

(* Only a submission and a pasted route bring a message into a terminal.   *)
LEMMA SentGrows ==
  ASSUME DInv, ~Crash, [Next]_vars, NEW m \in Messages, InTerminal(m)'
  PROVE  \/ InTerminal(m)
         \/ SubmitToTerminal /\ m = holder.msg
         \/ \E r \in Roles : PasteRoute(r) /\ m = NextId
<1> USE DEF InTerminal
<1>1. CASE UNCHANGED <<ran, box>>
  BY <1>1
<1>2. CASE SubmitToTerminal
  BY <1>2 DEF SubmitToTerminal, DInv, MessageTypeOK
<1>3. CASE \E r \in Roles : PasteRoute(r)
  BY <1>3 DEF PasteRoute
<1>4. CASE \E r \in Roles : RoleStarts(r)
  BY <1>4, DispatchAssumption DEF RoleStarts, DInv, MessageTypeOK
<1>. QED
  BY <1>1, <1>2, <1>3, <1>4, Zenon DEF Next, ScanStep, SubmitProgress, AskAndResolve, SetMode,
     MarkAllDone, DeleteMessageHistory, WriteRoute, ListRoute, RoleStops, ClaimRoute,
     LogDispatching, MarkRunning, LogDelivered, RequestFails, LogAccepted, ConfirmPasted, LoseHook,
     HookArrives, ConfirmExecuted, MonitorEnds, ReadForRecovery, RecoverMessages,
     RecoverWorkflow, messageVars, vars

(* What a message claimed is recorded before it reaches a terminal.        *)
LEMMA ClaimsStay ==
  ASSUME DInv, Unsent, [Next]_vars, NEW m \in Messages, InTerminal(m)
  PROVE  claims'[m] = claims[m]
<1>1. CASE UNCHANGED claims
  BY <1>1
<1>2. CASE ClaimRoute
  BY <1>2 DEF ClaimRoute, Unsent, DInv, MessageTypeOK
<1>3. CASE \E r \in Roles : PasteRoute(r)
  <2>1. m # NextId
    BY DispatchAssumption DEF Unsent, NextId, DInv, MessageTypeOK
  <2>. QED
    BY <1>3, <2>1 DEF PasteRoute, DInv, MessageTypeOK
<1>. QED
  BY <1>1, <1>2, <1>3, Zenon DEF Next, ScanStep, SubmitProgress, AskAndResolve, SetMode,
     MarkAllDone, DeleteMessageHistory, WriteRoute, ListRoute, RoleStarts, RoleStops,
     SubmitToTerminal, LogDispatching, MarkRunning, LogDelivered, RequestFails, LogAccepted,
     ConfirmPasted, LoseHook, HookArrives, ConfirmExecuted, MonitorEnds, Crash, ReadForRecovery,
     RecoverMessages, RecoverWorkflow, messageVars, vars

LEMMA UnsentStep ==
  ASSUME DInv, Unsent, ~Crash, [Next]_vars
  PROVE  Unsent'
<1>1. lastId \in Nat /\ lastId' \in Nat /\ lastId <= lastId'
  <2>1. lastId' = lastId \/ lastId' = lastId + 1
    BY Zenon DEF Next, ScanStep, SubmitProgress, AskAndResolve, SetMode, MarkAllDone,
       DeleteMessageHistory, WriteRoute, ListRoute, PasteRoute, RoleStarts, RoleStops, ClaimRoute,
       LogDispatching, SubmitToTerminal, MarkRunning, LogDelivered, RequestFails, LogAccepted,
       ConfirmPasted, LoseHook, HookArrives, ConfirmExecuted, MonitorEnds, ReadForRecovery,
       RecoverMessages, RecoverWorkflow, NextId, messageVars, vars
  <2>. QED
    BY <2>1, DispatchAssumption DEF DInv, MessageTypeOK
<1>2. ASSUME NEW m \in Messages, InTerminal(m)'
      PROVE  m <= lastId'
  <2>1. CASE InTerminal(m)
    BY <1>1, <2>1, DispatchAssumption DEF Unsent
  <2>2. CASE SubmitToTerminal /\ m = holder.msg
    BY <1>1, <2>2, DispatchAssumption DEF SubmitToTerminal, Unsent
  <2>3. CASE \E r \in Roles : PasteRoute(r) /\ m = NextId
    BY <1>1, <2>3 DEF PasteRoute
  <2>. QED
    BY <1>2, <2>1, <2>2, <2>3, SentGrows
<1>3. ASSUME holder'.step \in {"listed", "claimed", "logged"}
      PROVE  holder'.msg <= lastId' /\ ~InTerminal(holder.msg)'
  <2>1. holder'.msg \in Messages
    BY <1>3, StepKeepsTypes DEF HolderHasWork
  <2>2. CASE holder' = holder
    <3>1. ~SubmitToTerminal /\ \A r \in Roles : ~PasteRoute(r)
      BY <1>3, <2>2, HoldKeeps DEF SubmitToTerminal, PasteRoute, Unlock, Free, LockFree, HolderSteps,
         DInv, MessageTypeOK
    <3>2. ~InTerminal(holder.msg)' /\ holder.msg <= lastId
      BY <1>3, <2>1, <2>2, <3>1, SentGrows DEF Unsent
    <3>. QED
      BY <1>1, <2>1, <2>2, <3>2, DispatchAssumption
  <2>3. CASE \E r \in Roles : ListRoute(r)
    <3>1. holder'.msg = lastId + 1 /\ lastId' = lastId + 1 /\ UNCHANGED <<ran, box>>
      BY <2>3 DEF ListRoute, NextId
    <3>2. ~InTerminal(lastId + 1)
      BY <1>1, <2>1, <3>1 DEF Unsent
    <3>3. ~(lastId + 1 \in ran') /\ \A r \in Roles : box'[r] # lastId + 1
      BY <3>1, <3>2 DEF InTerminal
    <3>. QED
      BY <1>1, <3>1, <3>3 DEF InTerminal
  <2>4. CASE ClaimRoute \/ LogDispatching
    <3>1. /\ UNCHANGED <<ran, box, lastId>> /\ holder'.msg = holder.msg
          /\ holder.step \in {"listed", "claimed"}
      BY <1>3, <2>4, HoldKeeps DEF ClaimRoute, LogDispatching, Unlock, Free, HolderSteps, DInv,
         MessageTypeOK
    <3>. QED
      BY <3>1 DEF Unsent, InTerminal
  <2>5. CASE SubmitToTerminal \/ MarkRunning \/ LogDelivered \/ RequestFails \/ LogAccepted
    BY <1>3, <2>5, HoldKeeps DEF SubmitToTerminal, MarkRunning, LogDelivered, RequestFails,
       LogAccepted, Unlock, Free, HolderSteps, DInv, MessageTypeOK
  <2>6. CASE ConfirmPasted
    BY <1>3, <2>6, HoldKeeps DEF ConfirmPasted, Unlock, Free, HolderSteps, DInv, MessageTypeOK
  <2>7. CASE \E r \in Roles : PasteRoute(r)
    BY <1>3, <2>7 DEF PasteRoute
  <2>8. CASE \E m \in Messages : HookArrives(m) \/ ConfirmExecuted(m)
    BY <1>3, <2>2, <2>8 DEF HookArrives, ConfirmExecuted
  <2>. QED
    BY <2>2, <2>3, <2>4, <2>5, <2>6, <2>7, <2>8, Zenon DEF Next, ScanStep, SubmitProgress,
       AskAndResolve, SetMode, MarkAllDone, DeleteMessageHistory, WriteRoute, RoleStarts, RoleStops,
       LoseHook, MonitorEnds, ReadForRecovery, RecoverMessages, RecoverWorkflow, messageVars, vars
<1>. QED
  BY <1>2, <1>3 DEF Unsent

(* While a delivery holds its claim, nothing but its own steps touches it. *)
LEMMA HoldsStep ==
  ASSUME DInv, HoldsClaim, ~Crash, ~RecoverWorkflow, [Next]_vars
  PROVE  HoldsClaim'
<1> USE DEF HoldsClaim, Claimed, Dispatching
<1>1. CASE UNCHANGED <<approval, holder, claims>>
  BY <1>1
<1>2. CASE holder'.step \in {"free", "listed", "confirmed"}
  BY <1>2
<1>3. CASE ClaimRoute
  <2>1. CASE RouteAuthorized(holder.role)
    <3>1. /\ holder'.msg = holder.msg /\ holder.msg \in Messages
          /\ approval' = [approval EXCEPT !.status = "dispatching", !.msg = holder.msg]
          /\ claims' = [claims EXCEPT ![holder.msg] = approval.rev]
      BY <1>3, <2>1, HoldKeeps DEF ClaimRoute, Claim, HolderSteps, HolderHasWork, DInv, MessageTypeOK
    <3>2. approval \in Approval
      BY <2>1 DEF RouteAuthorized, Pending, DInv, AInv, ApprovalTypeOK, NoApproval
    <3>. QED
      BY <3>1, <3>2 DEF DInv, MessageTypeOK, Approval
  <2>2. CASE ~RouteAuthorized(holder.role)
    BY <1>3, <2>2 DEF ClaimRoute, Unlock, Free
  <2>. QED
    BY <2>1, <2>2
<1>4. CASE LogDispatching \/ MarkRunning
  BY <1>4, HoldKeeps DEF LogDispatching, MarkRunning, HolderSteps, approvalVars, DInv, MessageTypeOK
<1>5. CASE SubmitToTerminal
  <2>1. CASE UNCHANGED approvalVars /\ HoldAt("submitted")
    BY <1>5, <2>1, HoldKeeps DEF SubmitToTerminal, HolderSteps, approvalVars, DInv, MessageTypeOK
  <2>2. CASE Unlock
    BY <1>2, <2>2 DEF Unlock, Free
  <2>. QED
    BY <1>5, <2>1, <2>2 DEF SubmitToTerminal
<1>6. CASE LogDelivered \/ RequestFails \/ LogAccepted
  BY <1>2, <1>6 DEF LogDelivered, RequestFails, LogAccepted, Unlock, Free
<1>7. CASE ConfirmPasted
  BY <1>2, <1>7, HoldKeeps DEF ConfirmPasted, Unlock, Free, HolderSteps, DInv, MessageTypeOK
<1>8. CASE \E r \in Roles : ListRoute(r)
  BY <1>2, <1>8 DEF ListRoute
<1>9. CASE \E r \in Roles : PasteRoute(r)
  <2>1. PICK r \in Roles : PasteRoute(r)
    BY <1>9
  <2>2. approval \in Approval
    BY <2>1 DEF PasteRoute, Claim, RouteAuthorized, Pending, DInv, AInv, ApprovalTypeOK, NoApproval
  <2>3. NextId \in Messages
    BY <2>1, NextIdIsMessage DEF PasteRoute, DInv
  <2>4. /\ holder'.msg = NextId
        /\ approval' = [approval EXCEPT !.status = "dispatching", !.msg = NextId]
        /\ claims' = [claims EXCEPT ![NextId] = approval.rev]
    BY <2>1 DEF PasteRoute, Claim
  <2>. QED
    BY <2>2, <2>3, <2>4 DEF DInv, MessageTypeOK, Approval
<1>10. CASE \E m \in Messages : HookArrives(m) \/ ConfirmExecuted(m)
  BY <1>2, <1>10 DEF HookArrives, ConfirmExecuted, LockFree, Free
<1>11. CASE MarkAllDone \/ \E m \in Messages : MonitorEnds(m)
  BY <1>2, <1>11 DEF MarkAllDone, MonitorEnds, LockFree, Free
<1>12. CASE \E r \in Roles, g \in BOOLEAN : SubmitProgress(r, g)
  BY <1>12 DEF SubmitProgress, Approve, NoApproval, messageVars
<1>13. CASE AskAndResolve
  <2>1. UNCHANGED <<holder, claims>> /\ (Dispatching => UNCHANGED approval)
    BY <1>13 DEF AskAndResolve, AskUser, ResolveQuestion, messageVars
  <2>. QED
    BY <2>1
<1>14. CASE \/ SetMode \/ DeleteMessageHistory \/ ReadForRecovery \/ RecoverMessages
            \/ \E r \in Roles : WriteRoute(r) \/ RoleStarts(r) \/ RoleStops(r)
            \/ \E m \in Messages : LoseHook(m)
            \/ UNCHANGED vars
  BY <1>1, <1>14 DEF SetMode, DeleteMessageHistory, WriteRoute, RoleStarts, RoleStops, LoseHook,
     ReadForRecovery, RecoverMessages, approvalVars, messageVars, vars
<1>. QED
  BY <1>3, <1>4, <1>5, <1>6, <1>7, <1>8, <1>9, <1>10, <1>11, <1>12, <1>13, <1>14 DEF Next, ScanStep

(* A claim whose message is in a terminal ends with the approval: a paste  *)
(* is confirmed, since no question and no later revision can come between. *)
LEMMA SentClaimStays ==
  ASSUME DInv, HoldsClaim, Unsent, ~Crash, ~RecoverWorkflow, [Next]_vars,
         NEW m \in Messages, InTerminal(m), Claimed(m)
  PROVE  Claimed(m)' \/ approval' = NoApproval
<1> USE DEF Claimed, Dispatching
<1>1. CASE UNCHANGED approval
  BY <1>1
<1>2. CASE ClaimRoute
  BY <1>1, <1>2 DEF ClaimRoute, Claim, RouteAuthorized, Pending, approvalVars
<1>3. CASE SubmitToTerminal
  <2>1. m # holder.msg
    BY <1>3 DEF SubmitToTerminal, Unsent
  <2>. QED
    BY <1>1, <1>3, <2>1 DEF SubmitToTerminal, Release, approvalVars
<1>4. CASE ConfirmPasted
  <2>1. ConfirmAllowed(holder.msg, "hook")
    BY <1>4 DEF ConfirmPasted, ConfirmAllowed, HoldsClaim, DInv, AInv, QuestionExcludesApproval,
       ApprovalIsCurrent, NoApproval
  <2>. QED
    BY <1>4, <2>1 DEF ConfirmPasted, Confirm
<1>5. CASE \E r \in Roles : PasteRoute(r)
  BY <1>5 DEF PasteRoute, Claim, RouteAuthorized, Pending
<1>6. CASE \E n \in Messages : HookArrives(n) \/ ConfirmExecuted(n)
  BY <1>1, <1>6 DEF HookArrives, ConfirmExecuted, Confirm, approvalVars
<1>7. CASE \E n \in Messages : MonitorEnds(n)
  <2>1. UNCHANGED approval \/ approval' = [approval EXCEPT !.unconfirmed = TRUE]
    BY <1>7, Zenon DEF MonitorEnds, MarkUnconfirmed, approvalVars
  <2>2. approval \in Approval
    BY DEF DInv, AInv, ApprovalTypeOK, NoApproval
  <2>. QED
    BY <1>1, <2>1, <2>2 DEF Approval
<1>8. CASE AskAndResolve \/ MarkAllDone
  BY <1>1, <1>8 DEF AskAndResolve, MarkAllDone, AskUser, ResolveQuestion, Cancel
<1>9. CASE \E r \in Roles, g \in BOOLEAN : SubmitProgress(r, g)
  BY <1>9 DEF SubmitProgress, Approve, NoApproval
<1>. QED
  BY <1>1, <1>2, <1>3, <1>4, <1>5, <1>6, <1>7, <1>8, <1>9, Zenon DEF Next, ScanStep, SetMode,
     DeleteMessageHistory, WriteRoute, ListRoute, RoleStarts, RoleStops, LogDispatching,
     MarkRunning, LogDelivered, RequestFails, LogAccepted, LoseHook, ReadForRecovery,
     RecoverMessages, approvalVars, vars

(* A message that reaches a terminal now is the one that holds the claim,  *)
(* and no other went there for this approval.                              *)
LEMMA SentNow ==
  ASSUME OnceInv, ~Crash, [Next]_vars, NEW m \in Messages, InTerminal(m)', ~InTerminal(m)
  PROVE  /\ Claimed(m)' /\ claims'[m] = approval.rev
         /\ approval.rev = revision /\ revision' = revision /\ approval'.rev = approval.rev
         /\ \A n \in Messages : InTerminal(n) => claims[n] # approval.rev
<1> USE DEF OnceInv
<1>1. CASE SubmitToTerminal /\ m = holder.msg
  <2>1. UNCHANGED approvalVars /\ UNCHANGED claims
    BY <1>1 DEF SubmitToTerminal, InTerminal
  <2>2. Claimed(m) /\ claims[m] = approval.rev
    BY <1>1 DEF SubmitToTerminal, HoldsClaim
  <2>3. approval # NoApproval
    BY <2>2 DEF Claimed, Dispatching, NoApproval
  <2>4. approval.rev = revision
    BY <2>3 DEF DInv, AInv, ApprovalIsCurrent
  <2>5. \A n \in Messages : InTerminal(n) => claims[n] # approval.rev
    BY <2>2, <2>3 DEF SentIsPast, Claimed
  <2>. QED
    BY <2>1, <2>2, <2>4, <2>5 DEF approvalVars, Claimed, Dispatching
<1>2. CASE \E r \in Roles : PasteRoute(r) /\ m = NextId
  <2>1. PICK r \in Roles : PasteRoute(r) /\ m = NextId
    BY <1>2
  <2>2. Pending /\ approval \in Approval /\ approval # NoApproval /\ approval.rev = revision
    BY <2>1 DEF PasteRoute, Claim, RouteAuthorized, Pending, DInv, AInv, ApprovalTypeOK, NoApproval
  <2>3. /\ approval' = [approval EXCEPT !.status = "dispatching", !.msg = m]
        /\ claims' = [claims EXCEPT ![m] = approval.rev] /\ revision' = revision
    BY <2>1 DEF PasteRoute, Claim
  <2>4. \A n \in Messages : InTerminal(n) => claims[n] # approval.rev
    BY <2>2 DEF SentIsPast, Claimed, Pending, Dispatching
  <2>. QED
    BY <2>2, <2>3, <2>4 DEF DInv, MessageTypeOK, Approval, Claimed, Dispatching
<1>. QED
  BY <1>1, <1>2, SentGrows

LEMMA SentStep ==
  ASSUME OnceInv, ~Crash, ~RecoverWorkflow, [Next]_vars
  PROVE  SentOnce' /\ SentIsPast'
<1>1. /\ revision \in Nat /\ revision' \in Nat /\ revision <= revision'
      /\ \A m \in Messages : claims[m] \in Nat
  BY RevisionGrows, RevisionAssumption DEF OnceInv, DInv, MessageTypeOK
<1>2. ASSUME NEW m \in Messages, InTerminal(m)
      PROVE  /\ claims'[m] = claims[m] /\ claims'[m] <= revision'
             /\ approval' # NoApproval /\ claims'[m] = approval'.rev => Claimed(m)'
  <2>1. claims'[m] = claims[m]
    BY <1>2, ClaimsStay DEF OnceInv
  <2>2. claims[m] <= revision
    BY <1>2 DEF OnceInv, SentIsPast
  <2>3. ASSUME approval' # NoApproval, claims[m] = approval'.rev
        PROVE  Claimed(m)'
    <3>1. approval # NoApproval /\ approval'.rev = approval.rev
      BY <1>1, <2>2, <2>3, RevOfApproval DEF OnceInv
    <3>2. Claimed(m)
      BY <1>2, <2>3, <3>1 DEF OnceInv, SentIsPast
    <3>. QED
      BY <1>2, <2>3, <3>2, SentClaimStays DEF OnceInv
  <2>. QED
    BY <1>1, <2>1, <2>2, <2>3
<1>3. SentOnce'
  <2>. SUFFICES ASSUME NEW m \in Messages, NEW n \in Messages, InTerminal(m)', InTerminal(n)',
                       claims'[m] = claims'[n]
                PROVE  m = n
    BY DEF SentOnce
  <2>1. CASE InTerminal(m) /\ InTerminal(n)
    BY <1>2, <2>1 DEF OnceInv, SentOnce
  <2>2. CASE \/ InTerminal(m) /\ ~InTerminal(n)
             \/ ~InTerminal(m) /\ InTerminal(n)
    BY <1>2, <2>2, SentNow
  <2>3. CASE ~InTerminal(m) /\ ~InTerminal(n)
    <3>1. Claimed(m)' /\ Claimed(n)'
      BY <2>3, SentNow
    <3>. QED
      BY <3>1 DEF Claimed
  <2>. QED
    BY <2>1, <2>2, <2>3
<1>4. SentIsPast'
  <2>. SUFFICES ASSUME NEW m \in Messages, InTerminal(m)'
                PROVE  /\ claims'[m] <= revision'
                       /\ approval' # NoApproval /\ claims'[m] = approval'.rev => Claimed(m)'
    BY DEF SentIsPast
  <2>1. CASE InTerminal(m)
    BY <1>2, <2>1
  <2>2. CASE ~InTerminal(m)
    BY <1>1, <2>2, SentNow
  <2>. QED
    BY <2>1, <2>2
<1>. QED
  BY <1>3, <1>4

(* Dispatch, retries of Enter, lost hooks, manual confirmations and calls  *)
(* that throw at any step execute an approval at most once, as long as the *)
(* backend is not restarted and the project not connected a second time.   *)
THEOREM ApprovalsRunOnce ==
  ASSUME ~Crashes, ~LiveReconnect
  PROVE  Spec => []RunsOncePerApproval
<1>1. Init => OnceInv
  <2>. SUFFICES ASSUME Init PROVE OnceInv
    OBVIOUS
  <2>1. \A m \in Messages : ~InTerminal(m)
    BY MessagesAssumption DEF Init, InTerminal
  <2>2. holder.step = "free" /\ Steady
    BY DEF Init, Free, Steady, Idle
  <2>. QED
    BY <2>1, <2>2, DispatchInit DEF OnceInv, Unsent, HoldsClaim, SentOnce, SentIsPast
<1>2. OnceInv /\ [Next]_vars => OnceInv'
  <2>. SUFFICES ASSUME OnceInv, [Next]_vars PROVE OnceInv'
    OBVIOUS
  <2>1. DInv' /\ Steady' /\ ~Crash /\ ~RecoverWorkflow
    BY StepUsesApproval, StepKeepsTypes, ApprovalStepInv, SteadyStep DEF OnceInv, DInv
  <2>. QED
    BY <2>1, UnsentStep, HoldsStep, SentStep DEF OnceInv
<1>3. OnceInv => RunsOncePerApproval
  BY DEF OnceInv, SentOnce, InTerminal, RunsOncePerApproval, DInv, MessageTypeOK
<1>. QED
  BY <1>1, <1>2, <1>3, PTL DEF Spec
-----------------------------------------------------------------------------
(***************************************************************************)
(* WorkflowControl.                                                        *)
(***************************************************************************)
(* The shape of the approval, which also survives a lost runtime state. *)
Shape ==
  /\ revision \in 0..MaxRevision
  /\ approval \in Approval \cup {NoApproval}
  /\ history \in Seq(Row)
  /\ flows \in Seq(Flows) /\ Len(flows) = Len(history)
  /\ pending.flow \in Flows \cup {"none"}
  /\ approval # NoApproval => pending.flow \in Flows

(* What the document and the runtime state say of each other. *)
Agreement == Shape /\ Consistent

RunType == [root : Flows \cup {"none"}, branch : Branches \cup {"none"},
            resumed : Branches \cup {"none"}, start : Nat]

(* The recorded run fits the history, and the document's flow is the last  *)
(* row's.                                                                  *)
Rooted ==
  /\ Shape
  /\ run \in RunType
  /\ history = <<>> => flow = "none"
  /\ history # <<>> => flow = flows[Len(flows)]
  /\ RunIsRooted

(* A completed document ends a flow that was dispatched. *)
Finished == Rooted /\ BranchNeverCompletes /\ (status = "completed" => history # <<>>)
-----------------------------------------------------------------------------
(* An accepted request as the approval sees it. *)

LEMMA InitialShape == WorkflowInit => Shape /\ Consistent
<1>. SUFFICES ASSUME WorkflowInit PROVE Shape /\ Consistent
  OBVIOUS
<1>1. history = <<>> /\ flows = <<>> /\ history \in Seq(Row) /\ flows \in Seq(Flows)
      /\ Len(history) = 0 /\ Len(flows) = 0
  BY DEF WorkflowInit, ApprovalInit
<1>2. revision \in 0..MaxRevision /\ approval = NoApproval
  BY RevisionAssumption DEF WorkflowInit, ApprovalInit
<1>. QED
  BY <1>1, <1>2 DEF WorkflowInit, Shape, Consistent, NoPending

(* The steps that leave approval, revision and history as they are. *)
LEMMA QuietStep ==
  ASSUME UNCHANGED <<revision, approval, history, flows, pending, proposal, active>>
  PROVE  /\ Shape => Shape'
         /\ Consistent => Consistent'
<1>1. Shape => Shape'
  BY DEF Shape
<1>2. Consistent => Consistent'
  BY DEF Consistent
<1>. QED
  BY <1>1, <1>2

LEMMA ProposalKeepsAgreement ==
  ASSUME Agreement, NEW f \in Flows, NEW r \in Roles, NEW k, SubmitProposal(f, r, k)
  PROVE  Agreement'
<1> DEFINE v == revision + 1
<1>1. /\ approval = NoApproval /\ revision' = v /\ v \in Revisions /\ history' = history
      /\ approval' = [status |-> "pending", rev |-> v, role |-> r, msg |-> NoMessage,
                      unconfirmed |-> FALSE, granted |-> (k # "plain")]
  <2>1. Approve(r, k # "plain") /\ revision \in 0..MaxRevision
    BY DEF SubmitProposal, Agreement, Shape
  <2>2. approval = NoApproval /\ revision' = v /\ v \in Revisions /\ history' = history
    BY <2>1, RevisionAssumption DEF Approve, Revisions
  <2>3. approval' = [status |-> "pending", rev |-> v, role |-> r, msg |-> NoMessage,
                     unconfirmed |-> FALSE, granted |-> (k # "plain")]
    BY <2>1, Zenon DEF Approve, NoApproval
  <2>. QED
    BY <2>2, <2>3
<1>2. approval' \in Approval /\ approval' # NoApproval /\ approval'.rev = v /\ approval'.role = r
  BY <1>1, NoApprovalIsNone DEF Approval
<1>3. /\ proposal' = [flow |-> f, role |-> r]
      /\ pending' = [flow |-> f, kind |-> k, base |-> Len(history)]
      /\ UNCHANGED <<flows, active>>
  BY DEF SubmitProposal
<1>4. Shape'
  BY <1>1, <1>2, <1>3 DEF Agreement, Shape, Revisions
<1>5. Consistent'
  BY <1>1, <1>2, <1>3 DEF Agreement, Consistent
<1>. QED
  BY <1>4, <1>5 DEF Agreement

LEMMA CompletionKeepsAgreement ==
  ASSUME Agreement, SubmitCompletion
  PROVE  Agreement'
<1>1. /\ approval = NoApproval /\ approval' = NoApproval /\ revision' \in 0..MaxRevision
      /\ UNCHANGED <<history, flows, pending, proposal, active>>
  BY RevisionAssumption DEF SubmitCompletion, CompleteFlow, Agreement, Shape
<1>. QED
  BY <1>1 DEF Agreement, Shape, Consistent

(* Claim and Release change the approval in place. *)
LEMMA ClaimKeepsAgreement ==
  ASSUME Agreement, NEW m \in Messages, ClaimDispatch(m) \/ ReleaseDispatch(m)
  PROVE  Agreement'
<1>1. /\ UNCHANGED <<revision, history, flows, pending, proposal, active>>
      /\ approval # NoApproval /\ approval \in Approval
  BY NoApprovalIsNone
     DEF ClaimDispatch, ReleaseDispatch, Claim, Release, Claimed, Dispatching, RouteAuthorized,
         Pending, controlVars, Agreement, Shape
<1>2. /\ approval' \in Approval /\ approval'.rev = approval.rev /\ approval'.role = approval.role
  BY <1>1 DEF ClaimDispatch, ReleaseDispatch, Claim, Release, Claimed, Unclaimed, Approval
<1>. QED
  BY <1>1, <1>2, NoApprovalIsNone DEF Agreement, Shape, Consistent

(* Cancel and the user's question end the approval and the proposal. *)
LEMMA EndKeepsAgreement ==
  ASSUME Agreement, CancelDispatch \/ RequestUserInput
  PROVE  Agreement'
<1>1. /\ approval' = NoApproval /\ proposal' = NoProposal /\ pending' = NoPending
      /\ UNCHANGED <<revision, history, flows, active>>
  BY DEF CancelDispatch, RequestUserInput, Cancel, AskUser
<1>. QED
  BY <1>1 DEF Agreement, Shape, Consistent, NoPending

(* The row that a confirmation appends. *)
LEMMA ConfirmedRow ==
  ASSUME Shape, NEW m \in Messages, ConfirmDispatch(m)
  PROVE  LET n == Len(history)
         IN  /\ n \in Nat /\ approval' = NoApproval /\ pending.flow \in Flows
             /\ history' \in Seq(Row) /\ Len(history') = n + 1 /\ history' # <<>>
             /\ history'[n + 1].role = approval.role
             /\ flows' \in Seq(Flows) /\ Len(flows') = n + 1
             /\ flows'[n + 1] = pending.flow /\ \A i \in 1..n : flows'[i] = flows[i]
<1> DEFINE row == [rev |-> approval.rev, role |-> approval.role, msg |-> m,
                   source |-> "hook", granted |-> approval.granted]
<1>1. /\ approval # NoApproval /\ approval \in Approval /\ approval' = NoApproval
      /\ history' = Append(history, row) /\ flows' = Append(flows, pending.flow)
  BY NoApprovalIsNone
     DEF ConfirmDispatch, Confirm, ConfirmAllowed, Claimed, Dispatching, Shape
<1>2. row \in Row
  BY <1>1 DEF Row, Approval
<1>3. pending.flow \in Flows /\ history \in Seq(Row) /\ flows \in Seq(Flows) /\ Len(flows) = Len(history)
  BY <1>1 DEF Shape
<1>4. history' \in Seq(Row) /\ Len(history') = Len(history) + 1 /\ history'[Len(history) + 1] = row
  BY <1>1, <1>2, <1>3
<1>5. /\ flows' \in Seq(Flows) /\ Len(flows') = Len(flows) + 1
      /\ flows'[Len(flows) + 1] = pending.flow /\ \A i \in 1..Len(flows) : flows'[i] = flows[i]
  BY <1>1, <1>3
<1>. QED
  BY <1>1, <1>3, <1>4, <1>5

LEMMA ConfirmKeepsAgreement ==
  ASSUME Agreement, NEW m \in Messages, ConfirmDispatch(m)
  PROVE  Agreement'
<1>1. /\ revision' = revision /\ proposal' = NoProposal /\ pending' = NoPending
      /\ active' = [seq |-> Len(history) + 1, flow |-> pending.flow, role |-> approval.role]
  BY DEF ConfirmDispatch, Confirm
<1>2. Shape'
  BY <1>1, ConfirmedRow DEF Agreement, Shape, NoPending
<1>3. Consistent'
  BY <1>1, ConfirmedRow DEF Agreement, Consistent
<1>. QED
  BY <1>2, <1>3 DEF Agreement

LEMMA LossKeepsAgreement ==
  ASSUME Agreement, LoseState
  PROVE  Agreement'
BY DEF LoseState, Agreement, Shape, Consistent

LEMMA AgreementStep == ASSUME Agreement, [WorkflowNext]_workflowVars PROVE Agreement'
<1>1. CASE ResolveUserInput
  BY <1>1, QuietStep DEF ResolveUserInput, ResolveQuestion, controlVars, Agreement
<1>2. CASE \E a \in Artifacts : WriteArtifact(a)
  BY <1>2, QuietStep DEF WriteArtifact, approvalVars, Agreement
<1>3. CASE \E g \in Gates : WriteGate(g)
  BY <1>3, QuietStep DEF WriteGate, approvalVars, Agreement
<1>4. CASE UNCHANGED workflowVars
  BY <1>4, QuietStep DEF workflowVars, approvalVars, controlVars, Agreement
<1>5. CASE \E f \in Flows, r \in Roles, k \in Kinds : SubmitProposal(f, r, k)
  BY <1>5, ProposalKeepsAgreement
<1>. QED
  BY <1>1, <1>2, <1>3, <1>4, <1>5, CompletionKeepsAgreement, ClaimKeepsAgreement,
     EndKeepsAgreement, ConfirmKeepsAgreement, LossKeepsAgreement DEF WorkflowNext

(* No sequence of accepted requests, user records, questions and losses of *)
(* workflow-control.json ends in a warning of                              *)
(* stateProgressConsistencyWarnings, which would refuse every further      *)
(* request of the task.                                                    *)
THEOREM RequestsNeverBlockThemselves == WorkflowSpec => []NoSelfInflictedWarning
<1>1. WorkflowInit => Agreement
  BY InitialShape DEF Agreement
<1>2. Agreement /\ [WorkflowNext]_workflowVars => Agreement'
  BY AgreementStep
<1>3. Agreement => NoSelfInflictedWarning
  BY DEF Agreement, NoSelfInflictedWarning
<1>. QED
  BY <1>1, <1>2, <1>3, PTL DEF WorkflowSpec
-----------------------------------------------------------------------------
(* The flow run, while the runtime state is not lost. *)

LEMMA RunOfTheHistory ==
  ASSUME Rooted, history # <<>>
  PROVE  ResolveFlowRun(View) = run /\ flow \in Flows
<1>1. flow \in Flows /\ flow # "none"
  <2>1. Len(flows) \in 1..Len(flows)
    BY DEF Rooted, Shape
  <2>2. flow \in Flows
    BY <2>1 DEF Rooted, Shape
  <2>. QED
    BY <2>2 DEF Flows
<1>2. flow \in {run.root, run.branch}
  BY DEF Rooted, RunIsRooted
<1>3. View.flow = flow /\ View.run = run
  BY DEF View
<1>. QED
  BY <1>1, <1>2, <1>3 DEF ResolveFlowRun

(* advanceFlowRun starts a run, stays, enters a branch, or returns. *)
LEMMA AdvancedRun ==
  ASSUME Rooted, NEW f \in Flows
  PROVE  LET n    == Len(history) + 1
             next == AdvanceFlowRun(View, f, n)
         IN  \/ next = NewRun(f, n)
             \/ history # <<>> /\ f = flow /\ next = run
             \/ /\ history # <<>> /\ f \in Branches
                /\ next = [run EXCEPT !.branch = f, !.resumed = "none"]
             \/ /\ history # <<>> /\ f = run.root /\ run.branch = flow
                /\ next = [run EXCEPT !.branch = "none", !.resumed = flow]
<1>1. View.flow = flow /\ View.status = status
  BY DEF View
<1>2. CASE history = <<>>
  BY <1>1, <1>2 DEF Rooted, AdvanceFlowRun
<1>3. CASE history # <<>>
  <2>1. ResolveFlowRun(View) = run
    BY <1>3, RunOfTheHistory
  <2>. QED
    BY <1>1, <1>3, <2>1 DEF AdvanceFlowRun, Branches
<1>. QED
  BY <1>2, <1>3

LEMMA ConfirmKeepsRooted ==
  ASSUME Rooted, NEW m \in Messages, ConfirmDispatch(m), Shape'
  PROVE  Rooted'
<1> DEFINE n == Len(history)
           f == pending.flow
<1>1. /\ n \in Nat /\ f \in Flows /\ Len(history') = n + 1 /\ Len(flows) = n /\ Len(flows') = n + 1
      /\ history' # <<>> /\ flows'[n + 1] = f /\ \A i \in 1..n : flows'[i] = flows[i]
  BY ConfirmedRow DEF Rooted, Shape
<1>2. flow' = f /\ run' = AdvanceFlowRun(View, f, n + 1)
  BY DEF ConfirmDispatch
<1>3. Shape' /\ flow' = flows'[Len(flows')] /\ history' # <<>>
  BY <1>1, <1>2
<1>4. f # "none"
  BY <1>1 DEF Flows
<1>5. history # <<>> => /\ n > 0 /\ run.start \in 1..n /\ flows[run.start] = run.root
                        /\ flow = flows[n] /\ run \in RunType
                        /\ \A i \in 1..n : i >= run.start => flows[i] \in {run.root} \cup Branches
                        /\ flow = IF run.branch = "none" THEN run.root ELSE run.branch
                        /\ run.resumed # "none" =>
                             \E i \in 1..n : i >= run.start /\ flows[i] = run.resumed
  BY <1>1 DEF Rooted, RunIsRooted, Rows, RunRows, Shape
<1>6. SUFFICES
        /\ run' \in RunType
        /\ run'.start \in 1..(n + 1) /\ flows'[run'.start] = run'.root
        /\ \A i \in 1..(n + 1) : i >= run'.start => flows'[i] \in {run'.root} \cup Branches
        /\ f = IF run'.branch = "none" THEN run'.root ELSE run'.branch
        /\ run'.resumed # "none" =>
             \E i \in 1..(n + 1) : i >= run'.start /\ flows'[i] = run'.resumed
  BY <1>1, <1>2, <1>3 DEF Rooted, RunIsRooted, Rows, RunRows
<1>7. CASE run' = NewRun(f, n + 1)
  <2>1. run' = [root |-> f, branch |-> "none", resumed |-> "none", start |-> n + 1]
    BY <1>7 DEF NewRun, NoRun
  <2>. QED
    BY <1>1, <2>1 DEF RunType
<1>8. CASE history # <<>> /\ f = flow /\ run' = run
  BY <1>1, <1>5, <1>8 DEF RunType
<1>9. CASE history # <<>> /\ f \in Branches /\ run' = [run EXCEPT !.branch = f, !.resumed = "none"]
  <2>1. /\ run' \in RunType /\ run'.root = run.root /\ run'.start = run.start
        /\ run'.branch = f /\ run'.resumed = "none"
    BY <1>5, <1>9 DEF RunType
  <2>. QED
    BY <1>1, <1>4, <1>5, <1>9, <2>1
<1>10. CASE /\ history # <<>> /\ f = run.root /\ run.branch = flow
            /\ run' = [run EXCEPT !.branch = "none", !.resumed = flow]
  <2>1. flow \in Branches
    <3>1. flow \in Flows
      BY <1>10, RunOfTheHistory
    <3>. QED
      BY <1>5, <1>10, <3>1 DEF RunType, Flows
  <2>2. /\ run' \in RunType /\ run'.root = run.root /\ run'.start = run.start
        /\ run'.branch = "none" /\ run'.resumed = flow
    BY <1>5, <1>10, <2>1 DEF RunType
  <2>. QED
    BY <1>1, <1>5, <1>10, <2>2
<1>. QED
  BY <1>1, <1>2, <1>7, <1>8, <1>9, <1>10, AdvancedRun

LEMMA RootedStep ==
  ASSUME Losable = {}, Agreement, Rooted, [WorkflowNext]_workflowVars
  PROVE  Rooted'
<1>1. Shape'
  BY AgreementStep DEF Agreement
<1>2. CASE \E m \in Messages : ConfirmDispatch(m)
  BY <1>1, <1>2, ConfirmKeepsRooted
<1>3. CASE UNCHANGED <<flow, run, flows, history>>
  BY <1>1, <1>3 DEF Rooted, RunIsRooted, Rows, RunRows
<1>. QED
  BY <1>2, <1>3
     DEF WorkflowNext, workflowVars, approvalVars, controlVars, SubmitProposal, Approve, SubmitCompletion,
         CompleteFlow, ClaimDispatch, Claim, ReleaseDispatch, Release, CancelDispatch, Cancel,
         RequestUserInput, AskUser, ResolveUserInput, ResolveQuestion, WriteArtifact, WriteGate,
         LoseState

LEMMA FinishedStep ==
  ASSUME Losable = {}, ~CompletedProposals, Agreement, Finished, [WorkflowNext]_workflowVars
  PROVE  Finished'
<1>1. Rooted'
  BY RootedStep DEF Finished
<1>2. CASE status' # "completed"
  BY <1>1, <1>2 DEF Finished, BranchNeverCompletes
<1>3. CASE SubmitCompletion
  <2>1. history # <<>> /\ UNCHANGED <<history, run, flow>>
    BY <1>3 DEF SubmitCompletion, CompleteFlow
  <2>2. run.branch # flow
    <3>1. View.flow = flow
      BY DEF View
    <3>2. ResolveFlowRun(View) = run
      BY <2>1, RunOfTheHistory DEF Finished
    <3>. QED
      BY <1>3, <3>1, <3>2 DEF SubmitCompletion, CompletionValid
  <2>3. flow = run.root /\ run.branch = "none"
    BY <2>1, <2>2 DEF Finished, Rooted, RunIsRooted
  <2>. QED
    BY <1>1, <2>1, <2>3 DEF Finished, BranchNeverCompletes
<1>4. CASE status = "completed" /\ UNCHANGED <<flow, run, history>>
  BY <1>1, <1>4 DEF Finished, BranchNeverCompletes
<1>. QED
  BY <1>2, <1>3, <1>4
     DEF WorkflowNext, workflowVars, approvalVars, controlVars, SubmitProposal, Approve,
         ClaimDispatch, Claim, ReleaseDispatch, Release, ConfirmDispatch, CancelDispatch, Cancel,
         RequestUserInput, AskUser, ResolveUserInput, ResolveQuestion, WriteArtifact, WriteGate,
         LoseState

LEMMA InitialRun == WorkflowInit => Finished
<1>. SUFFICES ASSUME WorkflowInit PROVE Finished
  OBVIOUS
<1>1. Shape
  BY InitialShape
<1>2. run \in RunType
  BY DEF WorkflowInit, NoRun, RunType
<1>3. history = <<>> /\ flow = "none" /\ status = "not-started"
  BY DEF WorkflowInit, ApprovalInit
<1>. QED
  BY <1>1, <1>2, <1>3 DEF Finished, Rooted, RunIsRooted, BranchNeverCompletes

(* confirmDispatch keeps the recorded flow run a story of the Dispatch     *)
(* History, through branches, returns, re-plans and new flows.             *)
THEOREM FlowRunFitsHistory ==
  ASSUME Losable = {}
  PROVE  WorkflowSpec => []RunIsRooted
<1>1. WorkflowInit => Agreement /\ Rooted
  BY InitialShape, InitialRun DEF Agreement, Finished
<1>2. Agreement /\ Rooted /\ [WorkflowNext]_workflowVars => (Agreement /\ Rooted)'
  BY AgreementStep, RootedStep
<1>3. Rooted => RunIsRooted
  BY DEF Rooted
<1>. QED
  BY <1>1, <1>2, <1>3, PTL DEF WorkflowSpec

(* validateCompletion ends no task inside a branch.  The proof needs that  *)
(* no proposal carries Status: completed; submitProgress does not check it.*)
THEOREM BranchesReturnFirst ==
  ASSUME Losable = {}, ~CompletedProposals
  PROVE  WorkflowSpec => []BranchNeverCompletes
<1>1. WorkflowInit => Agreement /\ Finished
  BY InitialShape, InitialRun DEF Agreement
<1>2. Agreement /\ Finished /\ [WorkflowNext]_workflowVars => (Agreement /\ Finished)'
  BY AgreementStep, FinishedStep
<1>3. Finished => BranchNeverCompletes
  BY DEF Finished
<1>. QED
  BY <1>1, <1>2, <1>3, PTL DEF WorkflowSpec

(* Every request of workflow control changes the approval only as          *)
(* DispatchApproval allows, or loses the question and the records with   *)
(* the runtime state.                                                      *)
THEOREM ControlUsesApproval == WorkflowSpec => KeepsApproval
<1>1. WorkflowInit => ApprovalInit
  BY DEF WorkflowInit
<1>2. WorkflowInit => Agreement
  BY InitialShape DEF Agreement
<1>3. Agreement /\ [WorkflowNext]_workflowVars => Agreement'
  BY AgreementStep
<1>4. Agreement /\ [WorkflowNext]_workflowVars => [ApprovalNext \/ ApprovalLoss]_approvalVars
  <2>. SUFFICES ASSUME Agreement, [WorkflowNext]_workflowVars PROVE [ApprovalNext \/ ApprovalLoss]_approvalVars
    OBVIOUS
  <2>1. CASE \E f \in Flows, r \in Roles, k \in Kinds : SubmitProposal(f, r, k)
    <3>1. PICK f \in Flows, r \in Roles, k \in Kinds : SubmitProposal(f, r, k)
      BY <2>1
    <3>2. Approve(r, k # "plain") /\ (k # "plain") \in BOOLEAN
      BY <3>1 DEF SubmitProposal
    <3>. QED
      BY <3>2 DEF ApprovalNext
  <2>2. CASE \E m \in Messages : ClaimDispatch(m) \/ ReleaseDispatch(m) \/ ConfirmDispatch(m)
    <3>1. PICK m \in Messages : ClaimDispatch(m) \/ ReleaseDispatch(m) \/ ConfirmDispatch(m)
      BY <2>2
    <3>2. CASE ClaimDispatch(m)
      <4>1. Claim(approval.role, m) /\ approval.role \in Roles
        BY <3>2, NoApprovalIsNone
           DEF ClaimDispatch, Claim, RouteAuthorized, Pending, Agreement, Shape, Approval
      <4>. QED
        BY <4>1 DEF ApprovalNext
    <3>3. CASE ReleaseDispatch(m)
      BY <3>3 DEF ReleaseDispatch, ApprovalNext
    <3>4. CASE ConfirmDispatch(m)
      BY <3>4 DEF ConfirmDispatch, ApprovalNext
    <3>. QED
      BY <3>1, <3>2, <3>3, <3>4
  <2>. QED
    BY <2>1, <2>2
       DEF WorkflowNext, workflowVars, SubmitCompletion, CancelDispatch, RequestUserInput, ResolveUserInput,
           WriteArtifact, WriteGate, LoseState, ApprovalLoss, ApprovalNext
<1>. QED
  BY <1>1, <1>2, <1>3, <1>4, PTL DEF WorkflowSpec, KeepsApproval
-----------------------------------------------------------------------------
(* Code is tested before the Architect goes on with it.                    *)

Later(i) == \E j \in RunRows : j > i /\ history[j].role = "tester"
Untested == {i \in RunRows : Repairs(i) /\ ~Later(i)}
\* activeFlowSegment, of the recorded run.
Segment == {i \in RunRows : \A j \in Rows : j >= i => flows[j] = flow}
\* A Tester row of the segment follows all its Architect rows.
Tested == \E t \in Segment : /\ history[t].role = "tester"
                             /\ \A i \in Segment : history[i].role = "architect" => i < t

(* What a legal proposal tells of the rows before it. *)
Follows(f, r) ==
  /\ flow = "code-change" /\ active.role = "coder" => <<f, r>> # <<"code-change", "architect">>
  /\ flow = "code-change" /\ f = "architect-debug" => r = "architect"
  /\ flow = "architect-debug" /\ f = "code-change" => value["debug"] = "normal plan" \/ Tested
  /\ flow = "architect-debug" /\ f = "architecture-diagnosis" => Tested \/ active.role = "coder"
  /\ flow = "architect-debug" /\ f = flow /\ r = "coder" =>
       run.resumed # "none" \/ active.role = "coder"
  /\ flow = "architecture-diagnosis" /\ f # flow =>
       Tested \/ \A i \in Segment : history[i].role # "tester"

(* An approval given without a user record was legal, and still follows    *)
(* the same rows.                                                          *)
Judged ==
  approval # NoApproval /\ ~approval.granted /\ status # "completed" /\ history # <<>> =>
    Follows(pending.flow, approval.role)

(* Which branches a run may be in. *)
Branched == /\ run.branch # "none" => run.resumed = "none"
            /\ run.branch = "architect-debug" => run.root = "code-change"
            /\ run.branch = "architecture-diagnosis" => run.root \in {"code-change", "architect-debug"}

(* What a run may still owe a Tester. *)
Owing ==
  /\ run.branch = "none" /\ ~(flow = "code-change" /\ active.role = "coder") => Untested = {}
  /\ run.branch = "architecture-diagnosis" => Untested \subseteq Segment
  /\ flow = "architect-debug" /\ active.role = "coder" => run.root = "architect-debug"

(* The flows asked for, and a Debug report no role rewrites out of turn. *)
Orderly == /\ task \in Tasks
           /\ DOMAIN value = Artifacts /\ value["debug"] \in Values["debug"]
           /\ history # <<>> => flow \in task.flows
           /\ approval # NoApproval => pending.flow \in task.flows
DebugInTurn == \A t \in Tasks : t.late => "architect-debug" \notin t.flows

TestInv == /\ Agreement /\ Rooted /\ Orderly /\ Branched /\ Judged
           /\ history # <<>> /\ Unaided(RunRows) => Owing
-----------------------------------------------------------------------------
LEMMA LeastExists ==
  ASSUME NEW U, U \subseteq Nat, U # {}
  PROVE  \E x \in U : \A y \in U : x <= y
<1>1. PICK x \in U : \A y \in U : ~(<<y, x>> \in OpToRel(<, Nat))
  BY WFMin, NatLessThanWellFounded
<1>2. \A y \in U : <<y, x>> \in OpToRel(<, Nat) <=> y < x
  BY DEF OpToRel
<1>3. ASSUME NEW y \in U PROVE x <= y
  <2>1. x \in Nat /\ y \in Nat /\ ~(y < x)
    BY <1>1, <1>2
  <2>. QED
    BY <2>1
<1>. QED
  BY <1>3

LEMMA LastOfIsLast ==
  ASSUME NEW n \in Nat, NEW S, S \subseteq 1..n
  PROVE  /\ S = {} => LastOf(S) = 0
         /\ S # {} => LastOf(S) \in S /\ \A j \in S : j <= LastOf(S)
<1>1. CASE S = {}
  BY <1>1 DEF LastOf
<1>2. CASE S # {}
  <2>. DEFINE U == {b \in Nat : \A i \in S : i <= b}
  <2>1. n \in U
    OBVIOUS
  <2>2. PICK b \in U : \A c \in U : b <= c
    BY <2>1, LeastExists
  <2>3. b \in Nat /\ \A i \in S : i \in 1..n /\ i <= b
    OBVIOUS
  <2>4. b # 0
    <3>. HIDE DEF U
    <3>1. PICK i \in S : TRUE
      BY <1>2
    <3>. QED
      BY <2>3, <3>1
  <2>5. \E i \in S : ~(i <= b - 1)
    <3>1. b - 1 \in Nat /\ ~(b <= b - 1)
      BY <2>3, <2>4
    <3>. QED
      BY <2>2, <3>1
  <2>. HIDE DEF U
  <2>6. b \in S
    BY <2>3, <2>5
  <2>7. \E i \in S : \A j \in S : j <= i
    BY <2>3, <2>6
  <2>8. LastOf(S) = CHOOSE i \in S : \A j \in S : j <= i
    BY <1>2, Zenon DEF LastOf
  <2>. QED
    BY <1>2, <2>7, <2>8, Zenon
<1>. QED
  BY <1>1, <1>2

LEMMA RowsOfView ==
  ASSUME Shape
  PROVE  /\ View.status = status /\ View.flow = flow /\ View.run = run /\ View.active = active
         /\ View.value = value /\ View.gate = gate /\ View.fresh = fresh
         /\ DOMAIN View.rows = Rows /\ Len(history) \in Nat
         /\ \A i \in Rows : View.rows[i].flow = flows[i] /\ View.rows[i].role = history[i].role
         /\ (View.rows = <<>> <=> history = <<>>)
<1>1. Len(flows) = Len(history) /\ Len(history) \in Nat /\ DOMAIN flows = 1..Len(history)
  BY DEF Shape
<1>2. View.rows = [i \in 1..Len(history) |-> [flow |-> flows[i], role |-> history[i].role]]
  BY <1>1 DEF View
<1>3. View.rows = <<>> <=> history = <<>>
  <2>1. View.rows \in Seq({View.rows[i] : i \in 1..Len(history)}) /\ Len(View.rows) = Len(history)
    BY <1>1, <1>2
  <2>. QED
    BY <1>1, <2>1 DEF Shape
<1>. QED
  BY <1>1, <1>2, <1>3 DEF View, Rows

(* The last row is in the segment, and it is the active dispatch. *)
LEMMA SegmentEnds ==
  ASSUME Agreement, Rooted, history # <<>>
  PROVE  /\ Len(history) \in Nat \ {0} /\ Len(history) \in Segment /\ Segment \subseteq Rows
         /\ ActiveSegment(View) = Segment
         /\ active.flow = flow /\ active.role = history[Len(history)].role
         /\ active.role \in TargetRoles
<1>. DEFINE n == Len(history)
<1>1. n \in Nat \ {0} /\ Len(flows) = n /\ flow = flows[n] /\ run.start \in 1..n
  BY DEF Agreement, Rooted, Shape, RunIsRooted, Rows
<1>2. active = [seq |-> n, flow |-> flows[n], role |-> history[n].role]
  BY <1>1 DEF Agreement, Consistent
<1>3. history[n].role \in TargetRoles
  <2>1. Roles = TargetRoles
    BY ControlAssumption
  <2>2. history[n] \in Row
    BY <1>1 DEF Agreement, Shape
  <2>. QED
    BY <2>1, <2>2 DEF Row
<1>4. n \in Segment
  BY <1>1 DEF Segment, RunRows, Rows
<1>5. ActiveSegment(View) = Segment
  <2>1. ResolveFlowRun(View) = run
    BY RunOfTheHistory
  <2>2. \A i : i \in ActiveSegment(View) <=>
                 i \in Rows /\ i >= run.start /\ \A j \in Rows : j >= i => flows[j] = flow
    BY <2>1, RowsOfView DEF ActiveSegment, Agreement
  <2>. QED
    BY <2>2 DEF Segment, RunRows
<1>. QED
  BY <1>1, <1>2, <1>3, <1>4, <1>5 DEF Segment, RunRows

LEMMA LastRowIsLast ==
  ASSUME Agreement, Rooted, history # <<>>, NEW r
  PROVE  LET last == LastRowOf(View, r)
         IN  /\ last \in Nat
             /\ last = 0 => \A i \in Segment : history[i].role # r
             /\ last # 0 => last \in Segment /\ history[last].role = r
             /\ \A i \in Segment : history[i].role = r => i <= last
<1>. DEFINE S == {i \in Segment : history[i].role = r}
<1>1. Len(history) \in Nat /\ Segment \subseteq 1..Len(history) /\ S \subseteq 1..Len(history)
  BY SegmentEnds DEF Rows
<1>2. LastRowOf(View, r) = LastOf(S)
  <2>1. \A i \in Segment : View.rows[i].role = history[i].role
    BY SegmentEnds, RowsOfView DEF Agreement
  <2>2. {i \in ActiveSegment(View) : View.rows[i].role = r} = S
    BY <2>1, SegmentEnds
  <2>. QED
    BY <2>2, Zenon DEF LastRowOf
<1>3. /\ S = {} => LastOf(S) = 0
      /\ S # {} => LastOf(S) \in S /\ \A j \in S : j <= LastOf(S)
  BY <1>1, LastOfIsLast
<1>4. CASE S = {}
  BY <1>1, <1>2, <1>3, <1>4
<1>5. CASE S # {}
  BY <1>1, <1>2, <1>3, <1>5
<1>. QED
  BY <1>4, <1>5

LEMMA AfterTesterGoes ==
  ASSUME NEW v, NEW here, NEW onFailure, NEW onFindings, NEW success, NEW f, NEW r,
         <<f, r>> \in AllowedAfterTester(v, here, onFailure, onFindings, success)
  PROVE  \/ f = here /\ r = "tester"
         \/ f \in {onFailure, onFindings} /\ r = "architect"
         \/ <<f, r>> \in success
BY DEF AllowedAfterTester, To

LEMMA PostImplementationStays ==
  ASSUME NEW v, NEW here, NEW f, NEW r, <<f, r>> \in AllowedPostImplementation(v, here)
  PROVE  f = here
BY DEF AllowedPostImplementation, AllowedFromPlan, To

LEMMA CorrectionGoes ==
  ASSUME NEW v, NEW here, NEW f, NEW r, <<f, r>> \in AllowedDocsCorrection(v, here)
  PROVE  \/ f = here /\ r \in {"coder", "tester"}
         \/ here = "code-change" /\ f = "architect-debug" /\ r = "architect"
         \/ here = "architect-debug" /\ f = "architecture-diagnosis" /\ r = "architect"
BY DEF AllowedDocsCorrection, To

\* In the code-change flow nothing passes from a Coder to the Architect.
LEMMA CodeChangeGoes ==
  ASSUME Agreement, Rooted, history # <<>>, flow = "code-change",
         NEW f, NEW r, <<f, r>> \in AllowedCodeChange(View)
  PROVE  /\ active.role = "coder" => <<f, r>> # <<"code-change", "architect">>
         /\ f = "architect-debug" => r = "architect"
<1>. DEFINE coder == LastRowOf(View, "coder")
            tester == LastRowOf(View, "tester")
            after == AllowedAfterTester(View, "code-change", "architect-debug", "architect-debug",
                                        To("code-change", "architect"))
            legal == <<f, r>>
<1>1. /\ legal \in after => r \in {"tester", "architect"} /\ (f = "architect-debug" => r = "architect")
      /\ legal \in AllowedPostImplementation(View, "code-change") => f = "code-change"
      /\ \A b \in BOOLEAN : legal \in AllowedFromPlan(View, b) => f = "code-change"
  <2>1. legal \in after => \/ f = "code-change" /\ r = "tester"
                           \/ f \in {"architect-debug", "architect-debug"} /\ r = "architect"
                           \/ <<f, r>> \in To("code-change", "architect")
    BY AfterTesterGoes
  <2>2. legal \in AllowedPostImplementation(View, "code-change") => f = "code-change"
    BY PostImplementationStays
  <2>3. \A b \in BOOLEAN : legal \in AllowedFromPlan(View, b) => f = "code-change"
    BY DEF AllowedFromPlan, To
  <2>. QED
    BY <2>1, <2>2, <2>3 DEF To
<1>2. \/ legal \in AllowedPostImplementation(View, "code-change")
      \/ legal \in after
      \/ legal \in AllowedFromPlan(View, FALSE)
      \/ legal \in {<<"code-change", "architect">>, <<"code-change", "coder">>,
                    <<"architect-debug", "architect">>, <<"code-change", "tester">>}
  BY Zenon DEF AllowedCodeChange, To
<1>3. f = "architect-debug" => r = "architect"
  BY <1>1, <1>2
<1>4. ASSUME active.role = "coder" PROVE legal # <<"code-change", "architect">>
  <2>. DEFINE n == Len(history)
  <2>1. n \in Nat \ {0} /\ n \in Segment /\ history[n].role = "coder" /\ Segment \subseteq 1..n
    BY <1>4, SegmentEnds DEF Rows
  <2>2. /\ coder \in Nat /\ n <= coder
    BY <2>1, LastRowIsLast
  <2>3. tester \in Nat /\ (tester # 0 => tester \in Segment /\ history[tester].role = "tester")
    BY LastRowIsLast
  <2>4. coder # 0 /\ tester < coder
    BY <2>1, <2>2, <2>3
  <2>5. legal \in {<<"code-change", "coder">>, <<"architect-debug", "architect">>,
                   <<"code-change", "tester">>}
    BY <2>4, Zenon DEF AllowedCodeChange, To
  <2>. QED
    BY <2>5
<1>. QED
  BY <1>3, <1>4

\* A branch is left by its report alone, or once its repair is tested.
LEMMA FixGoes ==
  ASSUME Agreement, Rooted, history # <<>>, flow \in Branches,
         NEW f, NEW r, <<f, r>> \in AllowedArchitectFix(View, flow)
  PROVE  \/ r # "coder" /\ (f = flow \/ Tested)
         \/ f = flow /\ run.resumed # "none"
         \/ /\ r = "architect" /\ \A i \in Segment : history[i].role # "tester"
            /\ flow = "architect-debug" => \/ value["debug"] = "analysis"
                                           \/ value["debug"] = "normal plan" /\ f = "code-change"
<1>. DEFINE report == IF flow = "architect-debug" THEN "debug" ELSE "diagnosis"
            architect == LastRowOf(View, "architect")
            tester == LastRowOf(View, "tester")
            parent == IF run.branch = "none" THEN "none" ELSE run.root
            after == AllowedAfterTester(View, flow,
                       IF flow = "architect-debug" THEN "architecture-diagnosis" ELSE "none", flow,
                       To(IF parent = "none" THEN flow ELSE parent, "architect"))
            legal == <<f, r>>
<1>1. ResolveFlowRun(View) = run /\ View.value = value
  BY RunOfTheHistory, RowsOfView DEF Agreement
<1>2. /\ architect \in Nat /\ tester \in Nat
      /\ tester = 0 => \A i \in Segment : history[i].role # "tester"
      /\ tester # 0 => tester \in Segment /\ history[tester].role = "tester"
      /\ \A i \in Segment : history[i].role = "architect" => i <= architect
      /\ architect # 0 => history[architect].role = "architect"
  BY LastRowIsLast
<1>3. ASSUME tester # 0, ~(architect > tester) PROVE Tested
  <2>1. ASSUME NEW i \in Segment, history[i].role = "architect" PROVE i < tester
    <3>1. i <= tester /\ i # tester /\ i \in Nat
      BY <1>2, <1>3, <2>1, SegmentEnds DEF Rows
    <3>. QED
      BY <1>2, <3>1
  <2>. QED
    BY <1>2, <1>3, <2>1 DEF Tested
<1>4. \/ legal \in AllowedPostImplementation(View, flow) /\ run.resumed # "none"
      \/ legal \in To(flow, "architect") \cup To(flow, "tester")
      \/ tester = 0 /\ value[report] = "normal plan" /\ legal \in To("code-change", "architect")
      \/ tester = 0 /\ value[report] = "analysis" /\ legal \in To(parent, "architect")
      \/ tester # 0 /\ ~(architect > tester) /\ legal \in after
  BY <1>1, Zenon DEF AllowedArchitectFix
<1>5. CASE legal \in AllowedPostImplementation(View, flow) /\ run.resumed # "none"
  BY <1>5, PostImplementationStays
<1>6. CASE legal \in To(flow, "architect") \cup To(flow, "tester")
  BY <1>6 DEF To
<1>7. CASE /\ tester = 0
           /\ \/ value[report] = "normal plan" /\ legal \in To("code-change", "architect")
              \/ value[report] = "analysis" /\ legal \in To(parent, "architect")
  BY <1>2, <1>7 DEF To
<1>8. CASE tester # 0 /\ ~(architect > tester) /\ legal \in after
  <2>1. \/ f = flow /\ r = "tester"
        \/ r = "architect"
        \/ legal \in To(IF parent = "none" THEN flow ELSE parent, "architect")
    BY <1>8, AfterTesterGoes
  <2>2. r # "coder"
    BY <2>1 DEF To
  <2>. QED
    BY <1>3, <1>8, <2>2
<1>. QED
  BY <1>4, <1>5, <1>6, <1>7, <1>8

(* Whatever the evidence, a legal proposal follows the rows as Follows says. *)
LEMMA LegalFollows ==
  ASSUME Agreement, Rooted, history # <<>>, status # "completed", value["debug"] # "analysis",
         NEW f, NEW r, <<f, r>> \in AllowedTransitions(View)
  PROVE  Follows(f, r)
<1>1. /\ View.status = status /\ View.flow = flow /\ View.rows # <<>> /\ View.active = active
      /\ flow \in Flows /\ flow # "none"
  BY RowsOfView, RunOfTheHistory DEF Agreement, Flows
<1>2. CASE flow \in {"docs-only", "validation-only"}
  BY <1>2 DEF Follows
<1>3. ASSUME flow \notin {"docs-only", "validation-only"}
      PROVE  \/ active.role = "coder" /\ <<f, r>> \in AllowedDocsCorrection(View, flow)
             \/ flow = "code-change" /\ <<f, r>> \in AllowedCodeChange(View)
             \/ flow \in Branches /\ <<f, r>> \in AllowedArchitectFix(View, flow)
  <2>1. CoderCorrectsDocs(View, flow) => active.role = "coder"
    BY <1>1 DEF CoderCorrectsDocs, Matches
  <2>2. flow # "code-change" => flow \in Branches
    BY <1>1, <1>3 DEF Flows, Branches
  <2>. QED
    BY <1>1, <1>3, <2>1, <2>2, Zenon DEF AllowedTransitions
<1>4. CASE active.role = "coder" /\ <<f, r>> \in AllowedDocsCorrection(View, flow)
  <2>1. \/ f = flow /\ r \in {"coder", "tester"}
        \/ flow = "code-change" /\ f = "architect-debug" /\ r = "architect"
        \/ flow = "architect-debug" /\ f = "architecture-diagnosis" /\ r = "architect"
    BY <1>4, CorrectionGoes
  <2>. QED
    BY <1>4, <2>1 DEF Follows
<1>5. CASE flow = "code-change" /\ <<f, r>> \in AllowedCodeChange(View)
  BY <1>5, CodeChangeGoes DEF Follows
<1>6. CASE flow \in Branches /\ <<f, r>> \in AllowedArchitectFix(View, flow)
  <2>1. \/ r # "coder" /\ (f = flow \/ Tested)
        \/ f = flow /\ run.resumed # "none"
        \/ /\ r = "architect" /\ \A i \in Segment : history[i].role # "tester"
           /\ flow = "architect-debug" => value["debug"] = "normal plan" /\ f = "code-change"
    BY <1>6, FixGoes
  <2>. QED
    BY <1>6, <2>1 DEF Follows, Branches
<1>. QED
  BY <1>2, <1>3, <1>4, <1>5, <1>6
-----------------------------------------------------------------------------
\* advanceFlowRun once more, with the conditions of each case.
LEMMA AdvancedWhen ==
  ASSUME Rooted, NEW f \in Flows
  PROVE  LET n    == Len(history) + 1
             next == AdvanceFlowRun(View, f, n)
             on   == history # <<>> /\ status # "completed"
         IN  \/ next = [root |-> f, branch |-> "none", resumed |-> "none", start |-> n]
             \/ on /\ f = flow /\ next = run
             \/ /\ on /\ next = [run EXCEPT !.branch = f, !.resumed = "none"]
                /\ \/ flow = "code-change" /\ f = "architect-debug" /\ run.root = "code-change"
                   \/ /\ flow = "architect-debug" /\ f = "architecture-diagnosis"
                      /\ \/ run.root = "code-change" /\ run.branch = "architect-debug"
                         \/ run.root = "architect-debug" /\ run.branch = "none"
             \/ /\ on /\ next = [run EXCEPT !.branch = "none", !.resumed = flow]
                /\ f # flow /\ run.branch = flow /\ f = run.root
                /\ flow = "architect-debug" /\ f = "code-change" => value["debug"] # "normal plan"
<1>1. View.flow = flow /\ View.status = status /\ View.value = value
  BY DEF View
<1>2. NewRun(f, Len(history) + 1) =
        [root |-> f, branch |-> "none", resumed |-> "none", start |-> Len(history) + 1]
  <2>. DEFINE g == [NoRun EXCEPT !.root = f]
  <2>1. g = [root |-> f, branch |-> "none", resumed |-> "none", start |-> 0]
    BY DEF NoRun
  <2>2. NewRun(f, Len(history) + 1) = [g EXCEPT !.start = Len(history) + 1]
    BY DEF NewRun
  <2>. HIDE DEF g
  <2>. QED
    BY <2>1, <2>2
<1>3. CASE history = <<>>
  BY <1>1, <1>2, <1>3 DEF Rooted, AdvanceFlowRun
<1>4. CASE history # <<>>
  <2>1. ResolveFlowRun(View) = run
    BY <1>4, RunOfTheHistory
  <2>. QED
    BY <1>1, <1>2, <1>4, <2>1 DEF AdvanceFlowRun
<1>. QED
  BY <1>3, <1>4

(* What a confirmation adds to the rows. *)
LEMMA ConfirmedRows ==
  ASSUME Agreement, Rooted, NEW m \in Messages, ConfirmDispatch(m)
  PROVE  LET n == Len(history)
         IN  /\ n \in Nat /\ Rows = 1..n /\ Rows' = 1..(n + 1) /\ history' # <<>>
             /\ \A i \in 1..n : flows'[i] = flows[i] /\ history'[i] = history[i]
             /\ flows'[n + 1] = pending.flow /\ flow' = pending.flow /\ pending.flow \in Flows
             /\ history'[n + 1].role = approval.role /\ active'.role = approval.role
             /\ history'[n + 1].granted = approval.granted
             /\ approval # NoApproval /\ approval.role \in TargetRoles
             /\ run' = AdvanceFlowRun(View, pending.flow, n + 1)
             /\ run'.start \in Nat /\ run'.start <= n + 1
<1>. DEFINE n == Len(history)
            row == [rev |-> approval.rev, role |-> approval.role, msg |-> m,
                    source |-> "hook", granted |-> approval.granted]
<1>1. /\ approval # NoApproval /\ approval \in Approval /\ history' = Append(history, row)
      /\ run' = AdvanceFlowRun(View, pending.flow, n + 1) /\ flow' = pending.flow
      /\ active'.role = approval.role
  BY NoApprovalIsNone
     DEF ConfirmDispatch, Confirm, ConfirmAllowed, Claimed, Dispatching, Agreement, Shape
<1>2. history \in Seq(Row) /\ row \in Row /\ approval.role \in Roles
  BY <1>1 DEF Agreement, Shape, Row, Approval
<1>3. Roles = TargetRoles
  BY ControlAssumption
<1>4. /\ n \in Nat /\ Len(history') = n + 1 /\ history' # <<>> /\ history'[n + 1] = row
      /\ \A i \in 1..n : history'[i] = history[i]
  BY <1>1, <1>2
<1>5. /\ flows'[n + 1] = pending.flow /\ pending.flow \in Flows
      /\ \A i \in 1..n : flows'[i] = flows[i]
  BY ConfirmedRow DEF Agreement
<1>6. Rooted'
  BY ConfirmKeepsAgreement, ConfirmKeepsRooted DEF Agreement
<1>7. run'.start \in Nat /\ run'.start <= n + 1
  BY <1>4, <1>6 DEF Rooted, RunIsRooted, Rows
<1>. QED
  BY <1>1, <1>2, <1>3, <1>4, <1>5, <1>7 DEF Rows

\* A tested branch owes nothing, for what was before it came before its Tester.
LEMMA TestedOwesNothing ==
  ASSUME Agreement, Rooted, history # <<>>, flow \in Branches, Tested
  PROVE  Untested = {}
<1>1. PICK t \in Segment : /\ history[t].role = "tester"
                           /\ \A i \in Segment : history[i].role = "architect" => i < t
  BY DEF Tested
<1>2. t \in RunRows /\ t \in Rows /\ \A j \in Rows : j >= t => flows[j] = flow
  BY DEF Segment, RunRows
<1>3. Rows \subseteq Nat /\ RunRows \subseteq Rows
  BY DEF Rows, RunRows
<1>4. ASSUME NEW i \in RunRows, Repairs(i) PROVE Later(i)
  <2>1. CASE i \in Segment
    <3>1. flows[i] = flow
      BY <1>3, <2>1 DEF Segment
    <3>2. history[i].role = "architect"
      BY <1>4, <3>1 DEF Repairs, RowIs, Branches
    <3>. QED
      BY <1>1, <1>2, <1>3, <2>1, <3>2 DEF Later
  <2>2. CASE i \notin Segment
    <3>1. PICK j \in Rows : j >= i /\ flows[j] # flow
      BY <1>3, <2>2 DEF Segment
    <3>2. i < t
      BY <1>2, <1>3, <3>1
    <3>. QED
      BY <1>1, <1>2, <3>2 DEF Later
  <2>. QED
    BY <2>1, <2>2
<1>. QED
  BY <1>4 DEF Untested

\* A dispatch in the same run adds its own row, and as a Tester's settles all.
LEMMA KeptRun ==
  ASSUME Agreement, Rooted, NEW m \in Messages, ConfirmDispatch(m), history # <<>>,
         run'.start = run.start, run'.root = run.root
  PROVE  LET n == Len(history)
         IN  /\ RunRows' = RunRows \cup {n + 1} /\ n + 1 \notin RunRows
             /\ Untested' \subseteq Untested \cup {n + 1}
             /\ approval.role = "tester" => Untested' = {}
             /\ n + 1 \in Untested' =>
                  \/ pending.flow = "code-change" /\ approval.role = "coder"
                  \/ pending.flow = "architect-debug" /\ run.root = "code-change"
                  \/ pending.flow = "architecture-diagnosis" /\ run.root # pending.flow
<1>. DEFINE n == Len(history)
<1>1. /\ n \in Nat /\ Rows = 1..n /\ Rows' = 1..(n + 1) /\ run.start \in Nat /\ run.start <= n + 1
      /\ \A i \in 1..n : flows'[i] = flows[i] /\ history'[i] = history[i]
      /\ flows'[n + 1] = pending.flow /\ history'[n + 1].role = approval.role
  BY ConfirmedRows
<1>2. /\ RunRows' = RunRows \cup {n + 1} /\ n + 1 \notin RunRows
      /\ RunRows \subseteq 1..n
  BY <1>1 DEF RunRows
<1>3. ASSUME NEW i \in RunRows PROVE Repairs(i)' => Repairs(i)
  <2>1. flows'[i] = flows[i] /\ history'[i] = history[i] /\ i \in 1..n
    BY <1>1, <1>2
  <2>2. SentBack(i)' => SentBack(i)
    <3>. SUFFICES ASSUME SentBack(i)' PROVE SentBack(i)
      OBVIOUS
    <3>1. PICK k \in RunRows' : /\ k < i /\ history'[k].role = "tester"
                                /\ \A l \in k..i : flows'[l] = flows'[i]
      BY DEF SentBack
    <3>2. k \in RunRows
      BY <1>1, <1>2, <2>1, <3>1
    <3>3. \A l \in k..i : flows[l] = flows[i]
      BY <1>1, <1>2, <2>1, <3>1, <3>2
    <3>. QED
      BY <1>1, <1>2, <3>1, <3>2, <3>3 DEF SentBack
  <2>. QED
    BY <2>1, <2>2 DEF Repairs, RowIs
<1>4. ASSUME NEW i \in RunRows, Later(i) PROVE Later(i)'
  BY <1>1, <1>2, <1>4 DEF Later
<1>5. ASSUME approval.role = "tester", NEW i \in RunRows PROVE Later(i)'
  BY <1>1, <1>2, <1>5 DEF Later
<1>6. ASSUME NEW i, i = n + 1, Repairs(i)'
      PROVE  \/ pending.flow = "code-change" /\ approval.role = "coder"
             \/ /\ pending.flow = "architect-debug" /\ run.root = "code-change"
                /\ approval.role = "architect"
             \/ /\ pending.flow = "architecture-diagnosis" /\ run.root # pending.flow
                /\ approval.role = "architect"
  BY <1>1, <1>6 DEF Repairs, RowIs
<1>7. \A i : i \in Untested' <=> i \in RunRows' /\ Repairs(i)' /\ ~Later(i)'
  BY DEF Untested
<1>8. \A i : i \in Untested <=> i \in RunRows /\ Repairs(i) /\ ~Later(i)
  BY DEF Untested
<1>9. Untested' \subseteq Untested \cup {n + 1}
  BY <1>2, <1>3, <1>4, <1>7, <1>8
<1>10. ASSUME approval.role = "tester" PROVE Untested' = {}
  BY <1>2, <1>5, <1>6, <1>7, <1>10
<1>. QED
  BY <1>2, <1>6, <1>7, <1>9, <1>10

(* The recorded run after a confirmation, field by field. *)
LEMMA ConfirmedRun ==
  ASSUME Agreement, Rooted, NEW m \in Messages, ConfirmDispatch(m)
  PROVE  LET f    == pending.flow
             on   == history # <<>> /\ status # "completed"
             kept == run'.root = run.root /\ run'.start = run.start
         IN  \/ /\ run'.root = f /\ run'.branch = "none" /\ run'.start = Len(history) + 1
             \/ on /\ f = flow /\ run' = run
             \/ /\ on /\ kept /\ run'.branch = f /\ run'.resumed = "none"
                /\ \/ flow = "code-change" /\ f = "architect-debug" /\ run.root = "code-change"
                   \/ /\ flow = "architect-debug" /\ f = "architecture-diagnosis"
                      /\ \/ run.root = "code-change" /\ run.branch = "architect-debug"
                         \/ run.root = "architect-debug" /\ run.branch = "none"
             \/ /\ on /\ kept /\ run'.branch = "none"
                /\ f # flow /\ run.branch = flow /\ f = run.root
                /\ flow = "architect-debug" /\ f = "code-change" => value["debug"] # "normal plan"
<1>. DEFINE f == pending.flow
            n == Len(history) + 1
<1>1. f \in Flows /\ run' = AdvanceFlowRun(View, f, n) /\ run \in RunType
  BY ConfirmedRows DEF Rooted
<1>2. ASSUME NEW b, NEW s, run' = [run EXCEPT !.branch = b, !.resumed = s]
      PROVE  /\ run'.root = run.root /\ run'.start = run.start
             /\ run'.branch = b /\ run'.resumed = s
  BY <1>1, <1>2 DEF RunType
<1>3. CASE run' = [root |-> f, branch |-> "none", resumed |-> "none", start |-> n]
  BY <1>3
<1>4. CASE history # <<>> /\ status # "completed" /\ f = flow /\ run' = run
  BY <1>4
<1>5. CASE /\ history # <<>> /\ status # "completed"
           /\ run' = [run EXCEPT !.branch = f, !.resumed = "none"]
           /\ \/ flow = "code-change" /\ f = "architect-debug" /\ run.root = "code-change"
              \/ /\ flow = "architect-debug" /\ f = "architecture-diagnosis"
                 /\ \/ run.root = "code-change" /\ run.branch = "architect-debug"
                    \/ run.root = "architect-debug" /\ run.branch = "none"
  <2>1. /\ run'.root = run.root /\ run'.start = run.start
        /\ run'.branch = f /\ run'.resumed = "none"
    BY <1>2, <1>5
  <2>. QED
    BY <1>5, <2>1
<1>6. CASE /\ history # <<>> /\ status # "completed"
           /\ run' = [run EXCEPT !.branch = "none", !.resumed = flow]
           /\ f # flow /\ run.branch = flow /\ f = run.root
           /\ flow = "architect-debug" /\ f = "code-change" => value["debug"] # "normal plan"
  <2>1. run'.root = run.root /\ run'.start = run.start /\ run'.branch = "none"
    BY <1>2, <1>6
  <2>. QED
    BY <1>6, <2>1
<1>7. Rooted
  OBVIOUS
<1>. HIDE DEF n
<1>8. n = Len(history) + 1
  BY DEF n
<1>. QED
  BY <1>1, <1>3, <1>4, <1>5, <1>6, <1>7, <1>8, AdvancedWhen, Zenon

LEMMA ConfirmKeepsBranched ==
  ASSUME Agreement, Rooted, Branched, NEW m \in Messages, ConfirmDispatch(m)
  PROVE  Branched'
BY ConfirmedRun DEF Branched

(* What a confirmed dispatch still owes, case by case of the recorded run. *)
LEMMA ConfirmKeepsOwing ==
  ASSUME TestInv, NEW m \in Messages, ConfirmDispatch(m), Unaided(RunRows)'
  PROVE  Owing'
<1>. DEFINE n == Len(history)
            f == pending.flow
            r == approval.role
            on == history # <<>> /\ status # "completed"
            kept == run'.root = run.root /\ run'.start = run.start
<1>1. Agreement /\ Rooted /\ Branched
  BY DEF TestInv
<1>2. /\ n \in Nat /\ Rows = 1..n /\ Rows' = 1..(n + 1)
      /\ \A i \in 1..n : flows'[i] = flows[i] /\ history'[i] = history[i]
      /\ flows'[n + 1] = f /\ flow' = f /\ f \in Flows
      /\ history'[n + 1].role = r /\ active'.role = r /\ r \in TargetRoles
      /\ history'[n + 1].granted = approval.granted
      /\ approval # NoApproval /\ run'.start \in Nat /\ run'.start <= n + 1
  BY <1>1, ConfirmedRows
<1>3. ~approval.granted
  <2>1. n + 1 \in RunRows'
    BY <1>2 DEF RunRows
  <2>. QED
    BY <1>2, <2>1 DEF Unaided
<1>4. on => Follows(f, r)
  BY <1>2, <1>3 DEF TestInv, Judged
<1>5. ASSUME on, kept
      PROVE  /\ Owing
             /\ RunRows' = RunRows \cup {n + 1} /\ Untested' \subseteq Untested \cup {n + 1}
             /\ r = "tester" => Untested' = {}
             /\ n + 1 \in Untested' => \/ f = "code-change" /\ r = "coder"
                                       \/ f = "architect-debug" /\ run.root = "code-change"
                                       \/ f = "architecture-diagnosis" /\ run.root # f
  <2>1. RunRows' = RunRows \cup {n + 1} /\ RunRows \subseteq 1..n
    BY <1>1, <1>2, <1>5, KeptRun DEF RunRows
  <2>2. Unaided(RunRows)
    BY <1>2, <2>1 DEF Unaided
  <2>. QED
    BY <1>1, <1>5, <2>2, KeptRun DEF TestInv
<1>6. ASSUME run'.root = f, run'.branch = "none", run'.start = n + 1
      PROVE  Owing'
  <2>1. RunRows' = {n + 1}
    BY <1>2, <1>6 DEF RunRows
  <2>2. n + 1 \in Untested' => f = "code-change" /\ r = "coder"
    BY <1>2, <1>6 DEF Untested, Repairs, RowIs
  <2>3. Untested' \subseteq {n + 1}
    BY <2>1 DEF Untested
  <2>. QED
    BY <1>2, <1>6, <2>2, <2>3 DEF Owing
<1>7. ASSUME on, f = flow, run' = run
      PROVE  Owing'
  <2>1. kept
    BY <1>7
  <2>2. Owing /\ Follows(f, r) /\ (run.branch = "none" => flow = run.root)
    BY <1>1, <1>4, <1>5, <1>7, <2>1 DEF Rooted, RunIsRooted
  <2>3. run.branch = "none" /\ ~(f = "code-change" /\ r = "coder") => Untested' = {}
    <3>. SUFFICES ASSUME run.branch = "none", ~(f = "code-change" /\ r = "coder"), r # "tester"
                  PROVE  Untested' = {}
      BY <1>5, <1>7, <2>1
    <3>1. r = "architect" \/ f # "code-change"
      BY <1>2 DEF TargetRoles
    <3>2. Untested = {}
      BY <1>7, <2>2, <3>1 DEF Owing, Follows
    <3>. QED
      BY <1>5, <1>7, <2>1, <2>2, <3>2
  <2>4. run.branch = "architecture-diagnosis" => Untested' \subseteq Segment'
    <3>. SUFFICES ASSUME run.branch = "architecture-diagnosis", NEW i \in Untested'
                  PROVE  i \in Segment'
      OBVIOUS
    <3>1. i \in Segment \cup {n + 1}
      BY <1>5, <1>7, <2>1, <2>2 DEF Owing
    <3>2. i \in RunRows'
      BY <1>5, <1>7, <2>1, <3>1 DEF Segment
    <3>3. ASSUME NEW j \in Rows', j >= i PROVE flows'[j] = flow'
      BY <1>2, <1>7, <3>1, <3>3 DEF Segment
    <3>. QED
      BY <3>2, <3>3 DEF Segment
  <2>5. f = "architect-debug" /\ r = "coder" => run.root = "architect-debug"
    BY <1>1, <1>7, <2>2 DEF Owing, Follows, Branched
  <2>. QED
    BY <1>2, <1>7, <2>3, <2>4, <2>5 DEF Owing
<1>8. ASSUME on, kept, run'.branch = f, run'.resumed = "none",
             \/ flow = "code-change" /\ f = "architect-debug" /\ run.root = "code-change"
             \/ /\ flow = "architect-debug" /\ f = "architecture-diagnosis"
                /\ \/ run.root = "code-change" /\ run.branch = "architect-debug"
                   \/ run.root = "architect-debug" /\ run.branch = "none"
      PROVE  Owing'
  <2>1. Owing /\ Follows(f, r)
    BY <1>4, <1>5, <1>8
  <2>2. f = "architect-debug" => r # "coder"
    BY <1>8, <2>1 DEF Follows
  <2>3. f = "architecture-diagnosis" => Untested' \subseteq Segment'
    <3>. SUFFICES ASSUME f = "architecture-diagnosis", NEW i \in Untested' PROVE i \in Segment'
      OBVIOUS
    <3>1. Tested \/ active.role = "coder"
      BY <1>8, <2>1 DEF Follows
    <3>2. Untested = {}
      <4>1. Tested => Untested = {}
        BY <1>1, <1>8, TestedOwesNothing DEF Branches
      <4>2. active.role = "coder" => Untested = {}
        BY <1>8, <2>1 DEF Owing
      <4>. QED
        BY <3>1, <4>1, <4>2
    <3>3. i = n + 1 /\ i \in RunRows'
      BY <1>5, <1>8, <3>2
    <3>4. ASSUME NEW j \in Rows', j >= i PROVE flows'[j] = flow'
      BY <1>2, <3>3, <3>4
    <3>. QED
      BY <3>3, <3>4 DEF Segment
  <2>. QED
    BY <1>2, <1>8, <2>2, <2>3 DEF Owing
<1>9. ASSUME on, kept, run'.branch = "none", f # flow, run.branch = flow, f = run.root,
             flow = "architect-debug" /\ f = "code-change" => value["debug"] # "normal plan"
      PROVE  Owing'
  <2>1. Owing /\ Follows(f, r) /\ Branched
    BY <1>1, <1>4, <1>5, <1>9
  <2>2. flow \in Branches
    BY <1>1, <1>9, RunOfTheHistory DEF Rooted, RunType, Flows
  <2>3. Untested = {}
    <3>1. CASE flow = "architect-debug"
      <4>1. f = "code-change"
        BY <1>9, <2>1, <3>1 DEF Branched
      <4>2. Tested
        BY <1>9, <2>1, <3>1, <4>1 DEF Follows
      <4>. QED
        BY <1>1, <1>9, <2>2, <4>2, TestedOwesNothing
    <3>2. CASE flow = "architecture-diagnosis" /\ Tested
      BY <1>1, <1>9, <2>2, <3>2, TestedOwesNothing
    <3>3. ASSUME flow = "architecture-diagnosis", \A k \in Segment : history[k].role # "tester",
                 NEW i \in Untested
          PROVE  FALSE
      <4>1. i \in Segment /\ i \in RunRows /\ Repairs(i) /\ RunRows \subseteq 1..n
        BY <1>2, <1>9, <2>1, <3>3 DEF Owing, Untested, RunRows
      <4>2. i \in 1..n /\ \A j \in 1..n : j >= i => flows[j] = flow
        BY <1>2, <4>1 DEF Segment
      <4>3. flows[i] = flow
        BY <4>2
      <4>4. SentBack(i)
        BY <3>3, <4>1, <4>3 DEF Repairs, RowIs
      <4>5. PICK k \in RunRows : /\ k < i /\ history[k].role = "tester"
                                 /\ \A l \in k..i : flows[l] = flows[i]
        BY <4>4 DEF SentBack
      <4>6. ASSUME NEW j \in 1..n, j >= k PROVE flows[j] = flow
        BY <4>1, <4>2, <4>3, <4>5, <4>6
      <4>7. k \in Segment
        BY <1>2, <4>5, <4>6 DEF Segment
      <4>. QED
        BY <3>3, <4>5, <4>7
    <3>4. flow = "architecture-diagnosis" =>
            Tested \/ \A k \in Segment : history[k].role # "tester"
      BY <1>9, <2>1 DEF Follows
    <3>. QED
      BY <2>2, <3>1, <3>2, <3>3, <3>4 DEF Branches
  <2>4. ~(f = "code-change" /\ r = "coder") => Untested' = {}
    BY <1>5, <1>9, <2>3
  <2>. QED
    BY <1>2, <1>9, <2>4 DEF Owing
<1>. QED
  BY <1>1, <1>6, <1>7, <1>8, <1>9, ConfirmedRun
-----------------------------------------------------------------------------
\* What the rows say is said of the rows alone.
LEMMA SameRows ==
  ASSUME UNCHANGED <<history, flows, flow, run, active>>
  PROVE  /\ Tested' <=> Tested
         /\ Unaided(RunRows)' <=> Unaided(RunRows)
         /\ Owing' <=> Owing
         /\ Branched' <=> Branched
<1>1. Rows' = Rows /\ RunRows' = RunRows
  BY DEF Rows, RunRows
<1>2. Segment' = Segment
  BY <1>1 DEF Segment
<1>3. Tested' <=> Tested
  BY <1>2 DEF Tested
<1>4. Untested' = Untested
  <2>1. \A i : SentBack(i)' <=> SentBack(i)
    BY <1>1 DEF SentBack
  <2>2. \A i : Repairs(i)' <=> Repairs(i)
    BY <2>1 DEF Repairs, RowIs
  <2>3. \A i : Later(i)' <=> Later(i)
    BY <1>1 DEF Later
  <2>. QED
    BY <1>1, <2>2, <2>3 DEF Untested
<1>. QED
  BY <1>1, <1>2, <1>3, <1>4 DEF Unaided, Owing, Branched

LEMMA DebugIsAnArtifact == "debug" \in Artifacts /\ "analysis" \notin Values["debug"]
BY DEF Artifacts, Values

(* Nothing but a confirmation touches the rows; the Debug report changes   *)
(* in no way that the Policy does not know.                                *)
LEMMA OrderlyStep ==
  ASSUME Losable = {}, Agreement, Orderly, [WorkflowNext]_workflowVars
  PROVE  Orderly'
<1>1. task' = task
  BY DEF WorkflowNext, workflowVars, controlVars, SubmitProposal, SubmitCompletion, ClaimDispatch,
         ReleaseDispatch, ConfirmDispatch, CancelDispatch, RequestUserInput, ResolveUserInput,
         WriteArtifact, WriteGate, LoseState
<1>2. DOMAIN value' = Artifacts /\ value'["debug"] \in Values["debug"]
  <2>1. CASE \E a \in Artifacts : WriteArtifact(a)
    <3>1. PICK a \in Artifacts : WriteArtifact(a)
      BY <2>1
    <3>2. PICK x \in task.writes[a] : value' = [value EXCEPT ![a] = x]
      BY <3>1 DEF WriteArtifact
    <3>3. x \in Values[a]
      BY <3>2, ControlAssumption DEF Orderly
    <3>4. value'["debug"] = IF a = "debug" THEN x ELSE value["debug"]
      BY <3>1, <3>2, DebugIsAnArtifact DEF Orderly
    <3>. QED
      BY <3>1, <3>2, <3>3, <3>4 DEF Orderly
  <2>2. CASE value' = value
    BY <2>2 DEF Orderly
  <2>. QED
    BY <2>1, <2>2
       DEF WorkflowNext, workflowVars, controlVars, SubmitProposal, SubmitCompletion, ClaimDispatch,
           ReleaseDispatch, ConfirmDispatch, CancelDispatch, RequestUserInput, ResolveUserInput,
           WriteGate, LoseState
<1>3. ASSUME NEW f \in Flows, NEW r \in Roles, NEW k, SubmitProposal(f, r, k)
      PROVE  f \in task.flows /\ pending'.flow = f /\ UNCHANGED <<history, flow>>
  BY <1>3 DEF SubmitProposal, Approve
<1>4. ASSUME NEW m \in Messages, ConfirmDispatch(m)
      PROVE  approval # NoApproval /\ flow' = pending.flow /\ approval' = NoApproval
  BY <1>4, NoApprovalIsNone DEF ConfirmDispatch, Confirm, ConfirmAllowed, Claimed, Dispatching
<1>5. ASSUME NEW m \in Messages, ClaimDispatch(m) \/ ReleaseDispatch(m)
      PROVE  approval # NoApproval /\ UNCHANGED <<pending, history, flow>>
  BY <1>5, NoApprovalIsNone
     DEF ClaimDispatch, ReleaseDispatch, Claim, Release, Claimed, Dispatching, RouteAuthorized,
         Pending, controlVars
<1>6. CASE \E m \in Messages : ConfirmDispatch(m)
  BY <1>1, <1>2, <1>4, <1>6 DEF Orderly
<1>7. CASE UNCHANGED <<history, flow>> /\ (approval' = NoApproval \/ UNCHANGED <<approval, pending>>)
  BY <1>1, <1>2, <1>7 DEF Orderly
<1>8. CASE \E f \in Flows, r \in Roles, k \in Kinds : SubmitProposal(f, r, k)
  BY <1>1, <1>2, <1>3, <1>8 DEF Orderly
<1>9. CASE \E m \in Messages : ClaimDispatch(m) \/ ReleaseDispatch(m)
  BY <1>1, <1>2, <1>5, <1>9 DEF Orderly
<1>. QED
  BY <1>6, <1>7, <1>8, <1>9
     DEF WorkflowNext, workflowVars, approvalVars, controlVars, SubmitCompletion, CompleteFlow, CancelDispatch,
         Cancel, RequestUserInput, AskUser, ResolveUserInput, ResolveQuestion, WriteArtifact,
         WriteGate, LoseState

(* An approval keeps following its rows, unless the Debug report it was    *)
(* judged on may change under it.                                          *)
LEMMA JudgedStep ==
  ASSUME Losable = {}, DebugInTurn, Agreement, Rooted, Orderly, Judged, [WorkflowNext]_workflowVars
  PROVE  Judged'
<1>1. ASSUME UNCHANGED <<history, flows, flow, run, active>>, NEW f, NEW r, Follows(f, r),
             value' = value \/ flow # "architect-debug"
      PROVE  Follows(f, r)'
  <2>1. Tested' <=> Tested
    BY <1>1, SameRows
  <2>2. Segment' = Segment
    BY <1>1 DEF Segment, Rows, RunRows
  <2>. QED
    BY <1>1, <2>1, <2>2 DEF Follows
<1>2. CASE approval' = NoApproval
  BY <1>2 DEF Judged
<1>3. ASSUME NEW f \in Flows, NEW r \in Roles, NEW k \in Kinds, SubmitProposal(f, r, k)
      PROVE  Judged'
  <2>1. /\ approval'.role = r /\ approval'.granted = (k # "plain") /\ pending'.flow = f
        /\ UNCHANGED <<history, flows, flow, run, active, value>>
        /\ status' # "completed" => status' = status
        /\ k = "plain" => <<f, r>> \in AllowedTransitions(View)
    <3>1. /\ Approve(r, k # "plain") /\ pending' = [flow |-> f, kind |-> k, base |-> Len(history)]
          /\ Granted(f, r, k) /\ UNCHANGED <<flows, flow, run, active, value>>
          /\ status' \in {status} \cup (IF CompletedProposals THEN {"completed"} ELSE {})
      BY <1>3 DEF SubmitProposal
    <3>2. status' # "completed" => status' = status
      BY <3>1
    <3>3. approval' = [status |-> "pending", rev |-> revision + 1, role |-> r, msg |-> NoMessage,
                       unconfirmed |-> FALSE, granted |-> (k # "plain")]
      BY <3>1, Zenon DEF Approve, NoApproval
    <3>4. history' = history
      BY <3>1 DEF Approve
    <3>5. k = "plain" => <<f, r>> \in AllowedTransitions(View)
      BY <3>1 DEF Granted
    <3>. QED
      BY <3>1, <3>2, <3>3, <3>4, <3>5
  <2>2. SUFFICES ASSUME k = "plain", status # "completed", history # <<>>
                 PROVE  Judged'
    BY <2>1 DEF Judged
  <2>3. value["debug"] # "analysis"
    BY DebugIsAnArtifact DEF Orderly
  <2>4. Follows(f, r)
    BY <2>1, <2>2, <2>3, LegalFollows
  <2>5. Follows(f, r)'
    BY <1>1, <2>1, <2>4
  <2>. QED
    BY <2>1, <2>5 DEF Judged, Follows
<1>4. ASSUME UNCHANGED <<history, flows, flow, run, active, pending>>,
             approval # NoApproval, approval'.role = approval.role,
             approval'.granted = approval.granted,
             status' = status, value' = value \/ flow # "architect-debug" \/ history = <<>>
      PROVE  Judged'
  <2>1. Tested' <=> Tested
    BY <1>4, SameRows
  <2>2. Segment' = Segment
    BY <1>4 DEF Segment, Rows, RunRows
  <2>. QED
    BY <1>4, <2>1, <2>2 DEF Judged, Follows
<1>5. ASSUME NEW m \in Messages, ClaimDispatch(m) \/ ReleaseDispatch(m)
      PROVE  Judged'
  <2>1. /\ UNCHANGED <<history, flows, flow, run, active, pending, status, value>>
        /\ approval # NoApproval /\ approval \in Approval
    BY <1>5, NoApprovalIsNone
       DEF ClaimDispatch, ReleaseDispatch, Claim, Release, Claimed, Dispatching, RouteAuthorized,
           Pending, controlVars, Agreement, Shape
  <2>2. approval'.role = approval.role /\ approval'.granted = approval.granted
    BY <1>5, <2>1
       DEF ClaimDispatch, ReleaseDispatch, Claim, Release, Claimed, Unclaimed, Approval
  <2>. QED
    BY <1>4, <2>1, <2>2
<1>6. ASSUME NEW a \in Artifacts, WriteArtifact(a), approval # NoApproval
      PROVE  Judged'
  <2>1. task.late
    BY <1>6 DEF WriteArtifact, AtWork
  <2>2. flow # "architect-debug" \/ history = <<>>
    BY <2>1 DEF DebugInTurn, Orderly
  <2>3. UNCHANGED <<approval, history, flows, flow, run, active, pending, status>>
    BY <1>6 DEF WriteArtifact, approvalVars
  <2>. QED
    BY <1>4, <1>6, <2>2, <2>3
<1>7. CASE UNCHANGED <<approval, history, flows, flow, run, active, pending, status, value>>
  <2>. SUFFICES ASSUME approval # NoApproval PROVE Judged'
    BY <1>2, <1>7
  <2>. QED
    BY <1>4, <1>7
<1>8. CASE \E m \in Messages : ConfirmDispatch(m)
  BY <1>2, <1>8 DEF ConfirmDispatch, Confirm
<1>9. CASE \E a \in Artifacts : WriteArtifact(a)
  <2>1. approval' = approval
    BY <1>9 DEF WriteArtifact, approvalVars
  <2>. QED
    BY <1>2, <1>6, <1>9, <2>1
<1>10. CASE \E f \in Flows, r \in Roles, k \in Kinds : SubmitProposal(f, r, k)
  BY <1>3, <1>10
<1>11. CASE \E m \in Messages : ClaimDispatch(m) \/ ReleaseDispatch(m)
  BY <1>5, <1>11
<1>12. CASE SubmitCompletion \/ CancelDispatch \/ RequestUserInput
  BY <1>2, <1>12 DEF SubmitCompletion, CompleteFlow, CancelDispatch, Cancel, RequestUserInput, AskUser
<1>. QED
  BY <1>7, <1>8, <1>9, <1>10, <1>11, <1>12
     DEF WorkflowNext, workflowVars, approvalVars, controlVars, ResolveUserInput, ResolveQuestion, WriteGate,
         LoseState

LEMMA TestStep ==
  ASSUME Losable = {}, DebugInTurn, TestInv, [WorkflowNext]_workflowVars
  PROVE  TestInv'
<1>1. /\ Agreement' /\ Rooted' /\ Orderly' /\ Judged'
      /\ Agreement /\ Rooted /\ Branched
      /\ history # <<>> /\ Unaided(RunRows) => Owing
  BY AgreementStep, RootedStep, OrderlyStep, JudgedStep DEF TestInv
<1>2. CASE \E m \in Messages : ConfirmDispatch(m)
  <2>1. PICK m \in Messages : ConfirmDispatch(m)
    BY <1>2
  <2>2. Branched' /\ (Unaided(RunRows)' => Owing')
    BY <1>1, <2>1, ConfirmKeepsBranched, ConfirmKeepsOwing
  <2>. QED
    BY <1>1, <2>2 DEF TestInv
<1>3. CASE UNCHANGED <<history, flows, flow, run, active>>
  BY <1>1, <1>3, SameRows DEF TestInv
<1>. QED
  BY <1>2, <1>3
     DEF WorkflowNext, workflowVars, approvalVars, controlVars, SubmitProposal, Approve, SubmitCompletion,
         CompleteFlow, ClaimDispatch, Claim, ReleaseDispatch, Release, CancelDispatch, Cancel,
         RequestUserInput, AskUser, ResolveUserInput, ResolveQuestion, WriteArtifact, WriteGate,
         LoseState

(* allowedTransitions: unaided by the user, the Architect follows a Coder, *)
(* or the repair of a Debug or of a Diagnosis that a Tester sent back,     *)
(* only after a Tester dispatch in between - for flows of any length.  The *)
(* Debug report must stay as it was judged: confirmDispatch reads it again.*)
THEOREM CodeIsTested ==
  ASSUME Losable = {}, DebugInTurn
  PROVE  WorkflowSpec => []CodeIsTestedFirst
<1>1. WorkflowInit => TestInv
  <2>. SUFFICES ASSUME WorkflowInit PROVE TestInv
    OBVIOUS
  <2>1. Agreement /\ Rooted /\ history = <<>> /\ approval = NoApproval
    BY InitialShape, InitialRun DEF Agreement, Finished, WorkflowInit, ApprovalInit
  <2>2. Branched
    BY DEF WorkflowInit, NoRun, Branched
  <2>3. Orderly
    <3>1. DOMAIN value = Artifacts /\ value["debug"] = "missing" /\ task \in Tasks
      BY DebugIsAnArtifact DEF WorkflowInit
    <3>2. "missing" \in Values["debug"]
      BY DEF Values
    <3>. QED
      BY <2>1, <3>1, <3>2 DEF Orderly
  <2>. QED
    BY <2>1, <2>2, <2>3 DEF TestInv, Judged
<1>2. TestInv /\ [WorkflowNext]_workflowVars => TestInv'
  BY TestStep
<1>3. TestInv => CodeIsTestedFirst
  <2>. SUFFICES ASSUME TestInv, history # <<>>, Unaided(RunRows), run.branch = "none",
                       active.role = "architect", NEW i \in RunRows, Repairs(i)
                PROVE  \E j \in RunRows : j > i /\ history[j].role = "tester"
    BY DEF CodeIsTestedFirst
  <2>1. Untested = {}
    BY DEF TestInv, Owing
  <2>. QED
    BY <2>1 DEF Untested, Later
<1>. QED
  BY <1>1, <1>2, <1>3, PTL DEF WorkflowSpec
=============================================================================
