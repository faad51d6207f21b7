--------------------------- MODULE MessageDispatch ---------------------------
(***************************************************************************)
(* Delivery of the Project Manager's route messages by message-service,    *)
(* composed with the approval of DispatchApproval, the role terminals, the *)
(* UserPromptSubmit hooks and project recovery.                            *)
(*                                                                         *)
(* The message lock of the task serialises scans, hook confirmations and   *)
(* user requests; a scan holds it across several awaits, so its steps are  *)
(* actions of their own.  Workflow requests take only the workflow lock    *)
(* and may come between them.  Project recovery takes neither.             *)
(***************************************************************************)
EXTENDS DispatchApproval, FiniteSets

CONSTANTS
  MaxMessages,     \* bound on the generated message ids
  Crashes,         \* the backend may crash
  LiveReconnect,   \* a connected project may be connected again
  FaultySteps,     \* steps after which a file or session call of a request may throw
  HookLoss         \* a UserPromptSubmit hook may be lost

ASSUME DispatchAssumption ==
  /\ MaxMessages \in Nat
  /\ Messages = 1..MaxMessages
  /\ NoMessage = 0
  /\ FaultySteps \subseteq {"claimed", "submitted", "marked", "confirmed"}
  /\ {Crashes, LiveReconnect, HookLoss} \subseteq BOOLEAN

VARIABLES
  mode,      \* orchestration mode of the task
  route,     \* per role: the pending PM route file, as the revision it was
             \* written under; 0 when the file is blank
  log,       \* latest snapshot of every message in the JSONL log
  lastId,    \* the message ids handed out so far are 1..lastId
  holder,    \* the request that holds the message lock across awaits
  monitors,  \* messages with a running confirmation monitor
  busy,      \* per role: activityStatus is running
  connected, \* the backend runs and the project is connected
  recovery,  \* project recovery: its phase and the log it read
  box,       \* per role: the prompt in the terminal not yet submitted
  hooks,     \* UserPromptSubmit hooks on their way to the backend
  ran,       \* messages a role has started to execute
  claims     \* per message: the revision whose approval it claimed
messageVars == <<mode, route, log, lastId, holder, monitors, busy, connected,
                 recovery, box, hooks, ran, claims>>
vars == <<approvalVars, messageVars>>

(* What the snapshots of a message say of it; "pasted" is accepted with no *)
(* earlier snapshot, as a route pasted by the user is.                     *)
Stages  == {"none", "dispatching", "delivered", "accepted", "pasted", "failed"}
Accepted(e) == e.stage \in {"accepted", "pasted"}
NoEntry == [stage |-> "none", role |-> NoRole, work |-> 0]
Entry   == [stage : Stages, role : Roles \cup {NoRole}, work : 0..MaxRevision]

(* Steps of a request that keeps the message lock between awaits: a scan   *)
(* is listed, claimed, logged, submitted, marked; a hook or a Confirm      *)
(* Executed is confirmed; a route pasted by the user is pasted.            *)
HolderSteps == {"free", "listed", "claimed", "logged", "submitted", "marked",
                "confirmed", "pasted"}
Free   == [step |-> "free", role |-> NoRole, msg |-> NoMessage, work |-> 0]
Holder == [step : HolderSteps, role : Roles \cup {NoRole},
           msg : Messages \cup {NoMessage}, work : 0..MaxRevision]

Idle == [phase |-> "idle", read |-> [m \in Messages |-> NoEntry]]

MessageTypeOK ==
  /\ mode \in {"auto", "manual"}
  /\ route \in [Roles -> 0..MaxRevision]
  /\ log \in [Messages -> Entry]
  /\ lastId \in 0..MaxMessages
  /\ holder \in Holder
  /\ monitors \subseteq Messages
  /\ busy \in [Roles -> BOOLEAN]
  /\ connected \in BOOLEAN
  /\ recovery \in [phase : {"idle", "messages", "workflow"}, read : [Messages -> Entry]]
  /\ box \in [Roles -> Messages \cup {NoMessage}]
  /\ hooks \subseteq Messages
  /\ ran \subseteq Messages
  /\ claims \in [Messages -> 0..MaxRevision]

TypeOK == ApprovalTypeOK /\ MessageTypeOK

Init ==
  /\ ApprovalInit
  /\ mode = "auto"
  /\ route = [r \in Roles |-> 0]
  /\ log = [m \in Messages |-> NoEntry]
  /\ lastId = 0
  /\ holder = Free
  /\ monitors = {}
  /\ busy = [r \in Roles |-> FALSE]
  /\ connected = TRUE
  /\ recovery = Idle
  /\ box = [r \in Roles |-> NoMessage]
  /\ hooks = {}
  /\ ran = {}
  /\ claims = [m \in Messages |-> 0]

LockFree == connected /\ holder = Free
NextId   == lastId + 1

(* holder' when the request goes on, or releases the lock. *)
HoldAt(s)  == holder' = [holder EXCEPT !.step = s]
Unlock     == holder' = Free

(* mutant of ClearMatchingRoute: a newer route is blanked too *)
ClearAnyRoute(r, work) == route' = [route EXCEPT ![r] = 0]

(* clearRouteFileIfStillMatchesMessage *)
ClearMatchingRoute(r, work) ==
  route' = IF route[r] = work THEN [route EXCEPT ![r] = 0] ELSE route
-----------------------------------------------------------------------------
(* The Project Manager and the user. *)

SubmitProgress(r, granted) ==
  /\ connected
  /\ Approve(r, granted)
  /\ UNCHANGED messageVars

AskAndResolve ==
  /\ connected
  /\ AskUser \/ (asking /\ ResolveQuestion)
  /\ UNCHANGED messageVars

(* submitArtifact of a PM route message: it is checked against the approval *)
(* and replaces the route file.                                             *)
WriteRoute(r) ==
  /\ connected
  /\ RouteAuthorized(r)
  /\ route' = [route EXCEPT ![r] = revision]
  /\ UNCHANGED <<approvalVars, mode, log, lastId, holder, monitors, busy, connected,
                 recovery, box, hooks, ran, claims>>

SetMode ==
  /\ connected
  /\ mode' = IF mode = "auto" THEN "manual" ELSE "auto"
  /\ UNCHANGED <<approvalVars, route, log, lastId, holder, monitors, busy, connected,
                 recovery, box, hooks, ran, claims>>

(* mutant of MarkAllDone: the user's one-time record is left behind *)
MarkAllDoneKeepsGrant ==
  /\ LockFree
  /\ CancelAllowed
  /\ approval' = NoApproval
  /\ route' = [r \in Roles |-> 0]
  /\ UNCHANGED <<revision, asking, history, grant, mode, log, lastId, holder, monitors,
                 busy, connected, recovery, box, hooks, ran, claims>>

(* markAllDone: an approval being delivered makes the whole request fail.  *)
MarkAllDone ==
  /\ LockFree
  /\ Cancel
  /\ route' = [r \in Roles |-> 0]
  /\ UNCHANGED <<mode, log, lastId, holder, monitors, busy, connected, recovery,
                 box, hooks, ran, claims>>

DeleteMessageHistory ==
  /\ LockFree
  /\ ~Dispatching
  /\ log' = [m \in Messages |-> NoEntry]
  /\ UNCHANGED <<approvalVars, mode, route, lastId, holder, monitors, busy, connected,
                 recovery, box, hooks, ran, claims>>
-----------------------------------------------------------------------------
(* scanAndDispatchPendingRouteFiles, one PM route. *)

ListRoute(r) ==
  /\ LockFree
  /\ mode = "auto" /\ ~busy[r] /\ route[r] # 0
  /\ lastId < MaxMessages
  /\ lastId' = NextId
  /\ holder' = [step |-> "listed", role |-> r, msg |-> NextId, work |-> route[r]]
  /\ UNCHANGED <<approvalVars, mode, route, log, monitors, busy, connected, recovery,
                 box, hooks, ran, claims>>

(* A refused claim leaves the route pending and the scan goes on without it. *)
ClaimRoute ==
  /\ holder.step = "listed"
  /\ IF RouteAuthorized(holder.role)
     THEN /\ Claim(holder.role, holder.msg)
          /\ claims' = [claims EXCEPT ![holder.msg] = approval.rev]
          /\ HoldAt("claimed")
     ELSE Unlock /\ UNCHANGED <<approvalVars, claims>>
  /\ UNCHANGED <<mode, route, log, lastId, monitors, busy, connected, recovery,
                 box, hooks, ran>>

LogDispatching ==
  /\ holder.step = "claimed"
  /\ log' = [log EXCEPT ![holder.msg] =
               [stage |-> "dispatching", role |-> holder.role, work |-> holder.work]]
  /\ HoldAt("logged")
  /\ UNCHANGED <<approvalVars, mode, route, lastId, monitors, busy, connected, recovery,
                 box, hooks, ran, claims>>

(* mutant of SubmitToTerminal: a failed write keeps the claim *)
SubmitKeepsClaim ==
  /\ holder.step = "logged"
  /\ \/ box' = [box EXCEPT ![holder.role] = holder.msg] /\ HoldAt("submitted")
     \/ Unlock /\ UNCHANGED box
  /\ UNCHANGED <<approvalVars, mode, route, log, lastId, monitors, busy, connected,
                 recovery, hooks, ran, claims>>

(* submitTerminalInput: the paste and the Enter reach the role's prompt,   *)
(* or the write throws and the claim is released.                          *)
SubmitToTerminal ==
  /\ holder.step = "logged"
  /\ \/ /\ box' = [box EXCEPT ![holder.role] = holder.msg]
        /\ HoldAt("submitted")
        /\ UNCHANGED approvalVars
     \/ /\ Release(holder.msg)
        /\ Unlock
        /\ UNCHANGED box
  /\ UNCHANGED <<mode, route, log, lastId, monitors, busy, connected, recovery,
                 hooks, ran, claims>>

(* markRoleActivityRunning, scheduleDispatchConfirmation *)
MarkRunning ==
  /\ holder.step = "submitted"
  /\ busy' = [busy EXCEPT ![holder.role] = TRUE]
  /\ monitors' = monitors \cup {holder.msg}
  /\ HoldAt("marked")
  /\ UNCHANGED <<approvalVars, mode, route, log, lastId, connected, recovery,
                 box, hooks, ran, claims>>

(* onRouteDelivered, and scanLocked's append of the delivered snapshot.    *)
LogDelivered ==
  /\ holder.step = "marked"
  /\ log' = [log EXCEPT ![holder.msg] =
               [stage |-> "delivered", role |-> holder.role, work |-> holder.work]]
  /\ Unlock
  /\ UNCHANGED <<approvalVars, mode, route, lastId, monitors, busy, connected, recovery,
                 box, hooks, ran, claims>>

(* A call of the request throws where no handler gives the claim back: the *)
(* append of a snapshot, markRoleActivityRunning or onRouteDelivered.      *)
RequestFails ==
  /\ holder.step \in FaultySteps
  /\ Unlock
  /\ UNCHANGED <<approvalVars, mode, route, log, lastId, monitors, busy, connected,
                 recovery, box, hooks, ran, claims>>
-----------------------------------------------------------------------------
(* The role's Claude Code session. *)

(* The prompt is submitted by the first Enter, a retried one or the user's; *)
(* its hook marks the session running before it asks for the message lock.  *)
RoleStarts(r) ==
  /\ connected
  /\ box[r] # NoMessage
  /\ box' = [box EXCEPT ![r] = NoMessage]
  /\ ran' = ran \cup {box[r]}
  /\ hooks' = hooks \cup {box[r]}
  /\ busy' = [busy EXCEPT ![r] = TRUE]
  /\ UNCHANGED <<approvalVars, mode, route, log, lastId, holder, monitors,
                 connected, recovery, claims>>

RoleStops(r) ==
  /\ connected
  /\ busy[r] /\ box[r] = NoMessage
  /\ busy' = [busy EXCEPT ![r] = FALSE]
  /\ UNCHANGED <<approvalVars, mode, route, log, lastId, holder, monitors, connected,
                 recovery, box, hooks, ran, claims>>

LoseHook(m) ==
  /\ HookLoss
  /\ m \in hooks
  /\ hooks' = hooks \ {m}
  /\ UNCHANGED <<approvalVars, mode, route, log, lastId, holder, monitors, busy,
                 connected, recovery, box, ran, claims>>
-----------------------------------------------------------------------------

(* confirmPromptSubmitted for a prompt that carries a VCM message id.  An  *)
(* unknown or already accepted message changes nothing, and neither does a *)
(* confirmation the workflow refuses.                                      *)
HookArrives(m) ==
  /\ LockFree
  /\ m \in hooks
  /\ hooks' = hooks \ {m}
  /\ IF log[m].stage = "delivered" /\ ConfirmAllowed(m, "hook")
     THEN /\ Confirm(m, "hook")
          /\ holder' = [step |-> "confirmed", role |-> log[m].role, msg |-> m, work |-> log[m].work]
     ELSE UNCHANGED <<approvalVars, holder>>
  /\ UNCHANGED <<mode, route, log, lastId, monitors, busy, connected, recovery,
                 box, ran, claims>>

(* confirmDeliveredDispatch: the user's Confirm Executed. *)
ConfirmExecuted(m) ==
  /\ LockFree
  /\ log[m].stage = "delivered"
  /\ Confirm(m, "manual")
  /\ holder' = [step |-> "confirmed", role |-> log[m].role, msg |-> m, work |-> log[m].work]
  /\ UNCHANGED <<mode, route, log, lastId, monitors, busy, connected, recovery,
                 box, hooks, ran, claims>>

LogAccepted ==
  /\ holder.step = "confirmed"
  /\ log' = [log EXCEPT ![holder.msg] =
               [stage |-> IF @.stage = "none" THEN "pasted" ELSE "accepted",
                role |-> holder.role, work |-> holder.work]]
  /\ ClearMatchingRoute(holder.role, holder.work)
  /\ Unlock
  /\ UNCHANGED <<approvalVars, mode, lastId, monitors, busy, connected, recovery,
                 box, hooks, ran, claims>>

(* confirmManualRoute: the user pasted the route's text into the role's    *)
(* terminal; the prompt runs, and its hook claims and confirms in one go.  *)
PasteRoute(r) ==
  /\ LockFree
  /\ route[r] # 0 /\ ~busy[r]
  /\ lastId < MaxMessages
  /\ Claim(r, NextId)
  /\ lastId' = NextId
  /\ claims' = [claims EXCEPT ![NextId] = approval.rev]
  /\ ran' = ran \cup {NextId}
  /\ busy' = [busy EXCEPT ![r] = TRUE]
  /\ holder' = [step |-> "pasted", role |-> r, msg |-> NextId, work |-> route[r]]
  /\ UNCHANGED <<mode, route, log, monitors, connected, recovery, box, hooks>>

ConfirmPasted ==
  /\ holder.step = "pasted"
  /\ IF ConfirmAllowed(holder.msg, "hook")
     THEN Confirm(holder.msg, "hook") /\ HoldAt("confirmed")
     ELSE Release(holder.msg) /\ Unlock
  /\ UNCHANGED <<mode, route, log, lastId, monitors, busy, connected, recovery,
                 box, hooks, ran, claims>>
-----------------------------------------------------------------------------
(* mutant of MonitorEnds: an unconfirmed claim is given back at once *)
MonitorReleases(m) ==
  /\ LockFree
  /\ m \in monitors
  /\ monitors' = monitors \ {m}
  /\ IF log[m].stage # "none" /\ ~Accepted(log[m]) THEN Release(m) ELSE UNCHANGED approvalVars
  /\ UNCHANGED <<mode, route, log, lastId, holder, busy, connected, recovery,
                 box, hooks, ran, claims>>

(* mutant of MonitorEnds: it ends without telling anybody *)
MonitorGivesUp(m) ==
  /\ LockFree
  /\ m \in monitors
  /\ monitors' = monitors \ {m}
  /\ UNCHANGED <<approvalVars, mode, route, log, lastId, holder, busy, connected, recovery,
                 box, hooks, ran, claims>>

(* monitorDispatchConfirmation: Enter is retried (RoleStarts allows it),   *)
(* then the monitor gives up or finds the message accepted or gone.        *)
MonitorEnds(m) ==
  /\ LockFree
  /\ m \in monitors
  /\ monitors' = monitors \ {m}
  /\ IF log[m].stage # "none" /\ ~Accepted(log[m])
     THEN MarkUnconfirmed(m)
     ELSE UNCHANGED approvalVars
  /\ UNCHANGED <<mode, route, log, lastId, holder, busy, connected, recovery,
                 box, hooks, ran, claims>>
-----------------------------------------------------------------------------
(* A backend crash: requests, monitors, hooks and the role terminals go    *)
(* with the process; the files stay.                                       *)
Crash ==
  /\ Crashes /\ connected
  /\ connected' = FALSE
  /\ holder' = Free
  /\ monitors' = {}
  /\ hooks' = {}
  /\ box' = [r \in Roles |-> NoMessage]
  /\ busy' = [r \in Roles |-> FALSE]
  /\ recovery' = Idle
  /\ UNCHANGED <<approvalVars, mode, route, log, lastId, ran, claims>>

(* recoverProject, run by every project connect: recoverMessages reads the *)
(* log and rewrites it, without the message lock...                        *)
ReadForRecovery ==
  /\ ~connected \/ LiveReconnect
  /\ recovery.phase = "idle"
  /\ recovery' = [phase |-> "messages", read |-> log]
  /\ UNCHANGED <<approvalVars, mode, route, log, lastId, holder, monitors, busy,
                 connected, box, hooks, ran, claims>>

Recovered(e) == IF e.stage = "dispatching" THEN [e EXCEPT !.stage = "failed"] ELSE e

(* ... when any snapshot in it was dispatched and not accepted - of an     *)
(* accepted message, too, the first snapshots are.                         *)
HasOpenSnapshot(e) == e.stage \in {"dispatching", "delivered", "accepted"}
RecoverMessages ==
  /\ recovery.phase = "messages"
  /\ log' = IF \E m \in Messages : HasOpenSnapshot(recovery.read[m])
             THEN [m \in Messages |-> Recovered(recovery.read[m])]
             ELSE log
  /\ recovery' = [Idle EXCEPT !.phase = "workflow"]
  /\ UNCHANGED <<approvalVars, mode, route, lastId, holder, monitors, busy, connected,
                 box, hooks, ran, claims>>

(* recoverTask, under the workflow lock alone; the log tells whether the   *)
(* claimed message was delivered (wasDispatchDelivered).                   *)
RecoverWorkflow ==
  /\ recovery.phase = "workflow"
  /\ RecoverClaim(approval.msg # NoMessage /\ log[approval.msg].stage \in {"delivered", "accepted", "pasted"})
  /\ recovery' = Idle
  /\ connected' = TRUE
  /\ UNCHANGED <<mode, route, log, lastId, holder, monitors, busy, box, hooks, ran, claims>>
-----------------------------------------------------------------------------
ScanStep == \/ ClaimRoute \/ LogDispatching \/ SubmitToTerminal
            \/ MarkRunning \/ LogDelivered \/ RequestFails

Next ==
  \/ \E r \in Roles, g \in BOOLEAN : SubmitProgress(r, g)
  \/ AskAndResolve \/ SetMode \/ MarkAllDone \/ DeleteMessageHistory
  \/ \E r \in Roles : WriteRoute(r) \/ ListRoute(r) \/ PasteRoute(r)
                      \/ RoleStarts(r) \/ RoleStops(r)
  \/ ScanStep \/ LogAccepted \/ ConfirmPasted
  \/ \E m \in Messages : LoseHook(m) \/ HookArrives(m) \/ ConfirmExecuted(m) \/ MonitorEnds(m)
  \/ Crash \/ ReadForRecovery \/ RecoverMessages \/ RecoverWorkflow

Spec == Init /\ [][Next]_vars

(* The event loop resumes every request that is not waiting for the lock,  *)
(* and the promise chain of withTaskLock serves waiting requests in order. *)
Fairness ==
  /\ WF_vars(ScanStep) /\ WF_vars(LogAccepted) /\ WF_vars(ConfirmPasted)
  /\ \A m \in Messages : SF_vars(MonitorEnds(m))

FairSpec == Spec /\ Fairness
-----------------------------------------------------------------------------
HolderOwns(m) ==
  /\ holder.msg = m
  /\ holder.step \in {"claimed", "logged", "submitted", "marked", "pasted"}

(* A claimed approval is always somebody's business: the request that is   *)
(* delivering it, its confirmation monitor, a project recovery under way,  *)
(* or the user who was told that it is unconfirmed.  Otherwise nothing     *)
(* could end it but a restart: progress, questions, Mark All Done and      *)
(* history deletion all refuse.                                            *)
ClaimHasOwner ==
  Dispatching /\ connected =>
    \/ HolderOwns(approval.msg) \/ approval.msg \in monitors
    \/ recovery.phase = "workflow" \/ approval.unconfirmed

(* A row confirmed by a hook stands for a prompt the role really started.  *)
RowWasRun ==
  \A i \in 1..Len(history) : history[i].source = "hook" => history[i].msg \in ran

(* One approval is executed at most once, however dispatch, retry, release *)
(* and manual confirmation interleave.                                     *)
RunsOncePerApproval == \A m, n \in ran : claims[m] = claims[n] => m = n

(* Message log and Dispatch History tell the same story: a row's message   *)
(* is accepted (or about to be, or its log was deleted), and an accepted   *)
(* message has its row.                                                    *)
RowsAreAccepted ==
  /\ \A i \in 1..Len(history) :
       \/ log[history[i].msg].stage = "none" \/ Accepted(log[history[i].msg])
       \/ holder.step = "confirmed" /\ holder.msg = history[i].msg
  /\ \A m \in Messages :
       Accepted(log[m]) => \E i \in 1..Len(history) : history[i].msg = m

(* "returns only undelivered dispatching approvals to pending": no message *)
(* that the log shows VCM dispatching for an approval has reached a role's *)
(* terminal while that approval is pending, ready to be dispatched again.  *)
InTerminal(m) == m \in ran \/ \E r \in Roles : box[r] = m
OnlyUndeliveredReturnsToPending ==
  Pending => \A m \in Messages :
    InTerminal(m) /\ log[m].stage # "none" => claims[m] # approval.rev

(* "automatic route dispatch checks that the PM route matches the pending  *)
(* approval": the text in a terminal was written under the approval that   *)
(* its message claimed.                                                    *)
DeliversWhatWasApproved ==
  \A r \in Roles : box[r] # NoMessage => log[box[r]].work = claims[box[r]]

(* A route file is blanked only when the approval it was written under is  *)
(* over; a newer route the PM wrote meanwhile survives.                    *)
RouteOutlivesApproval ==
  [][\A r \in Roles : route[r] # 0 /\ route'[r] = 0 => approval'.rev # route[r]]_vars

(* A claim does not hang: it ends, or the user is told it is unconfirmed.  *)
ClaimResolves == Dispatching ~> (~Dispatching \/ approval.unconfirmed)

(* Delivery uses the approval only as DispatchApproval allows. *)
UsesApproval == ApprovalSpec
=============================================================================
