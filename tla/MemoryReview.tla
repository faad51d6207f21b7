---------------------------- MODULE MemoryReview ----------------------------
(***************************************************************************)
(* What follows an accepted task: auto-memory-service collects a memory    *)
(* proposal of every workflow role, harness-feedback-service has the       *)
(* Harness Engineer review them in one Task Harness Retrospective, and the *)
(* knowledge moved out of memory is assigned, document by document, to the *)
(* roles that own the documents.  runtime-coordinator-service drives both  *)
(* from a timer, the Harness route on the user's request, and the hooks of *)
(* the roles' turns report the results.                                    *)
(*                                                                         *)
(* An operation waits long while it launches a session; what it has read   *)
(* before is in its record (job, start).  The steps between two such waits *)
(* are one action.  What a proposal, a result or a report says is reduced  *)
(* to whether its validation accepts it and what it assigns or disposes of.*)
(***************************************************************************)
EXTENDS Naturals, FiniteSets, Sequences, SequencesExt

CONSTANTS
  Roles, PM, HE,    \* the workflow roles, the Project Manager, and the Harness Engineer
  NoRole,
  Drafters,         \* the roles asked for a proposal, in order
  Plans,            \* the owners of the documents one review assigns, NoRole if not known
  AutoReview,       \* autoTaskHarnessReviewEnabled
  Toggled,          \* whether the user switches Auto Memory on and off
  Hasty,            \* whether users act within the milliseconds of a hook, and
                    \* turns of the Harness Engineer end within a start
  MaxRuns,          \* bound on the memory review runs
  MaxAcceptances,   \* bound on the versions of the final acceptance
  MaxItems,         \* bound on the feedback reported
  MaxQueue,         \* bound on unread prompts when the coordinator comes round
  MaxEvents         \* bound on the other events from outside

ASSUME RolesAssumption ==
  /\ PM \in Roles /\ HE \notin Roles /\ NoRole \notin Roles \cup {HE}
  /\ {"tick", "user", "request"} \cap (Roles \cup {HE}) = {}
  /\ Drafters \in Seq(Roles) /\ Drafters # <<>> /\ Plans \subseteq Seq(Roles \cup {NoRole})
ASSUME BoundsAssumption ==
  /\ {AutoReview, Toggled, Hasty} \subseteq BOOLEAN
  /\ {MaxRuns, MaxAcceptances, MaxItems, MaxQueue, MaxEvents} \subseteq Nat

VARIABLES
  doing,      \* role -> the prompt its Claude works at, Rest, or Off
  input,      \* role -> the prompts waiting in its terminal
  draft,      \* the role whose turn it is to propose has written a valid proposal
  result,     \* the review result and the memory commit of a run
  evidence,   \* the assignments whose owner has reported and committed
  reports,    \* acceptance -> its retrospective report
  memory,     \* the committed memory, as a version
  review,     \* the active review, as stored
  runs,       \* the memory review runs, as stored
  marker,     \* the retrospective of the task, as stored
  inbox,      \* the pending feedback
  hook,       \* role -> the hook request whose handler is under way
  job,        \* the dispatch under way, which holds the lock of the task
  start,      \* caller -> how far its way to a retrospective is
  enabled, acceptance, reported, events
agentVars  == <<doing, input>>
workVars   == <<draft, result, evidence, reports, memory>>
reviewVars == <<review, runs>>
retroVars  == <<marker, inbox>>
callVars   == <<hook, job, start>>
worldVars  == <<enabled, acceptance, reported, events>>
vars == <<agentVars, workVars, reviewVars, retroVars, callVars, worldVars>>

Agents == Roles \cup {HE}
Callers == {"tick", "user"}
Off  == [kind |-> "off", run |-> 0, at |-> 0, items |-> {}]
Rest == [Off EXCEPT !.kind = "rest"]
Prompt(kind, run, at, items) == [kind |-> kind, run |-> run, at |-> at, items |-> items]
NoReview == [run |-> 0, status |-> "idle", done |-> 0, sent |-> FALSE, report |-> 0, docs |-> <<>>]
NoMarker == [status |-> "none", acceptance |-> 0, run |-> 0, items |-> {}, docsFailed |-> FALSE]
NoResult == [run |-> 0, plan |-> <<>>]
NoReport == [written |-> FALSE, valid |-> FALSE, items |-> {}]
Written(valid, items) == [written |-> TRUE, valid |-> valid, items |-> items]
NoHook == [step |-> "none", event |-> "none"]
NoJob == [caller |-> "none", kind |-> "none", review |-> NoReview]
NoStart == [step |-> "idle", acceptance |-> 0, run |-> 0, items |-> {}]

Busy(r) == doing[r] \notin {Off, Rest}
\* A stopped Round, as roundReady and maybeStartTaskHarnessRetrospective want.
Rested == \A r \in Roles : ~Busy(r)
Kept(run) == runs[run].status # "removed"
Unlocked == job = NoJob

(***************************************************************************)
(* The stored review.                                                      *)
(***************************************************************************)
\* Mutant: only the review turn outlives switching Auto Memory off.
PreservedReviewing(rv) == rv.status = "reviewing" /\ rv.report # 0
Preserved(rv) == rv.docs # <<>> \/ (rv.status = "reviewing" /\ rv.report # 0)
Discardable(rv) == rv # NoReview /\ ~enabled /\ ~Preserved(rv)
\* discardActiveReview
Discard == /\ review' = NoReview
           /\ runs' = [runs EXCEPT ![review.run].status = "removed"]
DiscardIfOff == IF Discardable(review) THEN Discard ELSE UNCHANGED reviewVars

\* Mutant: a reverted run is forgotten.
CompletedUnreverted(a) == \E i \in DOMAIN runs :
                   runs[i].acceptance = a /\ runs[i].status = "applied"
\* findCompletedRunForFinalAcceptance
Completed(a) == \E i \in DOMAIN runs :
                   runs[i].acceptance = a /\ runs[i].status \in {"applied", "reverted"}

Drafter(rv) == Drafters[rv.done + 1]
\* currentDurableDocAssignment: the one under way, or else the next.
CurrentDoc(docs) ==
  LET now == SelectInSeq(docs, LAMBDA d : d.status \in {"running", "resolving"})
  IN IF now # 0 THEN now ELSE SelectInSeq(docs, LAMBDA d : d.status \in {"pending", "waiting"})
DocRole(doc) == IF doc.owner = NoRole THEN PM ELSE doc.owner
Queued(doc) == [doc EXCEPT !.status = IF doc.owner = NoRole THEN "waiting" ELSE "pending"]

(***************************************************************************)
(* How an operation goes on after its dispatch, which ends its hold of the *)
(* lock: a hook with the retrospective, a tick and the user's request with *)
(* the start of one.                                                       *)
(***************************************************************************)
\* Mutant: documents that failed complete it as well.
CompleteWaitingAnyway(status) ==
  marker' = IF marker.status = "waiting" /\ status # "documenting"
            THEN [marker EXCEPT !.status = "completed", !.docsFailed = FALSE] ELSE marker
\* completeWaitingTaskRetrospective.  A status is used as soon as it is read.
CompleteWaiting(status) ==
  marker' = IF ~(marker.status = "waiting" \/ (marker.status = "failed" /\ marker.docsFailed))
            THEN marker
            ELSE CASE status = "documenting" -> [marker EXCEPT !.status = "waiting"]
                   [] status = "failed" -> [marker EXCEPT !.status = "failed", !.docsFailed = TRUE]
                   [] OTHER -> [marker EXCEPT !.status = "completed", !.docsFailed = FALSE]

Goes(caller) ==
  /\ hook' = IF caller \in Agents THEN [hook EXCEPT ![caller].step = "marker"] ELSE hook
  /\ start' = IF caller \in Callers THEN [start EXCEPT ![caller].step = "check"] ELSE start
Continue(caller) ==
  /\ job' = NoJob /\ Goes(caller)
  /\ IF caller = "tick" THEN CompleteWaiting(review'.status) ELSE UNCHANGED marker
\* The run of the review is gone: the operation throws.
Abort(caller) ==
  /\ job' = NoJob /\ UNCHANGED marker
  /\ hook' = IF caller \in Agents THEN [hook EXCEPT ![caller] = NoHook] ELSE hook
  /\ start' = IF caller \in Callers THEN [start EXCEPT ![caller] = NoStart] ELSE start

\* persistMemoryAssignmentState
Persist(rv) == review' = rv /\ runs' = [runs EXCEPT ![rv.run].docs = rv.docs]
\* failReview
Fail(caller, rv) ==
  /\ review' = [rv EXCEPT !.status = "failed"]
  /\ IF Kept(rv.run)
     THEN runs' = [runs EXCEPT ![rv.run].status = "failed"] /\ Continue(caller)
     ELSE UNCHANGED runs /\ Abort(caller)

(***************************************************************************)
(* Dispatching.                                                            *)
(***************************************************************************)
Dispatch(caller, kind, rv) ==
  /\ job' = [caller |-> caller, kind |-> kind, review |-> rv]
  /\ UNCHANGED <<hook, start, marker>>
\* finishDurableDocAssignments
FinishDocs(caller, rv) ==
  /\ IF \E i \in DOMAIN rv.docs : rv.docs[i].status = "failed"
     THEN Persist([rv EXCEPT !.status = "failed"])
     ELSE review' = NoReview /\ runs' = [runs EXCEPT ![rv.run].docs = rv.docs]
  /\ Continue(caller)
\* Mutant: an assignment on record as under way is left alone.
DispatchDocsOnce(caller, rv) ==
  LET i == CurrentDoc(rv.docs) IN
  IF i = 0 THEN FinishDocs(caller, rv)
  ELSE IF rv.docs[i].status \in {"running", "resolving"}
       THEN Persist(rv) /\ Continue(caller)
       ELSE Persist(rv) /\ Dispatch(caller, "doc", rv)
\* dispatchCurrentDurableDocAssignment: an assignment whose role has fallen
\* idle without an answer is dispatched again.
DispatchDocs(caller, rv) ==
  LET i == CurrentDoc(rv.docs) IN
  IF i = 0 THEN FinishDocs(caller, rv)
  ELSE IF rv.docs[i].status \in {"running", "resolving"} /\ Busy(DocRole(rv.docs[i]))
       THEN Persist(rv) /\ Continue(caller)
       ELSE LET queued == [rv EXCEPT !.docs[i] = Queued(rv.docs[i])]
            IN Persist(queued) /\ Dispatch(caller, "doc", queued)

JobRole == IF job.kind = "draft" THEN Drafter(job.review)
           ELSE DocRole(job.review.docs[CurrentDoc(job.review.docs)])
\* ensureWorkflowRoleSession
JobLaunches ==
  /\ ~Unlocked /\ doing[JobRole] = Off
  /\ doing' = [doing EXCEPT ![JobRole] = Rest]
  /\ UNCHANGED <<input, workVars, reviewVars, retroVars, callVars, worldVars>>
\* The rest of dispatchCurrentDraft and dispatchDurableDocAssignment: what
\* was read before the launch is stored, whatever has become of the file.
JobSubmits ==
  LET rv == job.review
      i == CurrentDoc(rv.docs)
      r == JobRole
  IN /\ ~Unlocked /\ doing[r] # Off
     /\ IF Busy(r) THEN UNCHANGED <<input, reviewVars>>
        ELSE IF job.kind = "draft"
        THEN /\ review' = [rv EXCEPT !.sent = TRUE] /\ UNCHANGED runs
             /\ input' = [input EXCEPT ![r] = Append(@, Prompt("draft", rv.run, 0, {}))]
        ELSE /\ Persist([rv EXCEPT !.docs[i].status =
                            IF rv.docs[i].owner = NoRole THEN "resolving" ELSE "running"])
             /\ input' = [input EXCEPT ![r] = Append(@,
                  Prompt(IF rv.docs[i].owner = NoRole THEN "owner" ELSE "doc", rv.run, i, {}))]
     /\ Continue(job.caller)
     /\ UNCHANGED <<doing, workVars, inbox, worldVars>>
Outside == events < MaxEvents /\ events' = events + 1
\* The session cannot be launched.
JobFails ==
  LET rv == job.review
      i == CurrentDoc(rv.docs)
      failed == [rv EXCEPT !.docs[i].status = "failed"]
  IN /\ Outside /\ ~Unlocked /\ doing[JobRole] = Off
     /\ IF job.kind = "draft" THEN Fail(job.caller, rv)
        ELSE IF CurrentDoc(failed.docs) = 0 THEN FinishDocs(job.caller, failed)
        ELSE Persist(failed) /\ Dispatch(job.caller, "doc", failed)
     /\ UNCHANGED <<agentVars, workVars, inbox, enabled, acceptance, reported>>

(***************************************************************************)
(* reconcileTask, for the coordinator's timer and for the user's request.  *)
(***************************************************************************)
\* A review is begun at rest, for an acceptance that has not been reviewed.
BeginsReview(caller) ==
  /\ review = NoReview /\ (caller = "user" \/ (AutoReview /\ Rested))
  /\ acceptance # 0 /\ ~Completed(acceptance) /\ Len(runs) < MaxRuns
NewRun == [status |-> "collecting", acceptance |-> acceptance, before |-> memory,
           after |-> memory, docs |-> <<>>]
Reconcile(caller) ==
  /\ Unlocked /\ start[caller] = NoStart /\ \A r \in Agents : Len(input[r]) < MaxQueue
  /\ IF review.status = "documenting"
     THEN DispatchDocs(caller, review) /\ UNCHANGED workVars
     ELSE IF review.status = "collecting" /\ enabled /\ ~review.sent
     THEN Dispatch(caller, "draft", review) /\ UNCHANGED <<reviewVars, workVars>>
     ELSE IF enabled /\ BeginsReview(caller)
     THEN LET rv == [NoReview EXCEPT !.run = Len(runs) + 1, !.status = "collecting"] IN
          /\ runs' = Append(runs, NewRun) /\ review' = rv
          /\ draft' = FALSE /\ result' = NoResult /\ evidence' = {}
          /\ Dispatch(caller, "draft", rv) /\ UNCHANGED <<reports, memory>>
     ELSE DiscardIfOff /\ Continue(caller) /\ UNCHANGED workVars
  /\ UNCHANGED <<agentVars, inbox, enabled, acceptance, reported>>
TickReconciles == Reconcile("tick") /\ UNCHANGED events
UserAsks       == Outside /\ Reconcile("user")

(***************************************************************************)
(* startTaskRetrospective, from the readiness check to the prompt.  It     *)
(* takes no lock: the timer and the user may both be on the way.           *)
(***************************************************************************)
At(caller, step) == start[caller].step = step
GivesUp(caller) == start' = [start EXCEPT ![caller] = NoStart]
\* getTaskRetrospectiveReadiness
Ready == \/ ~enabled \/ review.status = "reviewing"
         \/ review = NoReview /\ Completed(acceptance)
Triggered == enabled /\ (review # NoReview \/ Completed(acceptance))
\* What the marker on record leaves room for.
MayStart(a) == /\ marker.status \notin {"running", "waiting"}
               /\ marker.acceptance = a => marker.status \in {"none", "failed"}
Checks(caller) ==
  /\ At(caller, "check")
  /\ IF /\ Ready /\ acceptance # 0 /\ MayStart(acceptance) /\ ~Busy(HE)
        /\ caller = "tick" => (AutoReview \/ Triggered) /\ Rested
     THEN start' = [start EXCEPT ![caller] = [NoStart EXCEPT !.step = "prepare",
                                                             !.acceptance = acceptance]]
     ELSE GivesUp(caller)
  /\ UNCHANGED <<agentVars, workVars, reviewVars, retroVars, hook, job, worldVars>>

\* ensureIdleHarnessEngineer, listPendingFeedback and, with Auto Memory on,
\* prepareTaskRetrospectiveReview.
Prepares(caller) ==
  LET reviewed == enabled /\ review # NoReview
      usable == /\ review.status = "reviewing" /\ review.report = 0
                /\ Kept(review.run) /\ memory = runs[review.run].before
  IN /\ At(caller, "prepare")
     /\ doing' = [doing EXCEPT ![HE] = IF @ = Off THEN Rest ELSE @]
     /\ IF Busy(HE) \/ (reviewed /\ ~usable) THEN GivesUp(caller) /\ UNCHANGED review
        ELSE /\ start' = [start EXCEPT ![caller] = [@ EXCEPT !.step = "ask", !.items = inbox,
                                                   !.run = IF reviewed THEN review.run ELSE 0]]
             /\ review' = IF reviewed THEN [review EXCEPT !.report = start[caller].acceptance]
                          ELSE review
     /\ UNCHANGED <<input, workVars, runs, retroVars, hook, job, worldVars>>

\* The hook of a turn that ended before the start is not overtaken by it.
Quick == Hasty \/ hook[HE].step # "marker"
\* The marker is stored before the prompt is submitted; without a terminal it
\* is withdrawn, and the review with it.
Asks(caller) ==
  LET st == start[caller]
      begun == [NoMarker EXCEPT !.status = "running", !.acceptance = st.acceptance,
                                !.run = st.run, !.items = st.items]
  IN /\ At(caller, "ask") /\ Quick /\ GivesUp(caller)
     /\ IF doing[HE] # Off
        THEN /\ marker' = begun /\ UNCHANGED review
             /\ input' = [input EXCEPT ![HE] =
                            Append(@, Prompt("review", st.run, st.acceptance, st.items))]
        ELSE /\ marker' = [begun EXCEPT !.status = "failed"] /\ UNCHANGED input
             /\ review' = IF st.run # 0 /\ review.run = st.run /\ review.status = "reviewing"
                          THEN [review EXCEPT !.report = 0] ELSE review
     /\ UNCHANGED <<doing, workVars, runs, inbox, hook, job, worldVars>>

(***************************************************************************)
(* The roles' turns.                                                       *)
(***************************************************************************)
Takes(r) ==
  /\ doing[r] = Rest /\ input[r] # <<>> /\ hook[r] = NoHook
  /\ doing' = [doing EXCEPT ![r] = Head(input[r])]
  /\ input' = [input EXCEPT ![r] = Tail(@)]
  /\ UNCHANGED <<workVars, reviewVars, retroVars, callVars, worldVars>>

\* isRoleMemoryTurn, read without the lock.
IsMemoryTurn(r) ==
  CASE review.status = "collecting" -> review.sent /\ Drafter(review) = r
    [] review.status = "documenting" ->
         LET i == CurrentDoc(review.docs) IN
         /\ i # 0 /\ review.docs[i].status \in {"running", "resolving"}
         /\ DocRole(review.docs[i]) = r
    [] OTHER -> FALSE
\* The turn ends; its hook is on its way if a handler has business with it.
Unhurried(r) == Hasty \/ r # HE \/ \A c \in Callers : start[c].step \notin {"prepare", "ask"}
TurnEnds(r, event) ==
  /\ Busy(r) /\ Unhurried(r) /\ doing' = [doing EXCEPT ![r] = Rest]
  /\ hook' = IF r = HE \/ IsMemoryTurn(r)
             THEN [hook EXCEPT ![r] = [step |-> "memory", event |-> event]] ELSE hook
  /\ UNCHANGED <<input, reviewVars, retroVars, job, start>>
RoleStops(r) ==
  LET p == doing[r] IN
  /\ r \in Roles /\ TurnEnds(r, "stop")
  /\ \/ UNCHANGED <<draft, evidence>>
     \/ /\ p.kind = "draft" /\ p.run = review.run /\ review.status = "collecting"
        /\ Drafter(review) = r /\ draft' = TRUE /\ UNCHANGED evidence
     \/ /\ p.kind = "doc" /\ p.run = review.run
        /\ evidence' = evidence \cup {p.at} /\ UNCHANGED draft
  /\ UNCHANGED <<result, reports, memory, worldVars>>

NewMemory == 1 + Max({memory} \cup {runs[i].after : i \in DOMAIN runs})
\* The Harness Engineer writes a report that disposes of all it was given, or
\* an invalid one; with a review it commits memory and assigns the documents.
EngineerStops ==
  LET p == doing[HE] IN
  /\ TurnEnds(HE, "stop")
  /\ reports' \in {reports} \cup (IF p.kind # "review" THEN {} ELSE
        {[reports EXCEPT ![p.at] = rep] : rep \in {Written(TRUE, p.items), Written(FALSE, {})}})
  /\ \/ UNCHANGED <<result, memory>>
     \/ /\ p.kind = "review" /\ p.run # 0 /\ memory' = NewMemory
        /\ \E plan \in Plans : result' = [run |-> p.run, plan |-> plan]
  /\ UNCHANGED <<draft, evidence, worldVars>>
TurnFails(r) ==
  Outside /\ TurnEnds(r, "failure") /\ UNCHANGED <<workVars, enabled, acceptance, reported>>

\* resolveDurableDocAssignmentOwner, called in the Project Manager's turn.
Chooses(owner) ==
  LET i == CurrentDoc(review.docs) IN
  /\ doing[PM].kind = "owner" /\ Unlocked /\ review.status = "documenting"
  /\ i = doing[PM].at /\ review.docs[i].status = "resolving" /\ review.docs[i].choice # owner
  /\ Persist([review EXCEPT !.docs[i].choice = owner])
  /\ UNCHANGED <<agentVars, workVars, retroVars, callVars, worldVars>>

(***************************************************************************)
(* The hook of a workflow role.                                            *)
(***************************************************************************)
HookAt(r, step) == hook[r].step = step
DraftHook(r) ==
  IF ~(review.status = "collecting" /\ Drafter(review) = r) THEN UNCHANGED reviewVars /\ Continue(r)
  ELSE IF hook[r].event = "failure" \/ ~draft THEN Fail(r, review)
  ELSE LET next == [review EXCEPT !.done = @ + 1, !.sent = FALSE] IN
       IF next.done < Len(Drafters)
       THEN review' = next /\ UNCHANGED runs /\ Dispatch(r, "draft", next)
       ELSE /\ review' = [next EXCEPT !.status = "reviewing"]
            /\ IF Kept(next.run)
               THEN runs' = [runs EXCEPT ![next.run].status = "reviewing"] /\ Continue(r)
               ELSE UNCHANGED runs /\ Abort(r)
\* validateDurableDocAssignmentCompletion
Documented(i) == i \in evidence
\* handleDurableDocRoleHook
DocHook(r) ==
  LET i == CurrentDoc(review.docs)
      doc == review.docs[i]
      Becomes(d) == DispatchDocs(r, [review EXCEPT !.docs[i] = d])
  IN IF i = 0 \/ ~IsMemoryTurn(r) THEN UNCHANGED reviewVars /\ Continue(r)
     ELSE IF hook[r].event = "failure" THEN Becomes([doc EXCEPT !.status = "failed"])
     ELSE IF doc.status = "resolving"
     THEN IF doc.choice = NoRole THEN UNCHANGED reviewVars /\ Continue(r)
          ELSE Becomes([owner |-> doc.choice, choice |-> NoRole, status |-> "pending"])
     ELSE Becomes([doc EXCEPT !.status = IF Documented(i) THEN "completed" ELSE "failed"])
\* handleRoleHook
RoleHook(r) ==
  /\ r \in Roles /\ HookAt(r, "memory") /\ Unlocked
  /\ IF Discardable(review) THEN Discard /\ Continue(r)
     ELSE IF review.status = "documenting" THEN DocHook(r) ELSE DraftHook(r)
  /\ draft' = (draft /\ review'.done = review.done)
  /\ UNCHANGED <<agentVars, result, evidence, reports, memory, inbox, worldVars>>
\* processAutoMemoryRoleHook, after a Stop: getState and the waiting marker.
RoleHookEnds(r) ==
  /\ r \in Roles /\ HookAt(r, "marker") /\ hook' = [hook EXCEPT ![r] = NoHook]
  /\ IF hook[r].event = "stop" THEN DiscardIfOff /\ CompleteWaiting(review'.status)
     ELSE UNCHANGED <<reviewVars, marker>>
  /\ UNCHANGED <<agentVars, workVars, inbox, job, start, worldVars>>

(***************************************************************************)
(* The hook of the Harness Engineer: first the review, then, with the      *)
(* status it finds, the retrospective.                                     *)
(***************************************************************************)
Assigned(plan) == [i \in DOMAIN plan |->
                     Queued([owner |-> plan[i], choice |-> NoRole, status |-> "pending"])]
\* readAndValidateHarnessMemoryReviewResult, for a run that is still there
HasResult(rv) == result.run = rv.run /\ Kept(rv.run)
\* recordHarnessEngineerMemoryResult
RecordResult(rv) ==
  LET docs == Assigned(result.plan)
      next == [rv EXCEPT !.status = "documenting", !.docs = docs]
      i == CurrentDoc(docs)
  IN /\ runs' = [runs EXCEPT ![rv.run].status = "applied", ![rv.run].after = memory,
                            ![rv.run].docs = docs]
     /\ IF docs = <<>> THEN review' = NoReview /\ Continue(HE)
        ELSE review' = next /\ Dispatch(HE, "doc", next)
\* handleHarnessEngineerHook
EngineerHook ==
  /\ HookAt(HE, "memory") /\ Unlocked
  /\ IF Discardable(review) THEN Discard /\ Continue(HE)
     ELSE IF ~(review.status = "reviewing" /\ review.report # 0)
     THEN UNCHANGED reviewVars /\ Continue(HE)
     ELSE IF /\ hook[HE].event = "stop" /\ reports[review.report].written
             /\ HasResult(review)
     THEN RecordResult(review)
     ELSE Fail(HE, review)
  /\ UNCHANGED <<agentVars, workVars, inbox, worldVars>>

\* Mutant: the dispositions are not looked at.
AcceptedUnread(m) == reports[m.acceptance].written
\* getRetrospectiveReportErrors and getFeedbackDispositionErrors
Accepted(m) == reports[m.acceptance].valid /\ m.items \subseteq reports[m.acceptance].items
\* Mutant: the documents still to be written are not waited for.
RetrospectiveEnds(event) ==
  IF marker.status # "running" THEN UNCHANGED retroVars
  ELSE IF event = "failure" \/ ~Accepted(marker)
  THEN marker' = [marker EXCEPT !.status = "failed"] /\ UNCHANGED inbox
  ELSE /\ inbox' = inbox \ marker.items
       /\ marker' = [marker EXCEPT !.status = "completed", !.items = {}]
\* handleTaskRetrospectiveHook
Retrospective(event) ==
  IF marker.status # "running" THEN UNCHANGED retroVars
  ELSE IF event = "failure" \/ ~Accepted(marker)
  THEN marker' = [marker EXCEPT !.status = "failed"] /\ UNCHANGED inbox
  ELSE /\ inbox' = inbox \ marker.items
       /\ marker' = CASE marker.run # 0 /\ review'.status = "failed" ->
                           [marker EXCEPT !.status = "failed", !.items = {},
                                          !.docsFailed = review'.docs # <<>>]
                      [] marker.run # 0 /\ review'.status = "documenting" ->
                           [marker EXCEPT !.status = "waiting", !.items = {}]
                      [] OTHER -> [marker EXCEPT !.status = "completed", !.items = {}]
\* processHarnessEngineerHook
EngineerHookEnds ==
  /\ HookAt(HE, "marker") /\ hook' = [hook EXCEPT ![HE] = NoHook]
  /\ DiscardIfOff /\ Retrospective(hook[HE].event)
  /\ UNCHANGED <<agentVars, workVars, job, start, worldVars>>

(***************************************************************************)
(* The user.                                                               *)
(***************************************************************************)
Calm == Hasty \/ \A r \in Agents : hook[r] = NoHook
UserFrame == UNCHANGED <<agentVars, draft, result, evidence, reports, callVars>>
\* Someone types into a terminal: the user, or sendPendingFeedback.
UserPrompts(r) ==
  /\ Outside /\ doing[r] # Off /\ Len(input[r]) < MaxQueue
  /\ input' = [input EXCEPT ![r] = Append(@, Prompt("other", 0, 0, {}))]
  /\ UNCHANGED <<doing, workVars, reviewVars, retroVars, callVars, enabled, acceptance, reported>>
ProcessExits(r) ==
  /\ Outside /\ doing[r] # Off
  /\ doing' = [doing EXCEPT ![r] = Off] /\ input' = [input EXCEPT ![r] = <<>>]
  /\ UNCHANGED <<workVars, reviewVars, retroVars, callVars, enabled, acceptance, reported>>
Toggles ==
  /\ Outside /\ Toggled /\ Calm /\ enabled' = ~enabled
  /\ UNCHANGED <<agentVars, workVars, reviewVars, retroVars, callVars, acceptance, reported>>
\* getState, for whoever displays it.
Looks ==
  /\ Discardable(review) /\ Discard
  /\ UNCHANGED <<agentVars, workVars, retroVars, callVars, worldVars>>
\* The task goes on and is accepted again, or for the first time.
Accepts ==
  /\ acceptance < MaxAcceptances /\ acceptance' = acceptance + 1
  /\ UNCHANGED <<agentVars, workVars, reviewVars, retroVars, callVars, enabled, reported, events>>
Reports ==
  /\ reported < MaxItems /\ reported' = reported + 1 /\ inbox' = inbox \cup {reported'}
  /\ UNCHANGED <<agentVars, workVars, reviewVars, marker, callVars, enabled, acceptance, events>>
\* retryFailedReview
RetriesReview ==
  /\ Outside /\ Calm /\ review.status = "failed" /\ review.docs = <<>>
  /\ review' = NoReview
  /\ UNCHANGED <<memory, runs, retroVars, enabled, acceptance, reported>> /\ UserFrame
\* retryDurableDocAssignment
RetriesDoc(i) ==
  /\ Outside /\ Unlocked /\ review.status \in {"documenting", "failed"}
  /\ i \in DOMAIN review.docs /\ review.docs[i].status = "failed"
  /\ DispatchDocs("request", [review EXCEPT !.status = "documenting",
                                !.docs[i] = [Queued(@) EXCEPT !.choice = NoRole]])
  /\ UNCHANGED <<agentVars, workVars, inbox, enabled, acceptance, reported>>
\* updateFile and revertRun, refused during a review (assertNoActiveReview).
\* Their own runs are not reviews of an acceptance.
Editable == review = NoReview \/ Discardable(review)
Edits ==
  /\ Outside /\ Editable /\ DiscardIfOff /\ memory' = NewMemory
  /\ UNCHANGED <<retroVars, enabled, acceptance, reported>> /\ UserFrame
Reverts(i) ==
  /\ Outside /\ Editable /\ runs[i].status = "applied" /\ memory = runs[i].after
  /\ memory' = runs[i].before
  /\ review' = NoReview
  /\ runs' = [j \in DOMAIN runs |->
                IF j = i THEN [runs[j] EXCEPT !.status = "reverted"]
                ELSE IF j = review.run THEN [runs[j] EXCEPT !.status = "removed"] ELSE runs[j]]
  /\ UNCHANGED <<retroVars, enabled, acceptance, reported>> /\ UserFrame
\* The backend restarts: terminals, waiting operations and hooks are gone.
Restarts ==
  /\ Outside
  /\ doing' = [r \in Agents |-> Off] /\ input' = [r \in Agents |-> <<>>]
  /\ hook' = [r \in Agents |-> NoHook] /\ job' = NoJob /\ start' = [c \in Callers |-> NoStart]
  /\ UNCHANGED <<workVars, reviewVars, retroVars, enabled, acceptance, reported>>

-----------------------------------------------------------------------------
Init ==
  /\ doing \in {[r \in Agents |-> Rest], [r \in Agents |-> Off]} /\ input = [r \in Agents |-> <<>>]
  /\ draft = FALSE /\ result = NoResult /\ evidence = {}
  /\ reports = [a \in 1..MaxAcceptances |-> NoReport] /\ memory = 0
  /\ review = NoReview /\ runs = <<>> /\ marker = NoMarker /\ inbox = {}
  /\ hook = [r \in Agents |-> NoHook] /\ job = NoJob /\ start = [c \in Callers |-> NoStart]
  /\ enabled \in BOOLEAN /\ acceptance = 0 /\ reported = 0 /\ events = 0

StartStep(c) == Checks(c) \/ Prepares(c) \/ Asks(c)
JobStep == JobLaunches \/ JobSubmits
HookStep(r) == RoleHook(r) \/ RoleHookEnds(r)
EngineerStep == EngineerHook \/ EngineerHookEnds
UserStep == \/ UserAsks \/ Toggles \/ Looks \/ Accepts \/ Reports \/ RetriesReview \/ Edits
            \/ \E i \in DOMAIN review.docs : RetriesDoc(i)
            \/ \E i \in DOMAIN runs : Reverts(i)
Next == \/ TickReconciles \/ \E c \in Callers : StartStep(c)
        \/ JobStep \/ JobFails
        \/ \E r \in Roles : RoleStops(r) \/ HookStep(r)
        \/ \E r \in Agents : Takes(r) \/ TurnFails(r) \/ UserPrompts(r) \/ ProcessExits(r)
        \/ \E owner \in Roles : Chooses(owner)
        \/ EngineerStops \/ EngineerStep \/ UserStep \/ Restarts
Spec == Init /\ [][Next]_vars

\* The timer fires, the backend goes on with what it has begun, Claude ends
\* its turns, and a Project Manager asked again and again names an owner.
Turns == EngineerStops \/ (\E r \in Roles : RoleStops(r)) \/ \E r \in Agents : Takes(r)
Hooks == EngineerStep \/ \E r \in Roles : HookStep(r)
Fairness ==
  /\ WF_vars(TickReconciles) /\ WF_vars(\E c \in Callers : StartStep(c))
  /\ WF_vars(JobStep) /\ WF_vars(Turns) /\ WF_vars(Hooks)
  /\ SF_vars(\E owner \in Roles : Chooses(owner))
FairSpec == Spec /\ Fairness

(***************************************************************************)
(* Properties                                                              *)
(***************************************************************************)
Docs == UNION {DOMAIN plan : plan \in Plans}
Doc == [owner : Roles \cup {NoRole}, choice : Roles \cup {NoRole},
        status : {"waiting", "pending", "resolving", "running", "completed", "failed"}]
\* The types of the stored state.
TypeOK ==
  /\ review.status \in {"idle", "collecting", "reviewing", "documenting", "failed"}
  /\ review.done \in 0..Len(Drafters) /\ review.docs \in Seq(Doc)
  /\ review.run \in 0..Len(runs) /\ review.report \in 0..MaxAcceptances
  /\ \A i \in DOMAIN runs :
       runs[i].status \in {"collecting", "reviewing", "applied", "reverted", "failed", "removed"}
  /\ marker.status \in {"none", "running", "waiting", "completed", "failed"}
  /\ inbox \subseteq 1..reported /\ evidence \subseteq Docs

DocsWritten(run) == \A i \in DOMAIN runs[run].docs : runs[run].docs[i].status = "completed"
\* Documents that memory was removed for stay assigned until they are written,
\* whatever is switched off, retried or restarted.
NoDocForgotten == \A i \in DOMAIN runs : ~DocsWritten(i) => review.run = i

\* A retrospective that reviewed memory and is completed leaves no document of
\* that review to be written.
CompletedAfterDocs ==
  marker.status = "completed" /\ marker.run # 0 /\ runs[marker.run].status = "applied"
    => DocsWritten(marker.run)

\* An acceptance is reviewed once: no review follows an applied one, not even
\* when the user has reverted it.
ReviewedOnce ==
  \A i, j \in DOMAIN runs :
    i < j /\ runs[i].acceptance = runs[j].acceptance
      => runs[i].status \notin {"applied", "reverted"}

\* Feedback is removed only once the report of the retrospective it was given
\* to disposes of it.
FeedbackIsDisposed ==
  [][\A item \in inbox \ inbox' : item \in reports[marker.acceptance].items]_inbox

\* Documents are not assigned for ever: they are written or reported failed.
DocsSettle == review.status = "documenting" ~> review.status # "documenting"
=============================================================================
