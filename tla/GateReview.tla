------------------------------ MODULE GateReview ------------------------------
(***************************************************************************)
(* gate-review-service: the Gate index of a task, the asynchronous runs    *)
(* that take a request to the Reviewer and its report back, the user's     *)
(* cancel, skip, override and settings, and the recovery that a connect of *)
(* the project does.                                                       *)
(*                                                                         *)
(* One action is one critical section of the Gate state lock, or one       *)
(* awaited step of a run between two of them.  Artifacts are versions, the *)
(* task branch is the number of its commits, and a record holds only the   *)
(* fields that a later decision reads.                                     *)
(***************************************************************************)
EXTENDS Naturals, FiniteSets

CONSTANTS
  MaxRequests,    \* bound on the requests
  MaxCommits,     \* bound on the commits of the task branch
  MaxEdits,       \* bound on the versions of one gate's artifacts
  MaxSettings,    \* bound on the changes of the required gates
  MaxRecoveries,  \* bound on the recoveries
  Crashes,        \* whether the backend may stop
  FirstRequired,  \* the gates required at the start
  Used,           \* the gates the task requests
  Toggled,        \* the gates whose requirement the user changes
  Exceptions      \* the <<gate, status>> exceptions the user grants

Plan == "architecture-plan"
Validation == "validation-adequacy"
Diff == "code-diff"
Gates == {Plan, Validation, Diff}
NoGate == "none"
Requests == 1..MaxRequests
Commits == 1..MaxCommits

ASSUME BoundsAssumption ==
  /\ MaxRequests \in Nat /\ MaxCommits \in Nat /\ MaxEdits \in Nat
  /\ MaxSettings \in Nat /\ MaxRecoveries \in Nat
ASSUME ChoicesAssumption ==
  /\ Crashes \in BOOLEAN /\ Used \subseteq Gates /\ Toggled \subseteq Gates
  /\ FirstRequired \subseteq Gates
  /\ Exceptions \subseteq Gates \X {"skipped", "overridden"}

VARIABLES
  required,     \* app settings: the required gates
  gate,         \* index.json: the record of each gate
  active,       \* index.json: activeGate
  issued,       \* number of requests issued
  run,          \* request -> its run (activeRuns, and what it captured)
  file,         \* request -> status of its request file
  report,       \* request -> the decision its report states
  reviewing,    \* requests the live Reviewer session was prompted with
  latest,       \* gate -> the request whose report is the stable report
  disposition,  \* what the Architect restart was last told of the plan
  evidence,     \* gate -> version of its artifacts
  head,         \* commits on the task branch
  harness,      \* those that are [VCM Harness] commits
  changes,      \* settings changes so far
  recoveries,   \* recoveries so far
  up            \* the backend is running
indexVars == <<gate, active>>
worldVars == <<evidence, head, harness>>
runVars   == <<run, file, latest>>
limitVars == <<changes, recoveries>>
vars == <<required, indexVars, issued, runVars, report, reviewing, disposition,
          worldVars, limitVars, up>>

Statuses == {"disabled", "not_required", "pending", "running", "completed",
             "failed", "skipped", "overridden"}
Steps == {"none", "spawned", "started", "waiting", "settling", "failing",
          "calling", "ended"}
NoHash == [commits |-> {}, head |-> 0, evidence |-> 0, tested |-> 0, prior |-> 0]
Hash == [commits : SUBSET Commits, head : 0..MaxCommits, evidence : 0..MaxEdits,
         tested : 0..MaxEdits, prior : 0..MaxRequests]
NoCommit == MaxCommits + 1
MaybeCommit == 0..NoCommit
Record == [status : Statuses, decision : {"none", "approve", "request_changes"},
           request : 0..MaxRequests, hash : Hash, base : MaybeCommit,
           head : MaybeCommit, callback : {"not_sent", "called"}]
Blank == [status |-> "pending", decision |-> "none", request |-> 0, hash |-> NoHash,
          base |-> NoCommit, head |-> NoCommit, callback |-> "not_sent"]
Run == [step : Steps, gate : Gates \cup {NoGate}, config : SUBSET Gates,
        commits : SUBSET Commits, aborted : BOOLEAN]
NoRun == [step |-> "none", gate |-> NoGate, config |-> {}, commits |-> {},
          aborted |-> FALSE]

TypeOK ==
  /\ required \subseteq Gates
  /\ gate \in [Gates -> Record] /\ active \in Gates \cup {NoGate}
  /\ issued \in 0..MaxRequests
  /\ run \in [Requests -> Run]
  /\ file \in [Requests -> {"none", "requested", "running", "completed", "failed",
                            "cancelled", "stale_completion"}]
  /\ report \in [Requests -> {"none", "approve", "request_changes", "malformed"}]
  /\ reviewing \subseteq Requests
  /\ latest \in [Gates -> 0..MaxRequests]
  /\ disposition \in {"none", "accepted", "rejected"}
  /\ evidence \in [Gates -> 0..MaxEdits]
  /\ head \in 0..MaxCommits /\ harness \subseteq Commits
  /\ changes \in 0..MaxSettings /\ recoveries \in 0..MaxRecoveries
  /\ up \in BOOLEAN
-----------------------------------------------------------------------------
(* normalizeIndex: the status of a record under the settings it is read    *)
(* with.  enabled means that some gate is required.                        *)
NormalStatus(config, g) ==
  IF config = {} THEN "disabled"
  ELSE IF g \notin config THEN "not_required"
  ELSE IF gate[g].status = "disabled" THEN "pending"
  ELSE gate[g].status

(* loadIndex *)
Loaded(config) == [g \in Gates |-> [gate[g] EXCEPT !.status = NormalStatus(config, g)]]
LoadedActive(config) ==
  IF active # NoGate /\ Loaded(config)[active].status = "running" THEN active ELSE NoGate

(* applyGateState and saveIndex: the record replaced in the index as it    *)
(* was read; a record that is no longer running gives up the active gate.  *)
Save(config, g, record) ==
  /\ gate' = [Loaded(config) EXCEPT ![g] = record]
  /\ active' = IF record.status = "running" THEN g
               ELSE IF LoadedActive(config) = g THEN NoGate ELSE LoadedActive(config)

(* mutant of IsCurrent: any running request of the gate will do *)
IsCurrentByStatus(r) == Loaded(run[r].config)[run[r].gate].status = "running"

(* isCurrentRunningRequest, read under the settings of the run *)
IsCurrent(r) == LET record == Loaded(run[r].config)[run[r].gate]
                IN  record.status = "running" /\ record.request = r

(* mutant of Notify: only acceptances are told *)
NotifyAcceptance(g, accepted) ==
  disposition' = IF g = Plan /\ accepted THEN "accepted" ELSE disposition

(* notifyArchitecturePlanDisposition *)
Notify(g, accepted) ==
  disposition' = IF g # Plan THEN disposition
                 ELSE IF accepted THEN "accepted" ELSE "rejected"

(* resolveCodeDiffBaseCommit: rejected and failed ranges are reviewed      *)
(* again from their base, approved and all-Harness ranges end at their     *)
(* head, anything else is the whole task branch.                           *)
Decided(record, decision) == record.status = "completed" /\ record.decision = decision

(* mutant of DiffBase: a rejected range ends at its head like an approved one *)
DiffBaseAtHead(record) ==
  LET settled == record.status \in {"not_required", "completed"} IN
  IF record.status = "failed" /\ record.base # NoCommit THEN record.base
  ELSE IF settled /\ record.head # NoCommit THEN record.head ELSE 0

DiffBase(record) ==
  LET again   == record.status = "failed" \/ Decided(record, "request_changes")
      settled == record.status = "not_required" \/ Decided(record, "approve")
  IN IF again /\ record.base # NoCommit THEN record.base
     ELSE IF settled /\ record.head # NoCommit THEN record.head ELSE 0

(* resolveCodeDiffInput: the commits of the range that are not Harness's *)
DiffCommits(record) == { c \in Commits : DiffBase(record) < c /\ c <= head } \ harness

(* computeInputHash *)
InputHash(g, commits) ==
  IF g = Diff
  THEN [commits |-> commits, head |-> 0, evidence |-> evidence[Diff],
        tested |-> evidence[Validation], prior |-> latest[Validation]]
  ELSE [NoHash EXCEPT !.head = head, !.evidence = evidence[g]]

(* readCodeDiffValidationGateError *)
ValidatedNow ==
  LET v == Loaded(required)[Validation] IN
  Validation \in required =>
    /\ Decided(v, "approve") \/ v.status \in {"skipped", "overridden"}
    /\ v.hash = InputHash(Validation, {})

Init ==
  /\ required = FirstRequired
  /\ gate = [g \in Gates |-> [Blank EXCEPT !.status = "disabled"]] /\ active = NoGate
  /\ issued = 0
  /\ run = [r \in Requests |-> NoRun] /\ file = [r \in Requests |-> "none"]
  /\ report = [r \in Requests |-> "none"] /\ reviewing = {}
  /\ latest = [g \in Gates |-> 0] /\ disposition = "none"
  /\ evidence = [g \in Gates |-> 0] /\ head = 0 /\ harness = {}
  /\ changes = 0 /\ recoveries = 0 /\ up = TRUE
-----------------------------------------------------------------------------
(* requestReviewGateLocked, one action per outcome.  The checks run in the *)
(* order of the code, so a later outcome excludes the earlier ones.        *)
Answered == UNCHANGED <<required, issued, runVars, report, reviewing, worldVars,
                        limitVars, up>>

RequestExempt(g) ==
  /\ up /\ g \notin required
  /\ Save(required, g, [Loaded(required)[g] EXCEPT !.decision = "none"])
  /\ Notify(g, TRUE)
  /\ Answered

(* The gate is required and no review is running. *)
Requestable(g) ==
  /\ up /\ g \in required
  /\ LoadedActive(required) \in {g, NoGate}
  /\ Loaded(required)[g].status # "running"

(* A request that ends before a review is started: the failure or the      *)
(* exemption replaces the record, without its request and hash.            *)
EndsWith(g, status, base, last) ==
  /\ Save(required, g, [Blank EXCEPT !.status = status, !.base = base, !.head = last])
  /\ UNCHANGED disposition
  /\ Answered

(* The sources, the worktree or the artifacts of the gate are not ready. *)
RequestUnready(g) == Requestable(g) /\ EndsWith(g, "failed", NoCommit, NoCommit)

(* The artifact the gate reviews is missing or empty. *)
RequestWithoutInput(g) ==
  Requestable(g) /\ g # Diff /\ EndsWith(g, "not_required", NoCommit, NoCommit)

(* code-diff: no new commits, or none but Harness commits *)
RequestWithoutCommits ==
  /\ Requestable(Diff)
  /\ LET record == Loaded(required)[Diff] IN
     /\ DiffCommits(record) = {}
     /\ IF DiffBase(record) = head THEN EndsWith(Diff, "not_required", NoCommit, NoCommit)
        ELSE EndsWith(Diff, "not_required", DiffBase(record), head)

(* code-diff: the validation gate has not passed for the current code *)
RequestUntested ==
  /\ Requestable(Diff) /\ ~ValidatedNow
  /\ LET record == Loaded(required)[Diff] IN
     /\ DiffCommits(record) # {}
     /\ EndsWith(Diff, "failed", DiffBase(record), head)

Reviewable(g) ==
  /\ Requestable(g)
  /\ g = Diff => DiffCommits(Loaded(required)[g]) # {} /\ ValidatedNow

AlreadyApproved(g) ==
  LET record == Loaded(required)[g] IN
  /\ Decided(record, "approve")
  /\ record.hash = InputHash(g, IF g = Diff THEN DiffCommits(record) ELSE {})

RequestAlreadyApproved(g) ==
  /\ Reviewable(g) /\ AlreadyApproved(g)
  /\ Notify(g, TRUE)
  /\ UNCHANGED indexVars
  /\ Answered

(* A review is started: force is the user's retry. *)
RequestReview(g, force) ==
  /\ Reviewable(g)
  /\ force \/ ~AlreadyApproved(g)
  /\ issued < MaxRequests
  /\ LET record  == Loaded(required)[g]
         commits == IF g = Diff THEN DiffCommits(record) ELSE {}
         range   == IF g = Diff THEN <<DiffBase(record), head>> ELSE <<NoCommit, NoCommit>>
     IN
     /\ Save(required, g, [Blank EXCEPT !.status = "running", !.request = issued + 1,
                             !.hash = InputHash(g, commits), !.base = range[1],
                             !.head = range[2]])
     /\ run' = [run EXCEPT ![issued + 1] = [step |-> "spawned", gate |-> g,
                   config |-> required, commits |-> commits, aborted |-> FALSE]]
  /\ file' = [file EXCEPT ![issued + 1] = "requested"]
  /\ issued' = issued + 1
  /\ Notify(g, FALSE)
  /\ UNCHANGED <<required, report, reviewing, latest, worldVars, limitVars, up>>
-----------------------------------------------------------------------------
(* runGateReview: the steps of the run of request r.                       *)
At(r, step) == up /\ run[r].step = step
GoTo(r, step) == run' = [run EXCEPT ![r].step = step]
Idle == UNCHANGED <<required, issued, report, worldVars, limitVars, up>>

(* markGateRunStarted *)
RunStarts(r) ==
  /\ At(r, "spawned")
  /\ IF IsCurrent(r)
     THEN /\ Save(run[r].config, run[r].gate, Loaded(run[r].config)[run[r].gate])
          /\ file' = [file EXCEPT ![r] = "running"]
          /\ GoTo(r, "started")
     ELSE GoTo(r, "ended") /\ UNCHANGED <<indexVars, file>>
  /\ UNCHANGED <<reviewing, latest, disposition>>
  /\ Idle

(* ensureReviewerSession and the prompt; any of it may throw. *)
RunPrompts(r) ==
  /\ At(r, "started")
  /\ IF run[r].aborted THEN GoTo(r, "ended") /\ UNCHANGED reviewing
     ELSE \/ GoTo(r, "waiting") /\ reviewing' = reviewing \cup {r}
          \/ GoTo(r, "failing") /\ UNCHANGED reviewing
  /\ UNCHANGED <<indexVars, file, latest, disposition>>
  /\ Idle

(* waitForGateReport.  An approval of the validation gate also fails when  *)
(* the Tester's report is no longer complete.                              *)
RunReadsReport(r) ==
  /\ At(r, "waiting")
  /\ \/ run[r].aborted /\ GoTo(r, "ended")
     \/ /\ ~run[r].aborted
        /\ report[r] \in {"approve", "request_changes"}
        /\ GoTo(r, "settling")
     \/ /\ ~run[r].aborted
        /\ \/ report[r] = "malformed"
           \/ report[r] = "approve" /\ run[r].gate = Validation
        /\ GoTo(r, "failing")
  /\ UNCHANGED <<indexVars, file, latest, reviewing, disposition>>
  /\ Idle

(* A result that is no longer current stays in the request's own file. *)
StaleResult(r) ==
  /\ file' = [file EXCEPT ![r] = "stale_completion"]
  /\ GoTo(r, "ended")
  /\ UNCHANGED <<indexVars, latest, disposition>>

(* completeGateRun *)
RunCompletes(r) ==
  /\ At(r, "settling")
  /\ IF IsCurrent(r)
     THEN /\ LET g == run[r].gate IN
             /\ latest' = [latest EXCEPT ![g] = r]
             /\ Save(run[r].config, g, [Loaded(run[r].config)[g] EXCEPT
                       !.status = "completed", !.decision = report[r], !.callback = "not_sent"])
             /\ Notify(g, report[r] = "approve")
          /\ file' = [file EXCEPT ![r] = "completed"]
          /\ GoTo(r, "calling")
     ELSE StaleResult(r)
  /\ UNCHANGED reviewing
  /\ Idle

(* mutant of RunFails: the failure is recorded and the run ends *)
RunFailsQuietly(r) ==
  /\ At(r, "failing")
  /\ IF IsCurrent(r)
     THEN /\ LET g == run[r].gate IN
             /\ Save(run[r].config, g, [Loaded(run[r].config)[g] EXCEPT !.status = "failed"])
             /\ Notify(g, FALSE)
          /\ file' = [file EXCEPT ![r] = "failed"]
          /\ GoTo(r, "ended")
          /\ UNCHANGED latest
     ELSE StaleResult(r)
  /\ UNCHANGED reviewing
  /\ Idle

(* failGateRun *)
RunFails(r) ==
  /\ At(r, "failing")
  /\ IF IsCurrent(r)
     THEN /\ LET g == run[r].gate IN
             /\ Save(run[r].config, g, [Loaded(run[r].config)[g] EXCEPT
                       !.status = "failed", !.callback = "not_sent"])
             /\ Notify(g, FALSE)
          /\ file' = [file EXCEPT ![r] = "failed"]
          /\ GoTo(r, "calling")
          /\ UNCHANGED latest
     ELSE StaleResult(r)
  /\ UNCHANGED reviewing
  /\ Idle

(* gateStateMatches: whether the record still shows the outcome of r *)
StillShown(r) == LET record == Loaded(run[r].config)[run[r].gate]
                 IN  record.status = file[r] /\ record.request = r

(* callbackProjectManager and updateGateCallbackState.  That the PM is not *)
(* running or the submission throws is recorded as well as its success,    *)
(* and nothing is tried again.                                             *)
RunCallsPM(r) ==
  /\ At(r, "calling")
  /\ IF StillShown(r)
     THEN Save(run[r].config, run[r].gate,
               [Loaded(run[r].config)[run[r].gate] EXCEPT !.callback = "called"])
     ELSE UNCHANGED indexVars
  /\ GoTo(r, "ended")
  /\ UNCHANGED <<file, latest, reviewing, disposition>>
  /\ Idle
-----------------------------------------------------------------------------
(* cancelReviewGate: the run is aborted before the Reviewer is restarted,  *)
(* and the restart may throw.                                              *)
CancelReview(g) ==
  LET r == Loaded(required)[g].request IN
  /\ up /\ Loaded(required)[g].status = "running"
  /\ run' = [run EXCEPT ![r].aborted = TRUE]
  /\ \/ /\ reviewing' = {}
        /\ file' = [file EXCEPT ![r] = "cancelled"]
        /\ Save(required, g, Blank)
     \/ reviewing' \in {reviewing, {}} /\ UNCHANGED <<indexVars, file>>
  /\ UNCHANGED <<latest, disposition>>
  /\ Idle

(* skipReviewGate and overrideReviewGate with their callback.  A code-diff *)
(* exception keeps the hash of the record.                                 *)
Except(g) ==
  /\ up /\ Loaded(required)[g].status # "running"
  /\ \E status \in {x[2] : x \in {y \in Exceptions : y[1] = g}} :
       Save(required, g, [Loaded(required)[g] EXCEPT
              !.status = status, !.callback = "called",
              !.decision = IF status = "overridden" THEN "approve" ELSE "none",
              !.hash = IF g = Diff THEN @ ELSE InputHash(g, {})])
  /\ Notify(g, TRUE)
  /\ Answered

(* updateSettings: the index is saved as the new settings show it. *)
UpdateSettings(g) ==
  /\ up /\ changes < MaxSettings /\ g \in Toggled
  /\ g \in required => Loaded(required)[g].status # "running"
  /\ LET config == IF g \in required THEN required \ {g} ELSE required \cup {g} IN
     /\ required' = config
     /\ gate' = Loaded(config) /\ active' = LoadedActive(config)
  /\ changes' = changes + 1
  /\ UNCHANGED <<issued, runVars, report, reviewing, disposition, worldVars,
                 recoveries, up>>

(* The settings are the application's: another task changes them too, and  *)
(* only its own running gates are protected.                               *)
SettingsElsewhere(g) ==
  /\ up /\ changes < MaxSettings /\ g \in Toggled
  /\ required' = IF g \in required THEN required \ {g} ELSE required \cup {g}
  /\ changes' = changes + 1
  /\ UNCHANGED <<indexVars, issued, runVars, report, reviewing, disposition, worldVars,
                 recoveries, up>>

(* The backend stops: runs and terminals are gone. *)
Crash ==
  /\ Crashes /\ up /\ recoveries < MaxRecoveries
  /\ up' = FALSE
  /\ run' = [r \in Requests |-> IF run[r].step = "none" THEN run[r]
                                ELSE [run[r] EXCEPT !.step = "ended"]]
  /\ reviewing' = {}
  /\ UNCHANGED <<required, indexVars, issued, file, latest, report, disposition,
                 worldVars, limitVars>>

(* mutant of Recover: only the active gate is cleared *)
RecoverActive ==
  /\ recoveries < MaxRecoveries
  /\ active' = NoGate /\ recoveries' = recoveries + 1 /\ up' = TRUE
  /\ UNCHANGED <<required, gate, issued, runVars, report, reviewing, disposition,
                 worldVars, changes>>

(* recoverGateReview, on every connect of the project and not only after a *)
(* crash; it takes no lock and keeps everything but the status.            *)
Recover ==
  /\ recoveries < MaxRecoveries
  /\ gate' = [g \in Gates |-> IF gate[g].status = "running"
                              THEN [gate[g] EXCEPT !.status = "pending"] ELSE gate[g]]
  /\ active' = NoGate
  /\ recoveries' = recoveries + 1
  /\ up' = TRUE
  /\ UNCHANGED <<required, issued, runVars, report, reviewing, disposition, worldVars,
                 changes>>

(* The Reviewer writes the report of a request it was prompted with; a     *)
(* report is read by the run of its request only.                          *)
WriteReport(r) ==
  /\ r \in reviewing /\ report[r] = "none" /\ run[r].step = "waiting"
  /\ \E d \in {"approve", "request_changes", "malformed"} : report' = [report EXCEPT ![r] = d]
  /\ UNCHANGED <<required, indexVars, issued, runVars, reviewing, disposition, worldVars,
                 limitVars, up>>

(* Roles rewrite artifacts and commit. *)
EditArtifact(g) ==
  /\ evidence[g] < MaxEdits
  /\ evidence' = [evidence EXCEPT ![g] = @ + 1]
  /\ UNCHANGED <<required, indexVars, issued, runVars, report, reviewing, disposition,
                 head, harness, limitVars, up>>

Commit(byHarness) ==
  /\ head < MaxCommits
  /\ head' = head + 1
  /\ harness' = IF byHarness THEN harness \cup {head + 1} ELSE harness
  /\ UNCHANGED <<required, indexVars, issued, runVars, report, reviewing, disposition,
                 evidence, limitVars, up>>

RequestGate(g) ==
  \/ RequestExempt(g)
  \/ RequestUnready(g)
  \/ RequestWithoutInput(g)
  \/ RequestAlreadyApproved(g)
  \/ \E force \in BOOLEAN : RequestReview(g, force)
  \/ g = Diff /\ (RequestWithoutCommits \/ RequestUntested)

RunStep(r) ==
  \/ RunStarts(r) \/ RunPrompts(r) \/ RunReadsReport(r) \/ RunCompletes(r)
  \/ RunFails(r) \/ RunCallsPM(r)

UserStep(g) ==
  CancelReview(g) \/ Except(g) \/ UpdateSettings(g) \/ SettingsElsewhere(g)

Next ==
  \/ \E g \in Used : RequestGate(g) \/ EditArtifact(g)
  \/ \E g \in Gates : UserStep(g)
  \/ \E r \in Requests : RunStep(r) \/ WriteReport(r)
  \/ \E byHarness \in BOOLEAN : Commit(byHarness)
  \/ Crash \/ Recover

Spec == Init /\ [][Next]_vars

(* The event loop runs every ready step of a run; the Reviewer, the user   *)
(* and the roles owe nothing.                                              *)
FairSpec == Spec /\ \A r \in Requests : WF_vars(RunStep(r))
-----------------------------------------------------------------------------
(* The index implements the ledger: the request shown as running is the    *)
(* open one, and a completed gate shows the request whose report is its    *)
(* stable report.  So a late result of a cancelled, recovered or           *)
(* superseded request never decides a gate or replaces its report.         *)
Ledger == INSTANCE GateLedger WITH
  opened  <- issued,
  current <- [g \in Gates |-> IF gate[g].status = "running" THEN gate[g].request ELSE 0],
  decided <- [g \in Gates |-> IF gate[g].status = "completed" THEN latest[g] ELSE 0],
  verdict <- report
ImplementsLedger == Ledger!LedgerSpec

(* A gate shown as running has a run that will still look at its report,   *)
(* unless the user has tried to cancel it: nothing else would ever take    *)
(* the gate out of running, and no other gate could be requested.          *)
RunningHasRunner ==
  up => \A g \in Gates : gate[g].status = "running" =>
          LET r == gate[g].request IN
          /\ r \in Requests /\ run[r].gate = g /\ active = g
          /\ run[r].aborted \/ run[r].step \in {"spawned", "started", "waiting", "settling", "failing"}

(* When code-diff shows an approval, every code commit up to its head was  *)
(* part of some approved review: rejected commits are never left behind.   *)
Approved == UNION { run[r].commits : r \in { q \in Requests :
                      file[q] = "completed" /\ report[q] = "approve" } }
ApprovalCoversCode ==
  Decided(gate[Diff], "approve") =>
    { c \in Commits : c <= gate[Diff].head } \ harness \subseteq Approved

(* The same of rejected code alone: what a review rejected is part of a    *)
(* later approved review before code-diff shows an approval.               *)
RejectedCodeIsReviewedAgain ==
  Decided(gate[Diff], "approve") =>
    \A r \in Requests : file[r] = "completed" /\ report[r] = "request_changes" =>
      run[r].commits \subseteq Approved

(* The Architect's restart is never released by a plan under review or     *)
(* rejected: its acceptance is withdrawn when a review starts.             *)
AcceptanceIsEarned ==
  disposition = "accepted" =>
    gate[Plan].status # "running" /\ ~Decided(gate[Plan], "request_changes")

(* A report that the run of a request can read ends in a callback to the   *)
(* Project Manager, or the gate no longer shows that outcome.              *)
OutcomeReachesPM ==
  \A r \in Requests :
    run[r].step = "waiting" /\ report[r] # "none" ~>
      /\ run[r].step = "ended"
      /\ file[r] \in {"completed", "failed"} /\ StillShown(r) =>
           gate[run[r].gate].callback = "called"
=============================================================================
