---------------------------- MODULE RoleSessions ----------------------------
(***************************************************************************)
(* session-service with the session registry, architect-restart-service    *)
(* and role-context-restart-service: which terminal and which Claude       *)
(* conversation a role has, and how a role gets a fresh one - because the  *)
(* user asks for it, because the accepted plan of the Architect calls for  *)
(* it, or because the backend was restarted half-way.                      *)
(*                                                                         *)
(* The session of a role is looked up and recorded in one step and stored  *)
(* in the session file of the task in another.  Turns that are retried and *)
(* Rounds are the business of RoundFlow.                                   *)
(***************************************************************************)
EXTENDS Naturals, Sequences

CONSTANTS
  Roles, Arch, PM,
  UserRoles,    \* the roles the user prompts, stops and restarts
  Overlaps,     \* whether updates of the sessions may overlap
  MaxSessions,  \* bound on the terminals of one role
  MaxMessages,  \* bound on the messages of the Architect
  MaxWork,      \* bound on prompts, scheduled restarts and Gate decisions
  MaxEvents     \* bound on the other events from outside

ASSUME RolesAssumption == /\ Arch \in Roles /\ PM \in Roles /\ Arch # PM
                          /\ UserRoles \subseteq Roles
ASSUME BoundsAssumption == /\ Overlaps \in BOOLEAN /\ MaxSessions \in Nat \ {0}
                           /\ MaxMessages \in Nat /\ MaxWork \in Nat /\ MaxEvents \in Nat

VARIABLES
  agent,     \* role -> its Claude process
  term,      \* role -> its newest terminal
  input,     \* role -> the prompt waiting in that terminal
  written,   \* messages the Architect has written
  route,     \* the one not yet dispatched
  delivery,  \* the delivered one still to be reported to the restart service
  record,    \* the session registry: role -> its record
  file,      \* the task's session file: role -> what is stored of its record
  hooks,     \* role -> the hook requests behind its hook lock
  handler,   \* role -> where the handler of the first of them is
  job,       \* the restart under the planning lock, and the user's request
  pending,   \* the Architect's deferred restart, as stored
  intent,    \* role -> its restart with context, as stored
  recovering,\* the roles whose restart with context is still to be recovered
  up,        \* the backend is running
  work, events \* what has come from outside so far
agentVars   == <<agent, term, input>>
messageVars == <<written, route, delivery>>
sessionVars == <<record, file>>
hookVars    == <<hooks, handler>>
restartVars == <<pending, intent, recovering>>
vars == <<agentVars, messageVars, sessionVars, hookVars, job, restartVars, up, work, events>>

Ids == 0..MaxSessions
Messages == 0..MaxMessages
NoInput == 0
Text == MaxMessages + 1
NoRecord == [id |-> 0, convo |-> 0, token |-> FALSE, busy |-> FALSE]
NotStored == [id |-> 0, convo |-> 0]
Stored(rec) == [id |-> rec.id, convo |-> rec.convo]
Nobody(value) == [r \in Roles |-> value]
Begin == [step |-> "begin", rec |-> NoRecord]
NoJob == [step |-> "none", kind |-> "none", role |-> Arch, rec |-> NoRecord]
NoPending == [status |-> "none", source |-> 0, convo |-> 0, stopped |-> FALSE,
              delivered |-> 0, accepted |-> 0, gate |-> FALSE, replacement |-> 0]
NoIntent == [status |-> "none", replacement |-> 0]

(***************************************************************************)
(* Looking up a session.                                                   *)
(***************************************************************************)
\* getRoleSession: the registry before the file, which keeps no token.
Registered(r) ==
  IF record[r].id # 0 THEN record[r]
  ELSE IF file[r].convo # 0
       THEN [id |-> file[r].id, convo |-> file[r].convo, token |-> FALSE, busy |-> FALSE]
       ELSE NoRecord
\* toRoleSessionRecordView: whether the runtime still has its terminal.
Live(r, rec) == agent[r] # "off" /\ rec.id = term[r].id

\* matchesRoleHookSession: by the token of the terminal and the conversation;
\* a record without a conversation takes only a prompt.
Matches(rec, h) ==
  /\ rec.id # 0
  /\ rec.token => h.id = rec.id
  /\ IF rec.convo = 0 THEN h.kind = "prompt" ELSE rec.convo = h.convo

\* No update of a session is under way elsewhere, from the record to the file.
Alone == Overlaps \/ ( /\ \A r \in Roles : handler[r].step # "store"
                       /\ \A c \in DOMAIN job : job[c].step \notin {"exited", "store"} )

(***************************************************************************)
(* Claude and the user, outside the program.                               *)
(***************************************************************************)
Outside == up /\ events < MaxEvents /\ events' = events + 1 /\ UNCHANGED work
Works == up /\ work < MaxWork /\ work' = work + 1 /\ UNCHANGED events
Enqueue(r, kind) ==
  hooks' = [hooks EXCEPT ![r] =
              Append(@, [kind |-> kind, id |-> term[r].id, convo |-> term[r].convo,
                         message |-> IF kind = "prompt" THEN input[r] ELSE 0])]

UserPrompts(r) ==
  /\ Works /\ r \in UserRoles /\ agent[r] # "off" /\ input[r] = NoInput
  /\ input' = [input EXCEPT ![r] = Text]
  /\ UNCHANGED <<agent, term, messageVars, sessionVars, hookVars, job, restartVars, up>>
AgentAccepts(r) ==
  /\ up /\ agent[r] = "ready" /\ input[r] # NoInput /\ Len(hooks[r]) < 2
  /\ Enqueue(r, "prompt") /\ agent' = [agent EXCEPT ![r] = "working"]
  /\ input' = [input EXCEPT ![r] = NoInput]
  /\ term' = [term EXCEPT ![r].taken = @ \union {term[r].id}, ![r].end = "none"]
  /\ UNCHANGED <<messageVars, sessionVars, handler, job, restartVars, up, work, events>>
\* Claude waits for the answer of its Stop hook only.
AgentEnds(r, kind) ==
  /\ agent[r] = "working" /\ Len(hooks[r]) < 2 /\ Enqueue(r, kind)
  /\ agent' = [agent EXCEPT ![r] = IF kind = "stop" THEN "stopping" ELSE "ready"]
  /\ term' = [term EXCEPT ![r].end = kind]
  /\ UNCHANGED <<input, messageVars, sessionVars, handler, job, restartVars, up>>
AgentStops(r) == up /\ AgentEnds(r, "stop") /\ UNCHANGED <<work, events>>
AgentFails == Outside /\ AgentEnds(Arch, "failure")
\* A message is written well after the prompt of its turn has been recorded.
AgentRoutes ==
  /\ up /\ agent[Arch] = "working" /\ hooks[Arch] = <<>> /\ written < MaxMessages
  /\ written' = written + 1 /\ route' = written'
  /\ UNCHANGED <<agentVars, delivery, sessionVars, hookVars, job, restartVars, up, work, events>>

\* Ctrl-C: the turn is dropped and recorded as idle, without a hook.
UserInterrupts ==
  /\ Outside /\ agent[Arch] = "working"
  /\ agent' = [agent EXCEPT ![Arch] = "ready"] /\ term' = [term EXCEPT ![Arch].end = "interrupt"]
  /\ record' = [record EXCEPT ![Arch].busy = FALSE]
  /\ UNCHANGED <<input, messageVars, file, hookVars, job, restartVars, up>>
\* recordTerminalProcessExit; what it stores of the record is unchanged.
ProcessExits(r) ==
  /\ Outside /\ agent[r] # "off"
  /\ agent' = [agent EXCEPT ![r] = "off"] /\ input' = [input EXCEPT ![r] = NoInput]
  /\ record' = [record EXCEPT ![r].busy = @ /\ record[r].id # term[r].id]
  /\ UNCHANGED <<term, messageVars, file, hookVars, job, restartVars, up>>

(***************************************************************************)
(* The Architect's restart after planning.  Every operation of the service *)
(* holds its lock until the restart it sets off has ended.                 *)
(***************************************************************************)
PlanningFree == job["planning"] = NoJob
Met(p) == p.stopped /\ p.gate /\ p.delivered # 0 /\ p.delivered = p.accepted
IsSource(p, rec) ==
  rec.id # 0 /\ (rec.id = p.source \/ (p.convo # 0 /\ rec.convo = p.convo))
\* Mutant: the replacement counts as restored once it runs.
IsConfirmedRunning(p, rec) ==
  \/ p.replacement # 0 /\ rec.id = p.replacement
  \/ rec.convo # 0 /\ (p.convo = 0 \/ rec.convo # p.convo)
IsConfirmed(p, rec) ==
  rec.convo # 0 /\ \/ p.replacement # 0 /\ rec.id = p.replacement
                   \/ p.convo = 0 \/ rec.convo # p.convo

\* launchReplacement, which records that it executes before anything else.
Execute(p) ==
  /\ pending' = [p EXCEPT !.status = "executing"]
  /\ job' = [job EXCEPT !["planning"] = [NoJob EXCEPT !.step = "check", !.kind = "planning"]]

\* tryRestart, after the update that called it is stored.
TryRestart(p) ==
  LET rec == Registered(Arch) IN
  IF p.status # "pending" \/ ~Met(p) THEN pending' = p /\ UNCHANGED job
  ELSE IF ~IsSource(p, rec) \/ ~Live(Arch, rec)
       THEN pending' = [p EXCEPT !.status = "blocked"] /\ UNCHANGED job
  ELSE IF rec.busy THEN pending' = p /\ UNCHANGED job
  ELSE Execute([p EXCEPT !.source = rec.id])

\* An event is told to a restart that is pending, and to no other.
Tell(p) == /\ PlanningFree
           /\ IF pending.status = "pending" THEN TryRestart(p) ELSE UNCHANGED <<pending, job>>

\* schedule, which the Architect calls in its turn once the plan is complete.
Schedule ==
  LET rec == Registered(Arch) IN
  /\ Works /\ PlanningFree /\ agent[Arch] = "working" /\ Live(Arch, rec)
  /\ IF pending.status = "executing" THEN UNCHANGED <<pending, job>>
     ELSE IF pending.status # "none" /\ IsSource(pending, rec)
          THEN IF pending.status = "blocked"
               THEN TryRestart([pending EXCEPT !.status = "pending", !.source = rec.id])
               ELSE UNCHANGED <<pending, job>>
     ELSE /\ pending' = [NoPending EXCEPT !.status = "pending", !.source = rec.id,
                                          !.convo = rec.convo]
          /\ UNCHANGED job
  /\ UNCHANGED <<agentVars, messageVars, sessionVars, hookVars, intent, recovering, up>>

\* recordArchitectureGateDisposition
GateDecides(accepted) ==
  /\ Works /\ Tell([pending EXCEPT !.gate = accepted])
  /\ UNCHANGED <<agentVars, messageVars, sessionVars, hookVars, intent, recovering, up>>

\* recordRouteDelivered, called by the delivery.
DeliveryIsTold ==
  /\ up /\ delivery # 0 /\ Tell([pending EXCEPT !.delivered = delivery]) /\ delivery' = 0
  /\ UNCHANGED <<agentVars, written, route, sessionVars, hookVars, intent, recovering,
                 up, work, events>>

\* requireCompletePlan and requirePlanningMemoryCandidate
PlanningChecks ==
  /\ up /\ job["planning"].step = "check"
  /\ \/ job' = [job EXCEPT !["planning"].step = "stop"] /\ UNCHANGED pending
     \/ job' = [job EXCEPT !["planning"] = NoJob]
        /\ pending' = [pending EXCEPT !.status = "blocked"]
  /\ UNCHANGED <<agentVars, messageVars, sessionVars, hookVars, intent, recovering, up, work, events>>
PlanningNotes ==
  /\ up /\ job["planning"].step = "note"
  /\ pending' = [pending EXCEPT !.replacement = job["planning"].rec.id]
  /\ job' = [job EXCEPT !["planning"] = NoJob]
  /\ UNCHANGED <<agentVars, messageVars, sessionVars, hookVars, intent, recovering, up, work, events>>

(***************************************************************************)
(* Jobs: what the restart service and the user's request have session-     *)
(* service do.  They take no lock of it, and neither do the hooks.         *)
(***************************************************************************)
Step(c, step) == job' = [job EXCEPT ![c].step = step]
Done(c) == job' = [job EXCEPT ![c] = NoJob]
At(c, step) == up /\ job[c].step = step
Ends(r) == /\ agent' = [agent EXCEPT ![r] = "off"] /\ input' = [input EXCEPT ![r] = NoInput]
JobFrame == UNCHANGED <<messageVars, hookVars, recovering, up, work, events>>
\* No other job has stopped a terminal and is about to launch its replacement.
NoneReplaces(c) ==
  Overlaps \/ \A d \in DOMAIN job \ {c} :
                job[d].step = "launch" => job[d].kind \in {"start", "resume"}

\* restartRoleSession up to the registry, and the first half of stopRoleSession.
JobStops(c) ==
  LET r == job[c].role
      existing == Registered(r)
  IN /\ At(c, "stop") /\ Alone /\ (Overlaps \/ \A d \in DOMAIN job : job[d].step # "launch")
     /\ IF Live(r, existing) THEN Ends(r) ELSE UNCHANGED <<agent, input>>
     /\ IF job[c].kind = "stop"
        THEN /\ job' = [job EXCEPT ![c].step = "exited", ![c].rec = [existing EXCEPT !.busy = FALSE]]
             /\ UNCHANGED record
        ELSE /\ Step(c, IF existing.id = 0 THEN "launch" ELSE "store")
             /\ record' = [record EXCEPT ![r] = IF @.id = existing.id THEN NoRecord ELSE @]
     /\ UNCHANGED <<term, file, pending, intent>> /\ JobFrame
\* stopRoleSession records what it had read.
JobExits(c) ==
  /\ At(c, "exited")
  /\ record' = [record EXCEPT ![job[c].role] = job[c].rec]
  /\ IF job[c].rec.convo # 0 THEN Step(c, "store") ELSE Done(c)
  /\ UNCHANGED <<agentVars, file, pending, intent>> /\ JobFrame

\* persistTaskSession and clearPersistedRoleSessionRecord
Stores(c, value) ==
  /\ At(c, "store") /\ file' = [file EXCEPT ![job[c].role] = value]
  /\ IF job[c].kind \in {"stop", "resume"} THEN Done(c) ELSE Step(c, "launch")
  /\ UNCHANGED <<agentVars, record, pending, intent>> /\ JobFrame
JobStores(c) == Stores(c, IF job[c].kind \in {"stop", "resume"}
                          THEN Stored(job[c].rec) ELSE NotStored)

\* launchRoleSession: a live session is kept; a fresh one has no conversation
\* until its first prompt, a resumed one goes on with the stored one.
JobLaunches(c) ==
  LET r == job[c].role
      kind == job[c].kind
      resumed == IF kind = "resume" THEN file[r].convo ELSE 0
      live == Live(r, Registered(r))
      id == term[r].id + 1
      rec == IF live THEN Registered(r)
             ELSE [id |-> id, convo |-> resumed, token |-> TRUE, busy |-> FALSE]
  IN /\ At(c, "launch") /\ Alone /\ NoneReplaces(c) /\ (kind = "resume" => live \/ resumed # 0)
     /\ IF live THEN UNCHANGED <<agent, term, record>>
        ELSE /\ id <= MaxSessions
             /\ agent' = [agent EXCEPT ![r] = "ready"]
             /\ term' = [term EXCEPT ![r] =
                  [id |-> id, convo |-> IF resumed # 0 THEN resumed ELSE id, taken |-> term[r].taken,
                   origin |-> kind, end |-> "none"]]
             /\ record' = [record EXCEPT ![r] = rec]
     /\ IF kind \in {"planning", "context"} THEN job' = [job EXCEPT ![c].step = "note", ![c].rec = rec]
        ELSE IF kind = "resume" /\ ~live THEN job' = [job EXCEPT ![c].step = "store", ![c].rec = rec]
        ELSE Done(c)
     /\ UNCHANGED <<input, file, pending, intent>> /\ JobFrame
\* The runtime cannot start it, or there is nothing to resume.
JobFails(c) ==
  /\ At(c, "launch") /\ Done(c)
  /\ pending' = IF c = "planning" THEN [pending EXCEPT !.status = "blocked"] ELSE pending
  /\ intent' = IF job[c].kind = "context" THEN [intent EXCEPT ![job[c].role].status = "blocked"]
               ELSE intent
  /\ UNCHANGED <<agentVars, sessionVars>> /\ JobFrame

(***************************************************************************)
(* Restart with context, under the lock of its role.                       *)
(***************************************************************************)
IntentFree(r) == ~(job["user"].kind = "context" /\ job["user"].role = r)
Launching(r) ==
  /\ intent' = [intent EXCEPT ![r].status = "launching"]
  /\ job' = [job EXCEPT !["user"] = [NoJob EXCEPT !.step = "stop", !.kind = "context", !.role = r]]
ContextNotes ==
  LET r == job["user"].role IN
  /\ At("user", "note") /\ Step("user", "submit")
  /\ intent' = [intent EXCEPT ![r] = [status |-> "awaiting", replacement |-> job["user"].rec.id]]
  /\ UNCHANGED <<agentVars, sessionVars, pending>> /\ JobFrame
\* submitRolePrompt, to the replacement and to no other terminal.
ContextSubmits ==
  LET r == job["user"].role
      ok == Live(r, Registered(r)) /\ Registered(r).id = intent[r].replacement
  IN /\ At("user", "submit") /\ Done("user")
     /\ IF ok THEN input' = [input EXCEPT ![r] = Text] /\ UNCHANGED intent
        ELSE intent' = [intent EXCEPT ![r].status = "blocked"] /\ UNCHANGED input
     /\ UNCHANGED <<agent, term, sessionVars, pending>> /\ JobFrame

(***************************************************************************)
(* The user's requests, one at a time.                                     *)
(***************************************************************************)
Requests(r, kind, step) ==
  /\ Outside /\ job["user"] = NoJob
  /\ job' = [job EXCEPT !["user"] = [NoJob EXCEPT !.step = step, !.kind = kind, !.role = r]]
  /\ UNCHANGED <<agentVars, messageVars, sessionVars, hookVars, pending, recovering, up>>
\* Every other request gives the restart with context up (clearRole).
GivesUp(r) == intent' = [intent EXCEPT ![r] = NoIntent]
UserStarts(r)   == ~Live(r, Registered(r)) /\ Requests(r, "start", "launch") /\ GivesUp(r)
UserResumes(r)  == /\ file[r].convo # 0 /\ ~Live(r, Registered(r))
                   /\ Requests(r, "resume", "launch") /\ GivesUp(r)
UserStops(r)    == r \in UserRoles /\ Registered(r).id # 0 /\ Requests(r, "stop", "stop") /\ GivesUp(r)
UserRestarts(r) == r \in UserRoles /\ Registered(r).id # 0 /\ Requests(r, "restart", "stop") /\ GivesUp(r)
\* Refused while the Architect's restart after planning is recorded.
UserRestartsWithContext(r) ==
  /\ r \in UserRoles /\ Registered(r).id # 0 /\ (r = Arch => pending.status = "none")
  /\ Requests(r, "context", "stop")
  /\ intent' = [intent EXCEPT ![r] = [status |-> "launching", replacement |-> 0]]

(***************************************************************************)
(* Hook handlers, one request of a role at a time.                         *)
(***************************************************************************)
HookAt(r, step) == up /\ hooks[r] # <<>> /\ handler[r].step = step
Hook(r) == Head(hooks[r])
Goes(r, step) == handler' = [handler EXCEPT ![r].step = step] /\ UNCHANGED hooks
Answered(r) ==
  /\ hooks' = [hooks EXCEPT ![r] = Tail(@)] /\ handler' = [handler EXCEPT ![r] = Begin]
\* Its answer lets Claude stop.
Released(r) ==
  agent' = [agent EXCEPT ![r] =
              IF @ = "stopping" /\ Hook(r).id = term[r].id /\ Hook(r).kind = "stop"
              THEN "ready" ELSE @]

\* recordRoleHookEvent: the first prompt brings the conversation.
HookRecords(r) ==
  LET h == Hook(r)
      rec == Registered(r)
      next == [rec EXCEPT !.convo = IF rec.convo = 0 THEN h.convo ELSE @,
                          !.busy = h.kind = "prompt"]
  IN /\ HookAt(r, "begin") /\ Alone
     /\ IF Matches(rec, h)
        THEN /\ record' = [record EXCEPT ![r] = next]
             /\ handler' = [handler EXCEPT ![r].step = "store", ![r].rec = next]
             /\ UNCHANGED <<hooks, agent>>
        ELSE Answered(r) /\ Released(r) /\ UNCHANGED record
     /\ UNCHANGED <<term, input, messageVars, file, job, restartVars, up, work, events>>
HookStores(r) ==
  /\ HookAt(r, "store") /\ file' = [file EXCEPT ![r] = Stored(handler[r].rec)]
  /\ Goes(r, IF Hook(r).kind = "prompt" THEN IF r = Arch THEN "planning" ELSE "context"
             ELSE IF Hook(r).kind = "stop" /\ r = Arch THEN "stopped" ELSE "dispatch")
  /\ UNCHANGED <<agentVars, messageVars, record, job, restartVars, up, work, events>>

\* recordReplacementPromptSubmitted: the restored Architect has its first prompt.
HookConfirmsPlanning ==
  LET rec == Registered(Arch)
      confirmed == /\ pending.status = "executing" /\ rec.id = handler[Arch].rec.id
                   /\ rec.convo # 0 /\ pending.replacement \in {0, rec.id}
  IN /\ HookAt(Arch, "planning") /\ PlanningFree
     /\ pending' = IF confirmed THEN NoPending ELSE pending
     /\ Goes(Arch, "context")
     /\ UNCHANGED <<agentVars, messageVars, sessionVars, job, intent, recovering, up, work, events>>

\* Mutant: any prompt of the role confirms the replacement.
HookConfirmsAnyContext(r) ==
  LET confirmed == intent[r].status = "awaiting"
  IN /\ HookAt(r, "context") /\ IntentFree(r)
     /\ intent' = IF confirmed THEN [intent EXCEPT ![r] = NoIntent] ELSE intent
     /\ IF r = PM /\ Hook(r).message \in 1..MaxMessages THEN Goes(r, "accept") ELSE Answered(r)
     /\ UNCHANGED <<agentVars, messageVars, sessionVars, job, pending, recovering, up, work, events>>
\* recordPromptSubmitted
HookConfirmsContext(r) ==
  LET confirmed == intent[r] = [status |-> "awaiting", replacement |-> handler[r].rec.id]
  IN /\ HookAt(r, "context") /\ IntentFree(r)
     /\ intent' = IF confirmed THEN [intent EXCEPT ![r] = NoIntent] ELSE intent
     /\ IF r = PM /\ Hook(r).message \in 1..MaxMessages THEN Goes(r, "accept") ELSE Answered(r)
     /\ UNCHANGED <<agentVars, messageVars, sessionVars, job, pending, recovering, up, work, events>>

\* recordRouteAccepted
HookAccepts ==
  /\ HookAt(PM, "accept") /\ Tell([pending EXCEPT !.accepted = Hook(PM).message]) /\ Answered(PM)
  /\ UNCHANGED <<agentVars, messageVars, sessionVars, intent, recovering, up, work, events>>

\* Mutant: the Stop is recorded, and nothing is tried.
HookNotesStop ==
  LET rec == Registered(Arch)
      mine == rec.id = handler[Arch].rec.id /\ IsSource(pending, rec)
  IN /\ HookAt(Arch, "stopped") /\ PlanningFree /\ Goes(Arch, "dispatch")
     /\ pending' = IF mine /\ pending.status = "pending"
                   THEN [pending EXCEPT !.stopped = TRUE, !.source = rec.id] ELSE pending
     /\ UNCHANGED <<agentVars, messageVars, sessionVars, job, intent, recovering, up, work, events>>
\* recordArchitectStop, before the routes of the turn are dispatched.
HookTellsStop ==
  LET rec == Registered(Arch)
      mine == rec.id = handler[Arch].rec.id /\ IsSource(pending, rec)
  IN /\ HookAt(Arch, "stopped") /\ Goes(Arch, "dispatch")
     /\ IF mine THEN Tell([pending EXCEPT !.stopped = TRUE, !.source = rec.id])
        ELSE PlanningFree /\ UNCHANGED <<pending, job>>
     /\ UNCHANGED <<agentVars, messageVars, sessionVars, intent, recovering, up, work, events>>

(***************************************************************************)
(* Dispatch of the Architect's message to the Project Manager.             *)
(***************************************************************************)
Deliverable == /\ route # 0 /\ delivery = 0 /\ Live(PM, Registered(PM))
               /\ ~Registered(PM).busy /\ input[PM] = NoInput
Deliver == /\ input' = [input EXCEPT ![PM] = route]
           /\ record' = [record EXCEPT ![PM] = [Registered(PM) EXCEPT !.busy = TRUE]]
           /\ delivery' = route /\ route' = 0 /\ UNCHANGED written
HookDispatches(r) ==
  /\ HookAt(r, "dispatch") /\ Goes(r, "delivered")
  /\ IF r = Arch /\ Deliverable THEN Deliver ELSE UNCHANGED <<input, record, messageVars>>
  /\ UNCHANGED <<agent, term, file, job, restartVars, up, work, events>>
HookEnds(r) ==
  /\ HookAt(r, "delivered") /\ (r = Arch => delivery = 0 /\ PlanningFree)
  /\ Answered(r) /\ Released(r)
  /\ UNCHANGED <<term, input, messageVars, sessionVars, job, restartVars, up, work, events>>
\* The settle guard of the Round, when every role has come to rest.
SettleDispatches ==
  /\ up /\ Deliverable /\ Deliver
  /\ \A r \in Roles : ~Registered(r).busy /\ hooks[r] = <<>>
  /\ UNCHANGED <<agent, term, file, hookVars, job, restartVars, up, work, events>>

(***************************************************************************)
(* Crash and recovery.  A project may also be connected again while the    *)
(* backend runs.                                                           *)
(***************************************************************************)
Crash ==
  /\ Outside /\ up' = FALSE
  /\ agent' = Nobody("off") /\ input' = Nobody(NoInput) /\ record' = Nobody(NoRecord)
  /\ hooks' = Nobody(<<>>) /\ handler' = Nobody(Begin) /\ job' = [c \in DOMAIN job |-> NoJob]
  /\ delivery' = 0 /\ recovering' = {}
  /\ UNCHANGED <<term, written, route, file, pending, intent>>

\* recoverTask of the restart after planning
RecoverPlanning ==
  LET rec == Registered(Arch) IN
  IF pending.status = "executing"
  THEN IF IsConfirmed(pending, rec) THEN pending' = NoPending /\ UNCHANGED job
       ELSE IF Live(Arch, rec) /\ pending.replacement = rec.id THEN UNCHANGED <<pending, job>>
       ELSE Execute(pending)
  ELSE IF pending.status = "pending" /\ Met(pending)
  THEN IF Live(Arch, rec) THEN TryRestart(pending) ELSE Execute(pending)
  ELSE UNCHANGED <<pending, job>>
Connect ==
  /\ PlanningFree /\ recovering = {} /\ RecoverPlanning
  /\ recovering' = {r \in Roles : intent[r].status # "none"}
  /\ up' = TRUE
  /\ UNCHANGED <<agentVars, messageVars, sessionVars, hookVars, intent>>
Recover   == ~up /\ Connect /\ UNCHANGED <<work, events>>
Reconnect == Outside /\ Connect
\* recoverTask of a restart with context
RecoverContext(r) ==
  LET rec == Registered(r) IN
  /\ up /\ r \in recovering /\ recovering' = recovering \ {r}
  /\ PlanningFree /\ job["user"] = NoJob
  /\ IF intent[r].status = "none" THEN UNCHANGED <<intent, job>>
     ELSE IF intent[r].replacement # 0 /\ rec.id = intent[r].replacement /\ rec.convo # 0
          THEN intent' = [intent EXCEPT ![r] = NoIntent] /\ UNCHANGED job
          ELSE Launching(r)
  /\ UNCHANGED <<agentVars, messageVars, sessionVars, hookVars, pending, up, work, events>>

-----------------------------------------------------------------------------
Init ==
  /\ agent = Nobody("ready") /\ input = Nobody(NoInput)
  /\ term = Nobody([id |-> 1, convo |-> 1, taken |-> {}, origin |-> "start", end |-> "none"])
  /\ written = 0 /\ route = 0 /\ delivery = 0
  /\ record = Nobody([id |-> 1, convo |-> 0, token |-> TRUE, busy |-> FALSE])
  /\ file = Nobody(NotStored) /\ hooks = Nobody(<<>>) /\ handler = Nobody(Begin)
  /\ job = [c \in {"planning", "user"} |-> NoJob]
  /\ pending = NoPending /\ intent = Nobody(NoIntent) /\ recovering = {}
  /\ up = TRUE /\ work = 0 /\ events = 0

AgentStep(r) == AgentAccepts(r) \/ AgentStops(r)
UserStep(r) == \/ UserPrompts(r) \/ ProcessExits(r) \/ UserStarts(r) \/ UserResumes(r)
               \/ UserStops(r) \/ UserRestarts(r) \/ UserRestartsWithContext(r)
HookStep(r) == \/ HookRecords(r) \/ HookStores(r) \/ HookConfirmsContext(r)
               \/ HookDispatches(r) \/ HookEnds(r)
JobStep(c) == \/ JobStops(c) \/ JobExits(c) \/ JobStores(c) \/ JobLaunches(c)
              \/ JobFails(c)
Next ==
  \/ \E r \in Roles : AgentStep(r) \/ UserStep(r) \/ HookStep(r) \/ RecoverContext(r)
  \/ AgentFails \/ AgentRoutes \/ UserInterrupts
  \/ Schedule \/ \E accepted \in BOOLEAN : GateDecides(accepted)
  \/ HookConfirmsPlanning \/ HookAccepts \/ HookTellsStop \/ DeliveryIsTold \/ SettleDispatches
  \/ \E c \in {"planning", "user"} : JobStep(c)
  \/ PlanningChecks \/ PlanningNotes \/ ContextNotes \/ ContextSubmits
  \/ Crash \/ Recover \/ Reconnect
Spec == Init /\ [][Next]_vars

(***************************************************************************)
(* Properties                                                              *)
(***************************************************************************)
\* An Architect that rests after a normal Stop, with everything recorded
\* that its deferred restart waits for, has not been forgotten: whichever of
\* Stop, delivery, acceptance and Gate came last has set the restart off.
NoForgottenRestart ==
  (/\ up /\ pending.status = "pending" /\ Met(pending) /\ PlanningFree /\ recovering = {}
   /\ IsSource(pending, record[Arch]) /\ agent[Arch] = "ready" /\ Live(Arch, record[Arch])
   /\ hooks[Arch] = <<>> /\ ~record[Arch].busy)
    => term[Arch].end # "stop"

\* An Architect restored after planning keeps its restoration on record, over
\* every crash and reconnect, until it has taken its first prompt.
RestorationSurvives ==
  term[Arch].origin = "planning" /\ term[Arch].id \notin term[Arch].taken
    => pending.status \in {"executing", "blocked"}

\* What docs/ARCHITECTURE.md says of the deferred restart: it begins when the
\* latest message of the Architect has been delivered.
LatestIsDelivered ==
  [][pending.status = "pending" /\ pending'.status = "executing" => route = 0]_pending

\* A restart with context is off the record only when its replacement has
\* taken a prompt, or when the user asks for something else.
IntentSurvives ==
  [][\A r \in Roles :
       intent[r].status # "none" /\ intent'[r].status = "none"
         => \/ intent[r].replacement \in term[r].taken
            \/ job["user"] = NoJob /\ job'["user"].role = r /\ job'["user"] # NoJob]_intent

\* When the hooks and requests have run out, the stored conversation of a
\* running role is its own: its newest one, and none before the first prompt
\* that follows a restart, so that nothing it left behind can be resumed.
Quiet == up /\ (\A r \in Roles : hooks[r] = <<>>) /\ (\A c \in DOMAIN job : job[c] = NoJob)
StoredIsCurrent ==
  Quiet => \A r \in Roles : 
    Live(r, record[r]) => \/ file[r].convo = record[r].convo
                          \/ record[r].convo = 0 /\ term[r].origin = "start"
=============================================================================
