------------------------------ MODULE RoundFlow ------------------------------
(***************************************************************************)
(* round-service, claude-hook-service, job-guard-service and the two       *)
(* terminal listeners: how the turns of the role terminals become the      *)
(* Rounds of a task, how a failed turn is retried, and when a Round stops. *)
(*                                                                         *)
(* An operation of round-service is one step, for it holds the task's      *)
(* Round lock; a hook, a retry, an interrupt or an exit is one step per    *)
(* await between such operations.  A settle holds the lock across its      *)
(* guard.  Times are left out: a deadline is the turn whose end set it.    *)
(***************************************************************************)
EXTENDS Naturals, Sequences

CONSTANTS
  Roles, PM, Coder,
  Reviewer,     \* the role whose Stops dispatch no routes
  Fragile,      \* the roles whose turns may fail
  Hasty,        \* whether an event outside may overtake a hook or retry under way
  MaxAttempts,  \* MAX_ROLE_RETRY_ATTEMPTS
  MaxBlocks,    \* MAX_CONSECUTIVE_STOP_BLOCKS
  MaxSessions,  \* bound on the sessions of one role
  MaxEvents     \* bound on the events from outside

ASSUME RolesAssumption == /\ PM \in Roles /\ Coder \in Roles /\ Fragile \subseteq Roles
ASSUME LimitsAssumption == /\ Hasty \in BOOLEAN /\ MaxAttempts \in Nat /\ MaxBlocks \in Nat
                           /\ MaxSessions \in Nat \ {0} /\ MaxEvents \in Nat

NoRole == "nobody"
ASSUME NoRoleAssumption == NoRole \notin Roles

VARIABLES
  agent,     \* role -> its Claude process
  input,     \* role -> a prompt waits in its terminal
  work,      \* kinds of background work: validation jobs, coder workers
  routes,    \* <<from, to>> route files not yet dispatched
  session,   \* role -> its registered session: id and activityStatus
  hooks,     \* role -> the hook requests behind its hook lock
  handler,   \* role -> where the handler of the first of them is
  blocks,    \* role -> Stops the job guard has blocked in a row
  round,     \* currentRound
  recovery,  \* roleRecovery
  settleTimer,  \* the settle timer of the task
  settle,    \* the settle callback in progress
  retryTimer,   \* role -> the armed stop-failure retry
  retry,     \* role -> the retry callback in progress
  leaving,   \* role -> the interrupt or exit still to be recorded
  up,        \* the backend is running
  events     \* events from outside so far
agentVars == <<agent, input, work, routes>>
hookVars  == <<hooks, handler, blocks>>
roundVars == <<round, recovery, settleTimer, settle>>
retryVars == <<retryTimer, retry>>
vars == <<agentVars, session, hookVars, roundVars, retryVars, leaving, up, events>>

Ids == 1..MaxSessions
NoRound == [seq |-> 0, phase |-> "none", role |-> NoRole, ended |-> 0, reason |-> "none"]
NoRecovery == [role |-> NoRole, status |-> "none", attempt |-> 0]
NoTimer == [seq |-> 0, ended |-> 0, guard |-> FALSE]
NoSettle == [timer |-> NoTimer, step |-> "none"]
NoArm == [attempt |-> 0, hook |-> 0]
NoRetry == [step |-> "none", arm |-> NoArm, id |-> 0]
Begin == [step |-> "begin", guard |-> FALSE, scan |-> FALSE, attempt |-> 0]
NotLeaving == [step |-> "none", why |-> "none", id |-> 0]

(***************************************************************************)
(* The Round file: what each operation makes of a Round.                   *)
(***************************************************************************)
TurnActive(rd) == rd.phase = "turn"

\* applyPromptSubmitted
Prompted(rd, r) ==
  IF TurnActive(rd) /\ rd.role = r THEN rd
  ELSE IF rd.phase \in {"none", "stopped"}
       THEN [NoRound EXCEPT !.seq = rd.seq + 1, !.phase = "turn", !.role = r]
       ELSE [rd EXCEPT !.phase = "turn", !.role = r, !.reason = "none"]

\* applyStop
Stopped(rd, r) ==
  IF TurnActive(rd) /\ rd.role = r
  THEN [rd EXCEPT !.phase = "settling", !.ended = @ + 1, !.reason = "none"] ELSE rd

\* applyForcedTurnStop: an interrupt or an exit stops the Round at once.
Forced(rd, r, why) ==
  IF TurnActive(rd) /\ rd.role = r
  THEN [rd EXCEPT !.phase = "stopped", !.ended = @ + 1, !.reason = why] ELSE rd

\* findActiveRoleSession: running sessions recorded in a turn.
ActiveRoles == {r \in Roles : agent[r] # "off" /\ session[r].activity = "running"}

\* syncRoundFromActiveRoleSession, when it applies.
Synced(rd) == IF TurnActive(rd) THEN {} ELSE {Prompted(rd, r) : r \in ActiveRoles}

\* settleIfNeeded once the deadline has passed.
Expired(rd) ==
  IF rd.phase # "settling" THEN {rd}
  ELSE IF Synced(rd) # {} THEN Synced(rd) ELSE {[rd EXCEPT !.phase = "stopped"]}

\* settleIfNeeded, before the deadline or after it.
Settled(rd) == {rd} \cup Expired(rd)

\* getSessionRoundState
Polled(rd) == IF Synced(rd) # {} THEN Synced(rd) ELSE Settled(rd)

RoundFree == settle.step # "guard"

\* A sync clears the settle timer.
TimerAfter(rd) == IF ~TurnActive(round) /\ TurnActive(rd) THEN NoTimer ELSE settleTimer

ReadRound == /\ RoundFree
             /\ \E rd \in Polled(round) : round' = rd /\ settleTimer' = TimerAfter(rd)

\* recordRoleTurnEvent
PromptEvent(r) ==
  /\ RoundFree /\ settleTimer' = NoTimer
  /\ \E rd \in Settled(round) : round' = Prompted(rd, r)
\* Mutant: a Stop without a guard leaves no timer.
StopEventUntimed(r, guard) ==
  /\ RoundFree
  /\ \E rd \in Settled(round) :
       LET next == Stopped(rd, r)
       IN /\ round' = next
          /\ settleTimer' = IF next.phase = "settling" /\ guard
                            THEN [seq |-> next.seq, ended |-> next.ended, guard |-> guard]
                            ELSE NoTimer
StopEvent(r, guard) ==
  /\ RoundFree
  /\ \E rd \in Settled(round) :
       LET next == Stopped(rd, r)
       IN /\ round' = next
          /\ settleTimer' = IF next.phase = "settling"
                            THEN [seq |-> next.seq, ended |-> next.ended, guard |-> guard]
                            ELSE IF next.phase = "none" THEN settleTimer ELSE NoTimer

Recovering(r, status, attempt) == [role |-> r, status |-> status, attempt |-> attempt]
\* Mutant: any role's Stop clears the recovery.
ClearAnyRecovery(r) == RoundFree /\ r \in Roles /\ recovery' = NoRecovery
\* clearRoleRecovery
ClearRecovery(r) ==
  /\ RoundFree
  /\ recovery' = IF recovery.role = r THEN NoRecovery ELSE recovery

(***************************************************************************)
(* Terminals: the Claude process of a role, outside the program.           *)
(***************************************************************************)
Outside == up /\ events < MaxEvents /\ events' = events + 1
Enqueue(r, kind) == hooks' = [hooks EXCEPT ![r] = Append(@, [kind |-> kind, id |-> session[r].id])]
Idle(r) == session[r].activity = "idle"
SetActivity(r, activity) == session' = [session EXCEPT ![r].activity = activity]
Type(targets) == input' = [r \in Roles |-> input[r] \/ r \in targets]

\* The user types a prompt.
UserPrompts(r) ==
  /\ Outside /\ agent[r] # "off" /\ ~input[r] /\ Type({r})
  /\ UNCHANGED <<agent, work, routes, session, hookVars, roundVars, retryVars, leaving, up>>

\* Claude takes the prompt; its UserPromptSubmit hook is posted.
AgentAccepts(r) ==
  /\ up /\ agent[r] = "ready" /\ input[r] /\ Len(hooks[r]) < 2
  /\ agent' = [agent EXCEPT ![r] = "working"] /\ input' = [input EXCEPT ![r] = FALSE]
  /\ Enqueue(r, "prompt")
  /\ UNCHANGED <<work, routes, session, handler, blocks, roundVars, retryVars,
                 leaving, up, events>>

\* The turn ends: Claude waits for the answer of the Stop hook, not for that
\* of a StopFailure hook.
AgentStops(r) ==
  /\ up /\ agent[r] = "working" /\ Len(hooks[r]) < 2
  /\ agent' = [agent EXCEPT ![r] = "stopping"] /\ Enqueue(r, "stop")
  /\ UNCHANGED <<input, work, routes, session, handler, blocks, roundVars,
                 retryVars, leaving, up, events>>
AgentFails(r, kind) ==
  /\ Outside /\ agent[r] = "working" /\ Len(hooks[r]) < 2
  /\ r \in Fragile
  /\ agent' = [agent EXCEPT ![r] = "ready"] /\ Enqueue(r, kind)
  /\ UNCHANGED <<input, work, routes, session, handler, blocks, roundVars,
                 retryVars, leaving, up>>

\* A working role writes a route file, or starts a job or a worker.
AgentRoutes(r) ==
  /\ Outside /\ agent[r] = "working"
  /\ \E to \in Roles \ {r} : routes' = routes \cup {<<r, to>>}
  /\ UNCHANGED <<agent, input, work, session, hookVars, roundVars, retryVars, leaving, up>>
WorkKinds == {"job", "worker"}
AgentStartsWork(r) ==
  /\ Outside /\ agent[r] = "working"
  /\ \E kind \in WorkKinds : work' = work \cup {kind}
  /\ UNCHANGED <<agent, input, routes, session, hookVars, roundVars, retryVars, leaving, up>>
WorkEnds(kind) ==
  /\ up /\ kind \in work /\ work' = work \ {kind}
  /\ UNCHANGED <<agent, input, routes, session, hookVars, roundVars, retryVars,
                 leaving, up, events>>

\* Nothing outside overtakes what was set off a moment ago: the hook of a
\* prompt, a handler or a retry half-way, or the record of an interrupt or exit.
PromptHooked(r) == \E i \in DOMAIN hooks[r] : hooks[r][i].kind = "prompt"
Unhurried(r) == Hasty \/ ~PromptHooked(r)
Undisturbed(r) ==
  Hasty \/ (handler[r] = Begin /\ leaving[r] = NotLeaving /\ retry[r] = NoRetry)

\* Ctrl-C: Claude drops its turn, and the terminal socket starts the interrupt handler.
UserInterrupts(r) ==
  /\ Outside /\ agent[r] # "off" /\ leaving[r] = NotLeaving /\ Unhurried(r)
  /\ agent' = [agent EXCEPT ![r] = "ready"]
  /\ leaving' = [leaving EXCEPT ![r] = [step |-> "session", why |-> "manual-interrupt",
                                        id |-> session[r].id]]
  /\ UNCHANGED <<input, work, routes, session, hookVars, roundVars, retryVars, up>>

\* The process exits by itself: the exit listener is called.
ProcessExits(r) ==
  /\ Outside /\ agent[r] # "off" /\ leaving[r] = NotLeaving /\ Unhurried(r)
  /\ agent' = [agent EXCEPT ![r] = "off"] /\ input' = [input EXCEPT ![r] = FALSE]
  /\ leaving' = [leaving EXCEPT ![r] = [step |-> "session", why |-> "terminal-exit",
                                        id |-> session[r].id]]
  /\ UNCHANGED <<work, routes, session, hookVars, roundVars, retryVars, up>>

\* stopRoleSession: the runtime forgets the terminal, so no exit is reported.
UserStopsSession(r) ==
  /\ Outside /\ agent[r] # "off" /\ Unhurried(r)
  /\ agent' = [agent EXCEPT ![r] = "off"] /\ input' = [input EXCEPT ![r] = FALSE]
  /\ SetActivity(r, "idle")
  /\ UNCHANGED <<work, routes, hookVars, roundVars, retryVars, leaving, up>>

\* startRoleSession and restartRoleSession: a new session takes the role.
UserStartsSession(r) ==
  /\ Outside /\ session[r].id < MaxSessions /\ Undisturbed(r)
  /\ agent' = [agent EXCEPT ![r] = "ready"] /\ input' = [input EXCEPT ![r] = FALSE]
  /\ session' = [session EXCEPT ![r] = [id |-> @.id + 1, activity |-> "idle"]]
  /\ UNCHANGED <<work, routes, hookVars, roundVars, retryVars, leaving, up>>

(***************************************************************************)
(* Terminal listeners.                                                     *)
(***************************************************************************)
\* markTaskRoleActivityIdle and recordTaskRoleProcessExit: only of the
\* session that was left, and an exit goes on only when its turn was running.
LeavingRecordsSession(r) ==
  LET l == leaving[r]
      current == l.id = session[r].id
      goesOn == current /\ (l.why = "manual-interrupt" \/ ~Idle(r))
  IN /\ up /\ l.step = "session"
     /\ session' = [session EXCEPT ![r].activity = IF current THEN "idle" ELSE @]
     /\ leaving' = [leaving EXCEPT ![r] = IF goesOn THEN [l EXCEPT !.step = "round"]
                                          ELSE NotLeaving]
     /\ UNCHANGED <<agentVars, hookVars, roundVars, retryVars, up, events>>

\* recordManualInterrupt and recordTerminalExit
LeavingStopsRound(r) ==
  LET why == leaving[r].why
      next == Forced(round, r, why)
  IN /\ up /\ leaving[r].step = "round" /\ RoundFree
     /\ round' = next
     /\ settleTimer' = IF next # round THEN NoTimer ELSE settleTimer
     /\ recovery' = IF why = "terminal-exit" /\ next # round /\ recovery.role = r
                    THEN NoRecovery ELSE recovery
     /\ leaving' = [leaving EXCEPT ![r] = NotLeaving]
     /\ UNCHANGED <<agentVars, session, hookVars, settle, retryVars, up, events>>

(***************************************************************************)
(* Hook handlers: one request of a role at a time, under its hook lock.    *)
(***************************************************************************)
At(r, kind, step) == /\ up /\ hooks[r] # <<>> /\ Head(hooks[r]).kind = kind
                     /\ handler[r].step = step
Current(r) == Head(hooks[r]).id = session[r].id
GoTo(r, step) == handler' = [handler EXCEPT ![r].step = step] /\ UNCHANGED hooks
EndsTurn(r, guard, scan) ==
  /\ handler' = [handler EXCEPT ![r] = [Begin EXCEPT !.step = "session",
                                                     !.guard = guard, !.scan = scan]]
  /\ UNCHANGED hooks
Answered(r) == /\ hooks' = [hooks EXCEPT ![r] = Tail(@)]
               /\ handler' = [handler EXCEPT ![r] = Begin]
\* The answer of a Stop hook lets Claude stop, or sends it back to work.
Released(r, next) ==
  agent' = [agent EXCEPT ![r] =
              IF @ = "stopping" /\ Current(r) /\ Head(hooks[r]).kind = "stop" THEN next ELSE @]
HookFrame == UNCHANGED <<input, work, leaving, up, events>>

\* isCurrentRoleHook fails: the hook of a replaced session changes nothing.
HookIsStale(r) ==
  /\ \E kind \in {"prompt", "stop", "failure", "fatal"} : At(r, kind, "begin")
  /\ ~Current(r) /\ Answered(r)
  /\ UNCHANGED <<agent, routes, session, blocks, roundVars, retryVars>> /\ HookFrame

\* handleUserPromptSubmitHook: the session event, then the round event.  The
\* prompt of a memory turn leaves the job guard alone.
PromptRecordsSession(r) ==
  /\ At(r, "prompt", "begin") /\ Current(r) /\ SetActivity(r, "running")
  /\ GoTo(r, "round")
  /\ UNCHANGED <<agent, routes, blocks, roundVars, retryVars>> /\ HookFrame
PromptRecordsRound(r) ==
  /\ At(r, "prompt", "round") /\ PromptEvent(r) /\ Answered(r)
  /\ \E memory \in BOOLEAN :
       blocks' = IF memory THEN blocks ELSE [blocks EXCEPT ![r] = 0]
  /\ UNCHANGED <<agent, routes, session, recovery, settle, retryVars>> /\ HookFrame

\* processAutoMemoryRoleHook: the end of a memory turn, failed or not.
MemoryTurnEnds(r) ==
  /\ \E kind \in {"stop", "failure", "fatal"} : At(r, kind, "begin")
  /\ Current(r) /\ EndsTurn(r, FALSE, FALSE)
  /\ UNCHANGED <<agent, routes, session, blocks, roundVars, retryVars>> /\ HookFrame

\* isDuplicateCompletedStop: the transcript holds no completion since the
\* recorded end of the turn.
StopIsDuplicate(r) ==
  /\ At(r, "stop", "begin") /\ Current(r) /\ Idle(r) /\ Answered(r) /\ Released(r, "ready")
  /\ UNCHANGED <<routes, session, blocks, roundVars, retryVars>> /\ HookFrame

\* clearStopFailureRecoveryState
Disarm(r) == retryTimer' = [retryTimer EXCEPT ![r] = NoArm]
ClearsRetry(r) == ClearRecovery(r) /\ Disarm(r)

\* evaluateStop: unhandled workers hold the Coder only.
Held(r) == work \ (IF r = Coder THEN {} ELSE {"worker"}) # {}
\* A later lease or worker state than the last block saw counts as progress.
Blocked(r) == \E progress \in BOOLEAN :
  LET count == IF progress THEN 0 ELSE blocks[r]
  IN Held(r) /\ count < MaxBlocks /\ blocks' = [blocks EXCEPT ![r] = count + 1]
Allowed(r) == /\ ~Held(r) \/ blocks[r] >= MaxBlocks
              /\ blocks' = [blocks EXCEPT ![r] = 0]

\* processStopHook: a block by the job guard, or of a question the Project
\* Manager did not register, keeps the turn.
StopIsBlocked(r) ==
  /\ At(r, "stop", "begin") /\ Current(r) /\ ClearsRetry(r)
  /\ \/ Blocked(r)
     \/ r = PM /\ Allowed(r)
  /\ Answered(r) /\ Released(r, "working")
  /\ UNCHANGED <<routes, session, round, settleTimer, settle, retry>> /\ HookFrame
\* Otherwise the turn ends.  While the user owes an answer nothing is dispatched.
StopIsAllowed(r) ==
  /\ At(r, "stop", "begin") /\ Current(r) /\ ClearsRetry(r) /\ Allowed(r)
  /\ \E awaitingUser \in (IF r = PM THEN BOOLEAN ELSE {FALSE}) :
       EndsTurn(r, ~awaitingUser, ~awaitingUser /\ r # Reviewer)
  /\ UNCHANGED <<agent, routes, session, round, settleTimer, settle, retry>> /\ HookFrame

(***************************************************************************)
(* processStopFailureHook                                                  *)
(***************************************************************************)
Failure(r, kinds) == /\ \E kind \in kinds : At(r, kind, "begin")
                     /\ Current(r)
HasEvidence(r) == \E to \in Roles : <<r, to>> \in routes
InterruptedRound(rd, r) ==
  rd.phase = "stopped" /\ rd.reason = "manual-interrupt" /\ rd.role = r

\* A route file of the role is evidence that its work was done.
FailureHasEvidence(r) ==
  /\ Failure(r, {"failure", "fatal"}) /\ HasEvidence(r)
  /\ ClearsRetry(r) /\ EndsTurn(r, TRUE, r # Reviewer)
  /\ UNCHANGED <<agent, routes, session, blocks, round, settleTimer, settle, retry>>
  /\ HookFrame

\* The user interrupted the turn: it ends, and nothing is recorded as failed.
FailureWasInterrupted(r) ==
  /\ Failure(r, {"failure", "fatal"}) /\ ~HasEvidence(r)
  /\ ReadRound /\ InterruptedRound(round', r) /\ EndsTurn(r, FALSE, FALSE)
  /\ UNCHANGED <<agent, routes, session, blocks, recovery, settle, retryVars>> /\ HookFrame

PreviousAttempt(r) ==
  IF recovery.role = r /\ recovery.status # "failed" THEN recovery.attempt ELSE 0

\* markStopFailureRecoveryFailed: of a failure that is not retryable, or of
\* the last attempt.
FailureIsFinal(r) ==
  /\ \/ Failure(r, {"fatal"})
     \/ Failure(r, {"failure"}) /\ PreviousAttempt(r) >= MaxAttempts
  /\ ~HasEvidence(r) /\ ReadRound /\ ~InterruptedRound(round', r)
  /\ recovery' = Recovering(r, "failed", IF Failure(r, {"fatal"}) THEN 0 ELSE MaxAttempts)
  /\ Disarm(r) /\ EndsTurn(r, FALSE, FALSE)
  /\ UNCHANGED <<agent, routes, session, blocks, settle, retry>> /\ HookFrame

\* Role retry is switched off in the settings.
FailureIsNotRetried(r) ==
  /\ Failure(r, {"failure"}) /\ ~HasEvidence(r) /\ EndsTurn(r, FALSE, FALSE)
  /\ UNCHANGED <<agent, routes, session, blocks, roundVars, retryVars>> /\ HookFrame

\* scheduleStopFailureRetry: the Round is read, the recovery recorded as
\* waiting, the session kept in its turn, and the timer armed.
FailureReadsRound(r) ==
  /\ Failure(r, {"failure"}) /\ ~HasEvidence(r) /\ PreviousAttempt(r) < MaxAttempts
  /\ ReadRound /\ ~InterruptedRound(round', r)
  /\ handler' = [handler EXCEPT ![r] = [Begin EXCEPT !.step = "wait",
                                                     !.attempt = PreviousAttempt(r) + 1]]
  /\ UNCHANGED <<agent, routes, session, hooks, blocks, recovery, settle, retryVars>>
  /\ HookFrame
FailureWaits(r) ==
  /\ At(r, "failure", "wait") /\ RoundFree
  /\ recovery' = Recovering(r, "waiting", handler[r].attempt) /\ GoTo(r, "arm")
  /\ UNCHANGED <<agent, routes, session, blocks, round, settleTimer, settle, retryVars>>
  /\ HookFrame
FailureArmsRetry(r) ==
  /\ At(r, "failure", "arm") /\ SetActivity(r, "running")
  /\ retryTimer' = [retryTimer EXCEPT ![r] = [attempt |-> handler[r].attempt,
                                              hook |-> Head(hooks[r]).id]]
  /\ Answered(r)
  /\ UNCHANGED <<agent, routes, blocks, roundVars, retry>> /\ HookFrame

(***************************************************************************)
(* recordTurnEnd                                                           *)
(***************************************************************************)
EndRecordsSession(r) ==
  /\ up /\ handler[r].step = "session"
  /\ IF Current(r)
     THEN /\ SetActivity(r, "idle")
          /\ GoTo(r, "round") /\ UNCHANGED agent
     ELSE /\ Answered(r) /\ UNCHANGED <<session, agent>>
  /\ UNCHANGED <<routes, blocks, roundVars, retryVars>> /\ HookFrame
EndRecordsRound(r) ==
  /\ up /\ hooks[r] # <<>> /\ Head(hooks[r]).kind # "prompt" /\ handler[r].step = "round"
  /\ StopEvent(r, handler[r].guard) /\ GoTo(r, "dispatch")
  /\ UNCHANGED <<agent, routes, session, blocks, recovery, settle, retryVars>> /\ HookFrame

\* scanAndDispatchPendingRouteFiles: a route reaches an idle live target or
\* waits; which of them the workflow lets pass is decided elsewhere.
Deliverable(route) == /\ route \in routes /\ agent[route[2]] # "off"
                      /\ Idle(route[2]) /\ ~input[route[2]]
Delivers(sent) ==
  /\ routes' = routes \ sent /\ Type({route[2] : route \in sent})
  /\ session' = [r \in Roles |-> IF \E route \in sent : route[2] = r
                                 THEN [session[r] EXCEPT !.activity = "running"]
                                 ELSE session[r]]
OnePerTarget(sent) == \A a, b \in sent : a[2] = b[2] => a = b
Sendable(from) == {sent \in SUBSET {route \in routes : Deliverable(route) /\ route[1] \in from} :
                     OnePerTarget(sent)}
EndDispatches(r) ==
  /\ up /\ hooks[r] # <<>> /\ handler[r].step = "dispatch"
  /\ IF handler[r].scan
     THEN \E sent \in Sendable({r}) : Delivers(sent)
     ELSE UNCHANGED <<routes, input, session>>
  /\ Answered(r) /\ Released(r, "ready")
  /\ UNCHANGED <<work, blocks, roundVars, retryVars, leaving, up, events>>

(***************************************************************************)
(* The settle timer of a Round.                                            *)
(***************************************************************************)
SettleFires ==
  /\ up /\ settleTimer # NoTimer /\ settle = NoSettle
  /\ settle' = [timer |-> settleTimer, step |-> "fired"] /\ settleTimer' = NoTimer
  /\ UNCHANGED <<agentVars, session, hookVars, round, recovery, retryVars, leaving, up, events>>

StillCurrent == /\ round.phase = "settling" /\ round.seq = settle.timer.seq
                /\ round.ended = settle.timer.ended

\* settleIfStillCurrent up to the guard, which it asks holding the Round lock.
SettleChecks ==
  /\ up /\ settle.step = "fired"
  /\ IF StillCurrent /\ ActiveRoles = {} /\ settle.timer.guard
     THEN settle' = [settle EXCEPT !.step = "guard"] /\ UNCHANGED <<round, settleTimer>>
     ELSE /\ settle' = NoSettle
          /\ IF StillCurrent
             THEN \E rd \in Expired(round) : round' = rd /\ settleTimer' = TimerAfter(rd)
             ELSE UNCHANGED <<round, settleTimer>>
  /\ UNCHANGED <<agentVars, session, hookVars, recovery, retryVars, leaving, up, events>>

\* The guard dispatches the pending routes of every role; when one is
\* delivered the window opens again, otherwise the Round settles.
SettleGuards ==
  /\ up /\ settle.step = "guard" /\ settle' = NoSettle
  /\ \E sent \in Sendable(Roles) :
       /\ Delivers(sent)
       /\ IF sent # {} THEN settleTimer' = settle.timer /\ UNCHANGED round
          ELSE \E rd \in Expired(round) : round' = rd /\ settleTimer' = TimerAfter(rd)
  /\ UNCHANGED <<agent, work, hookVars, recovery, retryVars, leaving, up, events>>

\* getSessionRoundState, asked for by the GUI.
Poll == /\ up /\ ReadRound
        /\ UNCHANGED <<agentVars, session, hookVars, recovery, settle, retryVars, leaving,
                       up, events>>

(***************************************************************************)
(* The retry of a failed turn.  It does not take the hook lock.            *)
(***************************************************************************)
RetryFires(r) ==
  /\ up /\ retryTimer[r] # NoArm /\ retry[r] = NoRetry
  /\ retry' = [retry EXCEPT ![r] = [NoRetry EXCEPT !.step = "check", !.arm = retryTimer[r]]]
  /\ Disarm(r)
  /\ UNCHANGED <<agentVars, session, hookVars, roundVars, leaving, up, events>>

Step(r, step) == retry' = [retry EXCEPT ![r].step = step]
RetryFrame == UNCHANGED <<hookVars, retryTimer, leaving, up, events>>

\* Only the waiting recovery of this role and attempt is retried, and only
\* in a session that runs.
RetryChecks(r) ==
  /\ up /\ retry[r].step = "check" /\ ReadRound
  /\ retry' = [retry EXCEPT ![r] =
       IF recovery # Recovering(r, "waiting", retry[r].arm.attempt) THEN NoRetry
       ELSE [@ EXCEPT !.step = IF agent[r] = "off" THEN "fail" ELSE "mark",
                      !.id = session[r].id]]
  /\ UNCHANGED <<agentVars, session, recovery, settle>> /\ RetryFrame
RetryMarks(r) ==
  /\ up /\ retry[r].step = "mark" /\ RoundFree /\ Step(r, "submit")
  /\ recovery' = Recovering(r, "retrying", retry[r].arm.attempt)
  /\ UNCHANGED <<agentVars, session, round, settleTimer, settle>> /\ RetryFrame
\* The prompt goes to the session that was looked up, which is then recorded
\* in its turn; the timer swallows the error of a terminal that is gone.
RetrySubmits(r) ==
  /\ up /\ retry[r].step = "submit" /\ retry' = [retry EXCEPT ![r] = NoRetry]
  /\ IF agent[r] # "off" /\ retry[r].id = session[r].id
     THEN Type({r}) /\ SetActivity(r, "running")
     ELSE UNCHANGED <<input, session>>
  /\ UNCHANGED <<agent, work, routes, roundVars>> /\ RetryFrame

\* No session to retry in: the recovery has failed and the turn ends.
RetryFails(r) ==
  /\ up /\ retry[r].step = "fail" /\ RoundFree /\ Step(r, "session")
  /\ recovery' = Recovering(r, "failed", retry[r].arm.attempt)
  /\ UNCHANGED <<agentVars, session, round, settleTimer, settle>> /\ RetryFrame
RetryEndsSession(r) ==
  /\ up /\ retry[r].step = "session"
  /\ IF retry[r].arm.hook = session[r].id THEN SetActivity(r, "idle") /\ Step(r, "round")
     ELSE retry' = [retry EXCEPT ![r] = NoRetry] /\ UNCHANGED session
  /\ UNCHANGED <<agentVars, roundVars>> /\ RetryFrame
RetryEndsRound(r) ==
  /\ up /\ retry[r].step = "round" /\ StopEvent(r, FALSE)
  /\ retry' = [retry EXCEPT ![r] = NoRetry]
  /\ UNCHANGED <<agentVars, session, recovery, settle>> /\ RetryFrame

(***************************************************************************)
(* The backend stops, and its terminals with it; the next connect recovers *)
(* the sessions and the Round (recoverTaskSessions, recoverRound).         *)
(***************************************************************************)
Nobody(value) == [r \in Roles |-> value]
Crash ==
  /\ Outside /\ up' = FALSE
  /\ agent' = Nobody("off") /\ input' = Nobody(FALSE)
  /\ hooks' = Nobody(<<>>) /\ handler' = Nobody(Begin) /\ blocks' = Nobody(0)
  /\ settleTimer' = NoTimer /\ settle' = NoSettle
  /\ retryTimer' = Nobody(NoArm) /\ retry' = Nobody(NoRetry) /\ leaving' = Nobody(NotLeaving)
  /\ UNCHANGED <<work, routes, session, round, recovery>>
Recover ==
  /\ ~up /\ up' = TRUE
  /\ session' = [r \in Roles |-> [session[r] EXCEPT !.activity = "idle"]]
  /\ round' = IF round.phase \in {"turn", "settling"}
              THEN [round EXCEPT !.phase = "stopped", !.reason = "runtime-recovery",
                                 !.ended = IF TurnActive(round) THEN @ + 1 ELSE @]
              ELSE round
  /\ recovery' = IF recovery.status \in {"waiting", "retrying"} THEN NoRecovery ELSE recovery
  /\ UNCHANGED <<agentVars, hookVars, settleTimer, settle, retryVars, leaving, events>>

-----------------------------------------------------------------------------
Init ==
  /\ agent = Nobody("ready") /\ input = Nobody(FALSE) /\ work = {} /\ routes = {}
  /\ session = Nobody([id |-> 1, activity |-> "idle"])
  /\ hooks = Nobody(<<>>) /\ handler = Nobody(Begin) /\ blocks = Nobody(0)
  /\ round = NoRound /\ recovery = NoRecovery
  /\ settleTimer = NoTimer /\ settle = NoSettle
  /\ retryTimer = Nobody(NoArm) /\ retry = Nobody(NoRetry) /\ leaving = Nobody(NotLeaving)
  /\ up = TRUE /\ events = 0

PromptStep(r) == PromptRecordsSession(r) \/ PromptRecordsRound(r)
StopStep(r) == StopIsDuplicate(r) \/ StopIsBlocked(r) \/ StopIsAllowed(r)
FailureStep(r) ==
  \/ FailureHasEvidence(r) \/ FailureWasInterrupted(r) \/ FailureIsFinal(r)
  \/ FailureIsNotRetried(r) \/ FailureReadsRound(r) \/ FailureWaits(r) \/ FailureArmsRetry(r)
EndStep(r) == EndRecordsSession(r) \/ EndRecordsRound(r) \/ EndDispatches(r)
HookStep(r) == \/ HookIsStale(r) \/ MemoryTurnEnds(r)
               \/ PromptStep(r) \/ StopStep(r) \/ FailureStep(r) \/ EndStep(r)
LeavingStep(r) == LeavingRecordsSession(r) \/ LeavingStopsRound(r)
RetryStep(r) == \/ RetryFires(r) \/ RetryChecks(r) \/ RetryMarks(r) \/ RetrySubmits(r)
                \/ RetryFails(r) \/ RetryEndsSession(r) \/ RetryEndsRound(r)
SettleStep == SettleFires \/ SettleChecks \/ SettleGuards
AgentStep(r) == \/ AgentAccepts(r) \/ AgentStops(r) \/ AgentRoutes(r) \/ AgentStartsWork(r)
                \/ \E kind \in {"failure", "fatal"} : AgentFails(r, kind)
UserStep(r) == \/ UserPrompts(r) \/ UserInterrupts(r) \/ ProcessExits(r)
               \/ UserStopsSession(r) \/ UserStartsSession(r)

Next == \/ \E r \in Roles : \/ HookStep(r) \/ LeavingStep(r) \/ RetryStep(r)
                            \/ AgentStep(r) \/ UserStep(r)
        \/ SettleStep \/ Poll
        \/ \E kind \in WorkKinds : WorkEnds(kind)
        \/ Crash \/ Recover
Spec == Init /\ [][Next]_vars

\* The backend goes on with what it has begun, and its timers fire.
Fairness == /\ \A r \in Roles : WF_vars(HookStep(r)) /\ WF_vars(LeavingStep(r))
                                 /\ WF_vars(RetryStep(r))
            /\ WF_vars(SettleStep)
FairSpec == Spec /\ Fairness

(***************************************************************************)
(* Properties                                                              *)
(***************************************************************************)
Retries == [step : {"none", "check", "mark", "submit", "fail", "session", "round"},
            arm : [attempt : 0..MaxAttempts, hook : 0..MaxSessions], id : 0..MaxSessions]
Timers == [seq : Nat, ended : Nat, guard : BOOLEAN]
MaybeRole == Roles \cup {NoRole}
Reasons == {"none", "manual-interrupt", "terminal-exit", "runtime-recovery"}
\* The types of the state; the Round file is one this code writes.
TypeOK ==
  /\ agent \in [Roles -> {"off", "ready", "working", "stopping"}]
  /\ input \in [Roles -> BOOLEAN] /\ work \subseteq WorkKinds /\ routes \subseteq Roles \X Roles
  /\ session \in [Roles -> [id : Ids, activity : {"idle", "running"}]]
  /\ hooks \in [Roles -> Seq([kind : {"prompt", "stop", "failure", "fatal"}, id : Ids])]
  /\ handler \in [Roles -> [step : {"begin", "round", "session", "dispatch", "wait", "arm"},
                            guard : BOOLEAN, scan : BOOLEAN, attempt : 0..MaxAttempts]]
  /\ blocks \in [Roles -> 0..MaxBlocks]
  /\ round \in [seq : Nat, phase : {"none", "turn", "settling", "stopped"}, role : MaybeRole,
                ended : Nat, reason : Reasons]
  /\ recovery \in [role : MaybeRole, status : {"none", "waiting", "retrying", "failed"},
                   attempt : 0..MaxAttempts]
  /\ settleTimer \in Timers /\ settle \in [timer : Timers, step : {"none", "fired", "guard"}]
  /\ retryTimer \in [Roles -> [attempt : 0..MaxAttempts, hook : 0..MaxSessions]]
  /\ retry \in [Roles -> Retries]
  /\ leaving \in [Roles -> [step : {"none", "session", "round"}, why : Reasons,
                            id : 0..MaxSessions]]
  /\ up \in BOOLEAN /\ events \in 0..MaxEvents

RetryPending(r) == retryTimer[r] # NoArm \/ retry[r] # NoRetry
Resting(r) == agent[r] = "ready" /\ ~input[r] /\ hooks[r] = <<>> /\ leaving[r] = NotLeaving
\* A role recorded in a turn whose Claude rests, with no hook of it under way,
\* is waiting for a retry that will still be made.
NobodyIsStranded ==
  \A r \in Roles : up /\ Resting(r) /\ ~Idle(r) => RetryPending(r)

Busy == \E r \in Roles : agent[r] = "working" \/ (agent[r] = "ready" /\ input[r])
ClosedByUser == TurnActive(round) /\ Idle(round.role)
\* When every terminal has fallen quiet the Round does not run for ever: it
\* stops, unless the user closed the session whose turn it was.
QuietRoundStops ==
  []<>(~up \/ Busy \/ round.phase \in {"none", "stopped"} \/ ClosedByUser)

\* A Round settles only when no role is recorded in a turn, whoever decides it.
SettlesOnlyAtRest ==
  [][round.phase = "settling" /\ round'.phase = "stopped" /\ round'.reason = "none"
       => ActiveRoles = {}]_round
=============================================================================
