--------------------------- MODULE RoundFlowProofs ---------------------------
(***************************************************************************)
(* Proofs about RoundFlow, for any roles, sessions, blocks, retries and    *)
(* events: no role is stranded in a turn nobody will end, when nothing     *)
(* overtakes what a moment ago set off (~Hasty) and the turns of one role  *)
(* only may fail.  Tended(r) says what the process, the hooks, the handler *)
(* and the retry of a role know of each other; an action disturbs it for   *)
(* the role that acts and leaves it alone for the others (Elsewhere).      *)
(***************************************************************************)
EXTENDS RoundFlow, TLAPS

(* At most one role has turns that fail: a task keeps one recovery.        *)
OneFragile == \A a, b \in Fragile : a = b

Life      == {"off", "ready", "working", "stopping"}
Steps     == {"begin", "round", "session", "dispatch", "wait", "arm"}
SessionT  == [id : Ids, activity : {"idle", "running"}]
HookT     == [kind : {"prompt", "stop", "failure", "fatal"}, id : Ids]
HandlerT  == [step : Steps, guard : BOOLEAN, scan : BOOLEAN, attempt : 0..MaxAttempts]
RecoveryT == [role : MaybeRole, status : {"none", "waiting", "retrying", "failed"},
              attempt : 0..MaxAttempts]
ArmT      == [attempt : 0..MaxAttempts, hook : 0..MaxSessions]
LeavingT  == [step : {"none", "session", "round"}, why : Reasons, id : 0..MaxSessions]

Typed ==
  /\ agent \in [Roles -> Life] /\ input \in [Roles -> BOOLEAN]
  /\ session \in [Roles -> SessionT]
  /\ hooks \in [Roles -> Seq(HookT)] /\ handler \in [Roles -> HandlerT]
  /\ recovery \in RecoveryT
  /\ retryTimer \in [Roles -> ArmT] /\ retry \in [Roles -> Retries]
  /\ leaving \in [Roles -> LeavingT] /\ up \in BOOLEAN

-----------------------------------------------------------------------------
(* The invariant of a role.                                                *)
Ends == {"failure", "fatal"}
(* The last hook under way ends the turn of the session by a failure.      *)
LastEnds(r) == /\ Len(hooks[r]) # 0
               /\ hooks[r][Len(hooks[r])].kind \in Ends
               /\ hooks[r][Len(hooks[r])].id = session[r].id
(* The only hook under way has already ended the turn in the record.       *)
Spent(r) == /\ Len(hooks[r]) = 1 /\ hooks[r][1].kind # "prompt"
            /\ handler[r].step \in {"round", "dispatch"}
(* A retry will be made.                                                   *)
Owed(r) ==
  \/ retryTimer[r] # NoArm /\ recovery = Recovering(r, "waiting", retryTimer[r].attempt)
  \/ retry[r].step = "check" /\ recovery = Recovering(r, "waiting", retry[r].arm.attempt)
  \/ retry[r].step \in {"mark", "submit"}

(* A role that rests although it is recorded in a turn.                    *)
ReadyIsTended(r) ==
  agent[r] = "ready" /\ ~Idle(r) /\ leaving[r].step # "session" /\ ~input[r] =>
    \/ LastEnds(r) /\ ~Spent(r)
    \/ Len(hooks[r]) = 0 /\ Owed(r)
(* A role whose Stop hook is about to be answered.                         *)
StoppingIsRecorded(r) == agent[r] = "stopping" /\ Spent(r) /\ ~Idle(r) => input[r]
(* A failure about to arm its retry.                                       *)
ArmIsOwed(r) ==
  handler[r].step = "arm" /\ Len(hooks[r]) = 1 /\ agent[r] = "ready" /\ ~input[r] =>
    recovery = Recovering(r, "waiting", handler[r].attempt) \/ retry[r].step = "submit"
(* The handler works on a hook of the session that is registered.          *)
HandlerFits(r) ==
  handler[r].step # "begin" =>
    /\ Len(hooks[r]) # 0 /\ hooks[r][1].id = session[r].id
    /\ handler[r].step \in {"wait", "arm"} => hooks[r][1].kind = "failure"
    /\ handler[r].step \in {"session", "dispatch"} => hooks[r][1].kind # "prompt"
RetryFits(r) ==
  /\ retry[r].step # "none" \/ retryTimer[r] # NoArm => r \in Fragile
  /\ retry[r].step \in {"mark", "submit"} => retry[r].id = session[r].id
  /\ retry[r].step \in {"fail", "session", "round"} => agent[r] = "off"
(* At most two hooks of a role are under way, a prompt one of them.        *)
HooksFit(r) ==
  /\ Len(hooks[r]) <= 2
  /\ \A i \in 1..Len(hooks[r]) : /\ hooks[r][i].id <= session[r].id
                                 /\ hooks[r][i].kind \in Ends => r \in Fragile
  /\ Len(hooks[r]) = 2 => /\ hooks[r][1].id <= hooks[r][2].id
                          /\ hooks[r][1].kind = "prompt" \/ hooks[r][2].kind = "prompt"
(* What the process is about and what its last hook says.                  *)
AgentFits(r) ==
  /\ agent[r] = "working" => Len(hooks[r]) = 0 \/ hooks[r][Len(hooks[r])].kind = "prompt"
  /\ agent[r] = "stopping" => /\ Len(hooks[r]) # 0
                              /\ hooks[r][Len(hooks[r])].kind = "stop"
                              /\ hooks[r][Len(hooks[r])].id = session[r].id
  /\ agent[r] = "ready" => \A i \in 1..Len(hooks[r]) :
       hooks[r][i].kind = "prompt" /\ hooks[r][i].id = session[r].id => LastEnds(r)
  /\ ~up => agent[r] = "off"
LeavingFits(r) ==
  /\ leaving[r].step = "session" => leaving[r].id = session[r].id
  /\ leaving[r].why = "terminal-exit" => agent[r] = "off"

Tended(r) == /\ ReadyIsTended(r) /\ StoppingIsRecorded(r) /\ ArmIsOwed(r)
             /\ HandlerFits(r) /\ RetryFits(r) /\ HooksFit(r) /\ AgentFits(r) /\ LeavingFits(r)
RInv == Typed /\ \A r \in Roles : Tended(r)

-----------------------------------------------------------------------------
(* Values.                                                                 *)
LEMMA Values ==
  /\ Begin \in HandlerT /\ Begin.step = "begin"
  /\ NoArm \in ArmT /\ NoArm.attempt = 0 /\ NoArm.hook = 0
  /\ NoRetry \in Retries /\ NoRetry.step = "none"
  /\ NotLeaving \in LeavingT /\ NotLeaving.step = "none" /\ NotLeaving.why = "none"
  /\ NoRecovery \in RecoveryT
  /\ MaxAttempts \in Nat /\ MaxSessions \in Nat /\ 1 \in Ids
  /\ \A i \in Ids : i \in 0..MaxSessions /\ i >= 1
<1>. USE LimitsAssumption
<1>1. MaxAttempts \in Nat /\ MaxSessions \in Nat /\ 1 \in Ids
  BY DEF Ids
<1>2. \A i \in Ids : i \in 0..MaxSessions /\ i >= 1
  BY DEF Ids
<1>3. Begin \in HandlerT /\ Begin.step = "begin"
  BY DEF Begin, HandlerT, Steps
<1>4. NoArm \in ArmT /\ NoArm.attempt = 0 /\ NoArm.hook = 0
  BY DEF NoArm, ArmT
<1>5. NoRetry \in Retries /\ NoRetry.step = "none"
  BY <1>4 DEF NoRetry, Retries, ArmT
<1>6. NotLeaving \in LeavingT /\ NotLeaving.step = "none" /\ NotLeaving.why = "none"
  BY DEF NotLeaving, LeavingT, Reasons
<1>7. NoRecovery \in RecoveryT
  BY DEF NoRecovery, RecoveryT, MaybeRole
<1>. QED
  BY <1>1, <1>2, <1>3, <1>4, <1>5, <1>6, <1>7

(* Hooks behind a lock: the first, the rest, and one more.                 *)
LEMMA HooksAre ==
  ASSUME NEW h \in Seq(HookT)
  PROVE  /\ Len(h) \in Nat /\ (h = <<>> <=> Len(h) = 0)
         /\ \A i \in 1..Len(h) : h[i] \in HookT
         /\ h # <<>> => Head(h) = h[1]
OBVIOUS

LEMMA RestOfHooks ==
  ASSUME NEW h \in Seq(HookT), h # <<>>
  PROVE  /\ Tail(h) \in Seq(HookT) /\ Len(Tail(h)) = Len(h) - 1
         /\ \A i \in 1..(Len(h) - 1) : Tail(h)[i] = h[i + 1]
OBVIOUS

LEMMA OneMoreHook ==
  ASSUME NEW h \in Seq(HookT), NEW x \in HookT
  PROVE  /\ Append(h, x) \in Seq(HookT) /\ Len(Append(h, x)) = Len(h) + 1
         /\ \A i \in 1..Len(h) : Append(h, x)[i] = h[i]
         /\ Append(h, x)[Len(h) + 1] = x
OBVIOUS

-----------------------------------------------------------------------------
(* What the operators of the model do to one role and leave to the others. *)
LEMMA SetsActivity ==
  ASSUME Typed, NEW r \in Roles, NEW a \in {"idle", "running"}, SetActivity(r, a)
  PROVE  /\ session' \in [Roles -> SessionT]
         /\ session'[r].id = session[r].id /\ session'[r].activity = a
         /\ \A q \in Roles \ {r} : session'[q] = session[q]
BY DEF Typed, SetActivity, SessionT

LEMMA Queues ==
  ASSUME Typed, NEW r \in Roles, NEW kind \in {"prompt", "stop", "failure", "fatal"},
         Enqueue(r, kind)
  PROVE  /\ hooks' \in [Roles -> Seq(HookT)]
         /\ Len(hooks'[r]) = Len(hooks[r]) + 1
         /\ \A i \in 1..Len(hooks[r]) : hooks'[r][i] = hooks[r][i]
         /\ hooks'[r][Len(hooks[r]) + 1].kind = kind
         /\ hooks'[r][Len(hooks[r]) + 1].id = session[r].id
         /\ \A q \in Roles \ {r} : hooks'[q] = hooks[q]
<1>. DEFINE x == [kind |-> kind, id |-> session[r].id]
            h == Append(hooks[r], x)
<1>1. x \in HookT /\ x.kind = kind /\ x.id = session[r].id
  BY DEF Typed, SessionT, HookT
<1>2. hooks' = [hooks EXCEPT ![r] = h]
  BY Zenon DEF Enqueue
<1>. HIDE DEF x
<1>3. hooks[r] \in Seq(HookT) /\ hooks \in [Roles -> Seq(HookT)]
  BY DEF Typed
<1>4. /\ h \in Seq(HookT) /\ Len(h) = Len(hooks[r]) + 1
      /\ \A i \in 1..Len(hooks[r]) : h[i] = hooks[r][i]
      /\ h[Len(hooks[r]) + 1] = x
  BY <1>1, <1>3, OneMoreHook
<1>. HIDE DEF h
<1>5. hooks'[r] = h /\ hooks' \in [Roles -> Seq(HookT)]
      /\ \A q \in Roles \ {r} : hooks'[q] = hooks[q]
  BY <1>2, <1>3, <1>4
<1>. QED
  BY <1>1, <1>4, <1>5

LEMMA Answers ==
  ASSUME Typed, NEW r \in Roles, Answered(r), hooks[r] # <<>>
  PROVE  /\ hooks' \in [Roles -> Seq(HookT)] /\ handler' \in [Roles -> HandlerT]
         /\ handler'[r].step = "begin"
         /\ Len(hooks[r]) >= 1 /\ Len(hooks'[r]) = Len(hooks[r]) - 1
         /\ \A i \in 1..(Len(hooks[r]) - 1) : hooks'[r][i] = hooks[r][i + 1]
         /\ \A q \in Roles \ {r} : hooks'[q] = hooks[q] /\ handler'[q] = handler[q]
<1>. DEFINE h == Tail(hooks[r])
<1>1. hooks' = [hooks EXCEPT ![r] = h] /\ handler' = [handler EXCEPT ![r] = Begin]
  BY Zenon DEF Answered
<1>2. /\ hooks[r] \in Seq(HookT) /\ hooks \in [Roles -> Seq(HookT)]
      /\ handler \in [Roles -> HandlerT]
  BY DEF Typed
<1>3. /\ h \in Seq(HookT) /\ Len(h) = Len(hooks[r]) - 1 /\ Len(hooks[r]) >= 1
      /\ \A i \in 1..(Len(hooks[r]) - 1) : h[i] = hooks[r][i + 1]
  BY <1>2, RestOfHooks, HooksAre
<1>. HIDE DEF h
<1>. QED
  BY <1>1, <1>2, <1>3, Values

LEMMA GoesTo ==
  ASSUME Typed, NEW r \in Roles, NEW step \in Steps, GoTo(r, step)
  PROVE  /\ handler' \in [Roles -> HandlerT] /\ handler'[r].step = step
         /\ handler'[r].attempt = handler[r].attempt
         /\ \A q \in Roles \ {r} : handler'[q] = handler[q]
         /\ hooks' = hooks
BY DEF Typed, GoTo, HandlerT

LEMMA TurnEnds ==
  ASSUME Typed, NEW r \in Roles, NEW guard \in BOOLEAN, NEW scan \in BOOLEAN,
         EndsTurn(r, guard, scan)
  PROVE  /\ handler' \in [Roles -> HandlerT] /\ handler'[r].step = "session"
         /\ \A q \in Roles \ {r} : handler'[q] = handler[q]
         /\ hooks' = hooks
<1>. DEFINE x == [Begin EXCEPT !.step = "session", !.guard = guard, !.scan = scan]
<1>1. x \in HandlerT /\ x.step = "session"
  BY Values DEF HandlerT, Steps
<1>2. handler' = [handler EXCEPT ![r] = x] /\ hooks' = hooks
  BY Zenon DEF EndsTurn
<1>. HIDE DEF x
<1>. QED
  BY <1>1, <1>2 DEF Typed

LEMMA Releases ==
  ASSUME Typed, NEW r \in Roles, NEW next \in Life, Released(r, next)
  PROVE  /\ agent' \in [Roles -> Life]
         /\ agent'[r] = IF agent[r] = "stopping" /\ Current(r) /\ Head(hooks[r]).kind = "stop"
                        THEN next ELSE agent[r]
         /\ \A q \in Roles \ {r} : agent'[q] = agent[q]
<1>. DEFINE x == IF agent[r] = "stopping" /\ Current(r) /\ Head(hooks[r]).kind = "stop"
                 THEN next ELSE agent[r]
<1>1. agent' = [agent EXCEPT ![r] = x]
  BY Zenon DEF Released
<1>2. x \in Life
  BY DEF Typed
<1>. HIDE DEF x
<1>3. agent'[r] = x /\ agent' \in [Roles -> Life] /\ \A q \in Roles \ {r} : agent'[q] = agent[q]
  BY <1>1, <1>2 DEF Typed
<1>. QED
  BY <1>3 DEF x

LEMMA RetrySteps ==
  ASSUME Typed, NEW r \in Roles,
         NEW step \in {"none", "check", "mark", "submit", "fail", "session", "round"},
         Step(r, step)
  PROVE  /\ retry' \in [Roles -> Retries] /\ retry'[r].step = step
         /\ retry'[r].id = retry[r].id /\ retry'[r].arm = retry[r].arm
         /\ \A q \in Roles \ {r} : retry'[q] = retry[q]
BY DEF Typed, Step, Retries

LEMMA Disarms ==
  ASSUME Typed, NEW r \in Roles, Disarm(r)
  PROVE  /\ retryTimer' \in [Roles -> ArmT] /\ retryTimer'[r] = NoArm
         /\ \A q \in Roles \ {r} : retryTimer'[q] = retryTimer[q]
BY Values DEF Typed, Disarm

LEMMA Recovers ==
  ASSUME NEW r \in Roles, NEW status \in {"none", "waiting", "retrying", "failed"},
         NEW n \in 0..MaxAttempts
  PROVE  Recovering(r, status, n) \in RecoveryT /\ Recovering(r, status, n).role = r
BY DEF Recovering, RecoveryT, MaybeRole

-----------------------------------------------------------------------------
(* The roles a step is not about.                                          *)
Same(q) ==
  /\ agent'[q] = agent[q] /\ input'[q] = input[q] /\ session'[q] = session[q]
  /\ hooks'[q] = hooks[q] /\ handler'[q] = handler[q] /\ leaving'[q] = leaving[q]
  /\ retryTimer'[q] = retryTimer[q] /\ retry'[q] = retry[q]
(* The recovery of another role may change, and that of a role whose turns *)
(* do not fail is of no account.                                           *)
RecoveryKept(q) == recovery' = recovery \/ recovery.role # q \/ q \notin Fragile
Elsewhere(r) == \A q \in Roles \ {r} : Same(q) /\ RecoveryKept(q)
Everywhere == \A q \in Roles : Same(q) /\ RecoveryKept(q)

LEMMA OwedIsFragile ==
  ASSUME NEW q \in Roles, RetryFits(q), Owed(q)
  PROVE  q \in Fragile
BY Values DEF RetryFits, Owed

LEMMA OwedOrSubmitted ==
  ASSUME NEW q \in Roles, Same(q), RecoveryKept(q), RetryFits(q), Owed(q)
  PROVE  Owed(q)'
<1>1. CASE recovery' = recovery
  BY <1>1 DEF Owed, Same
<1>2. CASE recovery.role # q
  BY <1>2 DEF Owed, Same, Recovering
<1>3. CASE q \notin Fragile
  BY <1>3, OwedIsFragile
<1>. QED
  BY <1>1, <1>2, <1>3 DEF RecoveryKept

LEMMA ArmStaysOwed ==
  ASSUME Typed, NEW q \in Roles, Same(q), RecoveryKept(q), HandlerFits(q), HooksFit(q),
         ArmIsOwed(q)
  PROVE  ArmIsOwed(q)'
<1>1. CASE recovery' = recovery
  BY <1>1 DEF ArmIsOwed, Same
<1>2. CASE recovery.role # q
  BY <1>2 DEF ArmIsOwed, Same, Recovering
<1>3. CASE q \notin Fragile
  <2>1. hooks[q] \in Seq(HookT)
    BY DEF Typed
  <2>2. handler[q].step # "arm"
    BY <1>3, <2>1, HooksAre DEF HandlerFits, HooksFit, Ends
  <2>. QED
    BY <2>2 DEF ArmIsOwed, Same
<1>. QED
  BY <1>1, <1>2, <1>3 DEF RecoveryKept

LEMMA Bystander ==
  ASSUME Typed, NEW q \in Roles, Same(q), RecoveryKept(q), Tended(q), up'
  PROVE  Tended(q)'
<1>. USE DEF Same
<1>1. LastEnds(q)' = LastEnds(q) /\ Spent(q)' = Spent(q)
  BY DEF LastEnds, Spent
<1>2. ReadyIsTended(q)'
  BY <1>1, OwedOrSubmitted DEF Tended, ReadyIsTended, Idle
<1>3. ArmIsOwed(q)'
  BY ArmStaysOwed DEF Tended
<1>4. StoppingIsRecorded(q)'
  BY <1>1 DEF Tended, StoppingIsRecorded, Idle
<1>5. HandlerFits(q)' /\ RetryFits(q)' /\ LeavingFits(q)'
  BY DEF Tended, HandlerFits, RetryFits, LeavingFits
<1>6. HooksFit(q)' /\ AgentFits(q)'
  BY <1>1 DEF Tended, HooksFit, AgentFits
<1>. QED
  BY <1>2, <1>3, <1>4, <1>5, <1>6 DEF Tended

(* A prompt reaches the terminal of a role; a retry that sent it is over.  *)
LEMMA PromptedRole ==
  ASSUME Typed, NEW q \in Roles, Tended(q), up',
         agent'[q] = agent[q], input'[q] = TRUE, session'[q].id = session[q].id,
         hooks'[q] = hooks[q], handler'[q] = handler[q], leaving'[q] = leaving[q],
         retryTimer'[q] = retryTimer[q], retry'[q] = retry[q] \/ retry'[q] = NoRetry
  PROVE  Tended(q)'
<1>1. LastEnds(q)' = LastEnds(q)
  BY DEF LastEnds
<1>2. ReadyIsTended(q)' /\ ArmIsOwed(q)' /\ StoppingIsRecorded(q)'
  BY DEF ReadyIsTended, ArmIsOwed, StoppingIsRecorded
<1>3. RetryFits(q)'
  BY Values DEF Tended, RetryFits
<1>4. HandlerFits(q)' /\ LeavingFits(q)'
  BY DEF Tended, HandlerFits, LeavingFits
<1>5. HooksFit(q)' /\ AgentFits(q)'
  BY <1>1 DEF Tended, HooksFit, AgentFits
<1>. QED
  BY <1>2, <1>3, <1>4, <1>5 DEF Tended

(* A step that is about one role only.                                     *)
LEMMA OneRole ==
  ASSUME RInv, NEW r \in Roles, Elsewhere(r), Typed', up', Tended(r)'
  PROVE  RInv'
<1>1. \A q \in Roles \ {r} : Tended(q)'
  BY Bystander DEF RInv, Elsewhere
<1>. QED
  BY <1>1 DEF RInv

LEMMA NoRoleConcerned ==
  ASSUME RInv, Everywhere, Typed', up'
  PROVE  RInv'
BY Bystander DEF RInv, Everywhere

-----------------------------------------------------------------------------
(* The terminal of a role.                                                 *)
LEMMA UserPromptsStep ==
  ASSUME RInv, NEW r \in Roles, UserPrompts(r)
  PROVE  RInv'
<1>1. /\ input' \in [Roles -> BOOLEAN] /\ input'[r] = TRUE
      /\ \A q \in Roles \ {r} : input'[q] = input[q]
  BY DEF UserPrompts, Type, RInv, Typed
<1>2. /\ agent' = agent /\ session' = session /\ hooks' = hooks /\ handler' = handler
      /\ leaving' = leaving /\ retryTimer' = retryTimer /\ retry' = retry
      /\ recovery' = recovery /\ up' = up /\ up
  BY DEF UserPrompts, Outside, hookVars, roundVars, retryVars
<1>3. Elsewhere(r) /\ Typed'
  BY <1>1, <1>2 DEF Elsewhere, Same, RecoveryKept, RInv, Typed
<1>4. Tended(r)'
  BY <1>1, <1>2, PromptedRole DEF RInv
<1>. QED
  BY <1>2, <1>3, <1>4, OneRole

(* One more hook is posted, and the process goes on.                       *)
LEMMA QueuedHook ==
  ASSUME Typed, Typed', NEW r \in Roles, Tended(r), Len(hooks[r]) < 2, up',
         NEW kind \in {"prompt", "stop", "failure", "fatal"},
         Enqueue(r, kind), session'[r] = session[r], handler'[r] = handler[r],
         leaving'[r] = leaving[r], leaving[r].why = "terminal-exit" => agent'[r] = "off",
         retryTimer'[r] = retryTimer[r], retry'[r] = retry[r], recovery' = recovery,
         agent[r] # "off",
         \/ kind = "prompt" /\ agent'[r] = "working"
         \/ kind = "stop" /\ agent[r] = "working" /\ agent'[r] = "stopping"
         \/ /\ kind \in Ends /\ r \in Fragile /\ agent[r] = "working" /\ agent'[r] = "ready"
  PROVE  Tended(r)'
<1>. DEFINE n == Len(hooks[r])
<1>1. /\ Len(hooks'[r]) = n + 1 /\ n \in Nat
      /\ \A i \in 1..n : hooks'[r][i] = hooks[r][i]
      /\ hooks'[r][n + 1].kind = kind /\ hooks'[r][n + 1].id = session[r].id
  <2>1. hooks[r] \in Seq(HookT)
    BY DEF Typed
  <2>2. n \in Nat
    BY <2>1, HooksAre
  <2>. QED
    BY <2>2, Queues
<1>2. session[r].id \in Nat /\ \A i \in 1..n : hooks[r][i].id \in Nat
  <2>1. hooks[r] \in Seq(HookT) /\ session[r] \in SessionT
    BY DEF Typed
  <2>2. \A i \in 1..n : hooks[r][i] \in HookT
    BY <2>1, HooksAre
  <2>3. \A i \in Ids : i \in Nat
    BY Values
  <2>. QED
    BY <2>1, <2>2, <2>3 DEF SessionT, HookT
<1>. HIDE DEF n
<1>3. n = Len(hooks[r])
  BY DEF n
<1>4. n = 0 => handler[r].step = "begin"
  BY <1>3 DEF Tended, HandlerFits
<1>5. HandlerFits(r)'
  BY <1>1, <1>3, <1>4 DEF Tended, HandlerFits
<1>6. HooksFit(r)'
  <2>1. \A i \in 1..(n + 1) : i = n + 1 \/ i \in 1..n
    BY <1>1
  <2>2. kind = "prompt" \/ (n = 1 => hooks[r][1].kind = "prompt")
    BY <1>3 DEF Tended, AgentFits
  <2>3. kind \in Ends => r \in Fragile
    BY DEF Ends
  <2>4. Len(hooks'[r]) <= 2
    BY <1>1, <1>3
  <2>5. \A i \in 1..Len(hooks'[r]) : /\ hooks'[r][i].id <= session'[r].id
                                     /\ hooks'[r][i].kind \in Ends => r \in Fragile
    <3>1. ASSUME NEW i \in 1..Len(hooks'[r])
          PROVE  hooks'[r][i].id <= session'[r].id /\ (hooks'[r][i].kind \in Ends => r \in Fragile)
      <4>1. CASE i = n + 1
        BY <1>1, <1>2, <2>3, <4>1
      <4>2. CASE i \in 1..n
        BY <1>1, <1>3, <4>2 DEF Tended, HooksFit
      <4>. QED
        BY <1>1, <2>1, <3>1, <4>1, <4>2
    <3>. QED
      BY <3>1
  <2>6. n + 1 = 2 => /\ hooks'[r][1].id <= hooks'[r][2].id
                     /\ hooks'[r][1].kind = "prompt" \/ hooks'[r][2].kind = "prompt"
    <3>. SUFFICES ASSUME n = 1
                  PROVE  /\ hooks'[r][1].id <= hooks'[r][2].id
                         /\ hooks'[r][1].kind = "prompt" \/ hooks'[r][2].kind = "prompt"
      BY <1>1
    <3>1. hooks'[r][1] = hooks[r][1] /\ hooks[r][1].id <= session[r].id
      BY <1>1, <1>3 DEF Tended, HooksFit
    <3>. QED
      BY <1>1, <2>2, <3>1
  <2>. QED
    BY <1>1, <2>4, <2>5, <2>6 DEF HooksFit
<1>7. agent'[r] = "ready" => LastEnds(r)'
  BY <1>1 DEF LastEnds, Ends
<1>8. AgentFits(r)'
  BY <1>1, <1>7 DEF AgentFits
<1>9. LeavingFits(r)' /\ RetryFits(r)'
  BY DEF Tended, LeavingFits, RetryFits
<1>10. agent'[r] = "ready" \/ agent'[r] = "stopping" => ~Spent(r)' /\ (n = 0 => handler'[r].step # "arm")
  BY <1>1, <1>3, <1>4 DEF Spent, Tended, AgentFits
<1>11. ReadyIsTended(r)' /\ StoppingIsRecorded(r)'
  BY <1>7, <1>10 DEF ReadyIsTended, StoppingIsRecorded
<1>12. ArmIsOwed(r)'
  BY <1>1, <1>10 DEF ArmIsOwed
<1>. QED
  BY <1>5, <1>6, <1>8, <1>9, <1>11, <1>12 DEF Tended

LEMMA AgentAcceptsStep ==
  ASSUME RInv, NEW r \in Roles, AgentAccepts(r)
  PROVE  RInv'
<1>1. /\ agent' \in [Roles -> Life] /\ agent'[r] = "working" /\ agent[r] = "ready"
      /\ input' \in [Roles -> BOOLEAN]
      /\ \A q \in Roles \ {r} : agent'[q] = agent[q] /\ input'[q] = input[q]
  BY DEF AgentAccepts, RInv, Typed, Life
<1>2. /\ session' = session /\ handler' = handler
      /\ leaving' = leaving /\ retryTimer' = retryTimer /\ retry' = retry
      /\ recovery' = recovery /\ up' = up /\ up /\ Len(hooks[r]) < 2
  BY DEF AgentAccepts, roundVars, retryVars
<1>3. Enqueue(r, "prompt")
  BY DEF AgentAccepts
<1>4. Elsewhere(r) /\ Typed'
  BY <1>1, <1>2, <1>3, Queues DEF Elsewhere, Same, RecoveryKept, RInv, Typed
<1>5. Tended(r)'
  BY <1>1, <1>2, <1>3, <1>4, QueuedHook DEF RInv, Tended, LeavingFits
<1>. QED
  BY <1>2, <1>4, <1>5, OneRole

LEMMA AgentStopsStep ==
  ASSUME RInv, NEW r \in Roles, AgentStops(r)
  PROVE  RInv'
<1>1. /\ agent' \in [Roles -> Life] /\ agent'[r] = "stopping" /\ agent[r] = "working"
      /\ \A q \in Roles \ {r} : agent'[q] = agent[q]
  BY DEF AgentStops, RInv, Typed, Life
<1>2. /\ session' = session /\ handler' = handler /\ input' = input
      /\ leaving' = leaving /\ retryTimer' = retryTimer /\ retry' = retry
      /\ recovery' = recovery /\ up' = up /\ up /\ Len(hooks[r]) < 2
  BY DEF AgentStops, roundVars, retryVars
<1>3. Enqueue(r, "stop")
  BY DEF AgentStops
<1>4. Elsewhere(r) /\ Typed'
  BY <1>1, <1>2, <1>3, Queues DEF Elsewhere, Same, RecoveryKept, RInv, Typed
<1>5. Tended(r)'
  BY <1>1, <1>2, <1>3, <1>4, QueuedHook DEF RInv, Tended, LeavingFits
<1>. QED
  BY <1>2, <1>4, <1>5, OneRole

LEMMA AgentFailsStep ==
  ASSUME RInv, NEW r \in Roles, NEW kind \in Ends, AgentFails(r, kind)
  PROVE  RInv'
<1>1. /\ agent' \in [Roles -> Life] /\ agent'[r] = "ready" /\ agent[r] = "working"
      /\ \A q \in Roles \ {r} : agent'[q] = agent[q]
  BY DEF AgentFails, RInv, Typed, Life
<1>2. /\ session' = session /\ handler' = handler /\ input' = input
      /\ leaving' = leaving /\ retryTimer' = retryTimer /\ retry' = retry
      /\ recovery' = recovery /\ up' = up /\ up /\ Len(hooks[r]) < 2 /\ r \in Fragile
  BY DEF AgentFails, Outside, roundVars, retryVars
<1>3. Enqueue(r, kind) /\ kind \in {"prompt", "stop", "failure", "fatal"}
  BY DEF AgentFails, Ends
<1>4. Elsewhere(r) /\ Typed'
  BY <1>1, <1>2, <1>3, Queues DEF Elsewhere, Same, RecoveryKept, RInv, Typed
<1>5. Tended(r)'
  BY <1>1, <1>2, <1>3, <1>4, QueuedHook DEF RInv, Tended, LeavingFits
<1>. QED
  BY <1>2, <1>4, <1>5, OneRole

LEMMA AgentWorksStep ==
  ASSUME RInv, NEW r \in Roles, AgentRoutes(r) \/ AgentStartsWork(r)
  PROVE  RInv'
<1>1. /\ agent' = agent /\ input' = input /\ session' = session /\ hooks' = hooks
      /\ handler' = handler /\ leaving' = leaving /\ retryTimer' = retryTimer
      /\ retry' = retry /\ recovery' = recovery /\ up' = up /\ up
  BY DEF AgentRoutes, AgentStartsWork, Outside, hookVars, roundVars, retryVars
<1>2. Everywhere /\ Typed'
  BY <1>1 DEF Everywhere, Same, RecoveryKept, RInv, Typed
<1>. QED
  BY <1>1, <1>2, NoRoleConcerned

LEMMA WorkEndsStep ==
  ASSUME RInv, NEW kind \in WorkKinds, WorkEnds(kind)
  PROVE  RInv'
<1>1. /\ agent' = agent /\ input' = input /\ session' = session /\ hooks' = hooks
      /\ handler' = handler /\ leaving' = leaving /\ retryTimer' = retryTimer
      /\ retry' = retry /\ recovery' = recovery /\ up' = up /\ up
  BY DEF WorkEnds, hookVars, roundVars, retryVars
<1>2. Everywhere /\ Typed'
  BY <1>1 DEF Everywhere, Same, RecoveryKept, RInv, Typed
<1>. QED
  BY <1>1, <1>2, NoRoleConcerned

(* A process that is gone leaves nothing to tend.                          *)
LEMMA RoleIsOff ==
  ASSUME Typed, NEW r \in Roles, Tended(r),
         agent'[r] = "off", hooks'[r] = hooks[r], handler'[r] = handler[r],
         session'[r].id = session[r].id,
         retryTimer'[r] = retryTimer[r] \/ retryTimer'[r] = NoArm,
         retry'[r].step = "none" \/ r \in Fragile,
         retry'[r].step \notin {"mark", "submit"} \/ retry'[r].id = session[r].id,
         leaving'[r].step = "session" => leaving'[r].id = session[r].id
  PROVE  Tended(r)'
<1>1. ReadyIsTended(r)' /\ StoppingIsRecorded(r)' /\ ArmIsOwed(r)'
  BY DEF ReadyIsTended, StoppingIsRecorded, ArmIsOwed
<1>2. HandlerFits(r)' /\ HooksFit(r)' /\ AgentFits(r)' /\ LeavingFits(r)'
  BY DEF Tended, HandlerFits, HooksFit, AgentFits, LeavingFits
<1>3. RetryFits(r)'
  BY DEF Tended, RetryFits
<1>. QED
  BY <1>1, <1>2, <1>3 DEF Tended

(* What an interrupt or an exit leaves to be recorded.                     *)
LEMMA Leaves ==
  ASSUME Typed, NEW r \in Roles, NEW w \in {"manual-interrupt", "terminal-exit"},
         leaving' = [leaving EXCEPT ![r] = [step |-> "session", why |-> w,
                                            id |-> session[r].id]]
  PROVE  /\ leaving' \in [Roles -> LeavingT] /\ leaving'[r].step = "session"
         /\ leaving'[r].why = w /\ leaving'[r].id = session[r].id
         /\ \A q \in Roles \ {r} : leaving'[q] = leaving[q]
<1>. DEFINE x == [step |-> "session", why |-> w, id |-> session[r].id]
<1>1. session[r].id \in 0..MaxSessions
  BY Values DEF Typed, SessionT
<1>2. x \in LeavingT /\ x.step = "session" /\ x.why = w /\ x.id = session[r].id
  BY <1>1 DEF LeavingT, Reasons
<1>3. leaving' = [leaving EXCEPT ![r] = x]
  BY Zenon
<1>. HIDE DEF x
<1>. QED
  BY <1>2, <1>3 DEF Typed

LEMMA ProcessExitsStep ==
  ASSUME RInv, NEW r \in Roles, ProcessExits(r)
  PROVE  RInv'
<1>1. /\ agent' \in [Roles -> Life] /\ agent'[r] = "off" /\ input' \in [Roles -> BOOLEAN]
      /\ \A q \in Roles \ {r} : agent'[q] = agent[q] /\ input'[q] = input[q]
  BY DEF ProcessExits, RInv, Typed, Life
<1>2. /\ session' = session /\ handler' = handler /\ hooks' = hooks
      /\ retryTimer' = retryTimer /\ retry' = retry /\ recovery' = recovery /\ up' = up /\ up
  BY DEF ProcessExits, Outside, hookVars, roundVars, retryVars
<1>3. leaving' = [leaving EXCEPT ![r] = [step |-> "session", why |-> "terminal-exit",
                                         id |-> session[r].id]]
  BY Zenon DEF ProcessExits
<1>4. /\ leaving' \in [Roles -> LeavingT] /\ leaving'[r].id = session[r].id
      /\ \A q \in Roles \ {r} : leaving'[q] = leaving[q]
  BY <1>3, Leaves DEF RInv
<1>5. Elsewhere(r) /\ Typed'
  BY <1>1, <1>2, <1>4 DEF Elsewhere, Same, RecoveryKept, RInv, Typed
<1>6. Tended(r) /\ RetryFits(r)
  BY DEF RInv, Tended
<1>7. Tended(r)'
  BY <1>1, <1>2, <1>4, <1>6, RoleIsOff DEF RInv, RetryFits
<1>. QED
  BY <1>2, <1>5, <1>7, OneRole

(* No prompt is under way when the user interrupts.                        *)
LEMMA UserInterruptsStep ==
  ASSUME ~Hasty, RInv, NEW r \in Roles, UserInterrupts(r)
  PROVE  RInv'
<1>1. /\ agent' \in [Roles -> Life] /\ agent'[r] = "ready" /\ agent[r] # "off"
      /\ \A q \in Roles \ {r} : agent'[q] = agent[q]
  BY DEF UserInterrupts, RInv, Typed, Life
<1>2. /\ session' = session /\ handler' = handler /\ hooks' = hooks /\ input' = input
      /\ retryTimer' = retryTimer /\ retry' = retry /\ recovery' = recovery /\ up' = up /\ up
  BY DEF UserInterrupts, Outside, hookVars, roundVars, retryVars
<1>3. leaving' = [leaving EXCEPT ![r] = [step |-> "session", why |-> "manual-interrupt",
                                         id |-> session[r].id]]
  BY Zenon DEF UserInterrupts
<1>4. /\ leaving' \in [Roles -> LeavingT] /\ leaving'[r].id = session[r].id
      /\ leaving'[r].step = "session" /\ leaving'[r].why = "manual-interrupt"
      /\ \A q \in Roles \ {r} : leaving'[q] = leaving[q]
  BY <1>3, Leaves DEF RInv
<1>5. Elsewhere(r) /\ Typed'
  BY <1>1, <1>2, <1>4 DEF Elsewhere, Same, RecoveryKept, RInv, Typed
<1>6. hooks[r] \in Seq(HookT) /\ agent[r] \in Life /\ Tended(r)
  BY DEF RInv, Typed
<1>7. \A i \in 1..Len(hooks[r]) : hooks[r][i].kind # "prompt"
  <2>1. ~PromptHooked(r)
    BY DEF UserInterrupts, Unhurried
  <2>2. DOMAIN hooks[r] = 1..Len(hooks[r])
    BY <1>6
  <2>. QED
    BY <2>1, <2>2 DEF PromptHooked
<1>8. ReadyIsTended(r)' /\ StoppingIsRecorded(r)' /\ LeavingFits(r)' /\ AgentFits(r)'
  BY <1>1, <1>2, <1>4, <1>7 DEF ReadyIsTended, StoppingIsRecorded, LeavingFits, AgentFits
<1>9. HandlerFits(r)' /\ HooksFit(r)' /\ RetryFits(r)'
  BY <1>1, <1>2, <1>6 DEF Tended, HandlerFits, HooksFit, RetryFits
<1>10. ASSUME handler[r].step = "arm", Len(hooks[r]) = 1
       PROVE  agent[r] = "ready"
  <2>1. hooks[r][1].kind = "failure"
    BY <1>6, <1>10 DEF Tended, HandlerFits
  <2>. QED
    BY <1>1, <1>6, <1>10, <2>1 DEF Tended, AgentFits, Life
<1>11. ArmIsOwed(r)'
  BY <1>2, <1>6, <1>10 DEF Tended, ArmIsOwed
<1>12. Tended(r)'
  BY <1>8, <1>9, <1>11 DEF Tended
<1>. QED
  BY <1>2, <1>5, <1>12, OneRole

LEMMA UserStopsSessionStep ==
  ASSUME RInv, NEW r \in Roles, UserStopsSession(r)
  PROVE  RInv'
<1>1. /\ agent' \in [Roles -> Life] /\ agent'[r] = "off" /\ input' \in [Roles -> BOOLEAN]
      /\ \A q \in Roles \ {r} : agent'[q] = agent[q] /\ input'[q] = input[q]
  BY DEF UserStopsSession, RInv, Typed, Life
<1>2. /\ leaving' = leaving /\ handler' = handler /\ hooks' = hooks
      /\ retryTimer' = retryTimer /\ retry' = retry /\ recovery' = recovery /\ up' = up /\ up
  BY DEF UserStopsSession, Outside, hookVars, roundVars, retryVars
<1>3. /\ session' \in [Roles -> SessionT] /\ session'[r].id = session[r].id
      /\ \A q \in Roles \ {r} : session'[q] = session[q]
  BY SetsActivity DEF UserStopsSession, RInv
<1>4. Elsewhere(r) /\ Typed'
  BY <1>1, <1>2, <1>3 DEF Elsewhere, Same, RecoveryKept, RInv, Typed
<1>5. Tended(r) /\ RetryFits(r) /\ LeavingFits(r)
  BY DEF RInv, Tended
<1>6. Tended(r)'
  BY <1>1, <1>2, <1>3, <1>5, RoleIsOff DEF RInv, RetryFits, LeavingFits
<1>. QED
  BY <1>2, <1>4, <1>6, OneRole

(* Nothing of the old session is under way when a new one takes its place. *)
LEMMA UserStartsSessionStep ==
  ASSUME ~Hasty, RInv, NEW r \in Roles, UserStartsSession(r)
  PROVE  RInv'
<1>1. /\ agent' \in [Roles -> Life] /\ agent'[r] = "ready" /\ input' \in [Roles -> BOOLEAN]
      /\ \A q \in Roles \ {r} : agent'[q] = agent[q] /\ input'[q] = input[q]
  BY DEF UserStartsSession, RInv, Typed, Life
<1>2. /\ leaving' = leaving /\ handler' = handler /\ hooks' = hooks
      /\ retryTimer' = retryTimer /\ retry' = retry /\ recovery' = recovery /\ up' = up /\ up
  BY DEF UserStartsSession, Outside, hookVars, roundVars, retryVars
<1>3. handler[r].step = "begin" /\ leaving[r] = NotLeaving /\ retry[r] = NoRetry
  BY Values DEF UserStartsSession, Undisturbed
<1>4. session[r] \in SessionT /\ session[r].id \in Ids /\ session[r].id + 1 \in Ids
  <2>1. session[r] \in SessionT /\ session[r].id \in Ids
    BY DEF RInv, Typed, SessionT
  <2>2. session[r].id < MaxSessions
    BY DEF UserStartsSession
  <2>. QED
    BY <2>1, <2>2, Values DEF Ids
<1>5. /\ session' \in [Roles -> SessionT] /\ session'[r].id = session[r].id + 1
      /\ session'[r].activity = "idle"
      /\ \A q \in Roles \ {r} : session'[q] = session[q]
  <2>. DEFINE x == [id |-> session[r].id + 1, activity |-> "idle"]
  <2>1. session' = [session EXCEPT ![r] = x]
    BY Zenon DEF UserStartsSession
  <2>2. x \in SessionT /\ x.id = session[r].id + 1 /\ x.activity = "idle"
    BY <1>4 DEF SessionT
  <2>. HIDE DEF x
  <2>. QED
    BY <2>1, <2>2 DEF RInv, Typed
<1>6. Elsewhere(r) /\ Typed'
  BY <1>1, <1>2, <1>5 DEF Elsewhere, Same, RecoveryKept, RInv, Typed
<1>7. Tended(r) /\ hooks[r] \in Seq(HookT)
  BY DEF RInv, Typed
<1>8. \A i \in 1..Len(hooks[r]) : hooks[r][i].id \in Nat /\ hooks[r][i].id <= session[r].id
  <2>1. \A i \in 1..Len(hooks[r]) : hooks[r][i] \in HookT
    BY <1>7, HooksAre
  <2>. QED
    BY <1>7, <2>1, Values DEF Tended, HooksFit, HookT, Ids
<1>9. session[r].id \in Nat
  BY <1>4, Values DEF Ids
<1>10. ReadyIsTended(r)' /\ StoppingIsRecorded(r)' /\ ArmIsOwed(r)' /\ HandlerFits(r)'
  BY <1>1, <1>2, <1>3, <1>5 DEF ReadyIsTended, Idle, StoppingIsRecorded, ArmIsOwed, HandlerFits
<1>11. RetryFits(r)' /\ LeavingFits(r)'
  BY <1>2, <1>3, <1>7, Values DEF Tended, RetryFits, LeavingFits
<1>12. HooksFit(r)'
  BY <1>2, <1>5, <1>7, <1>8, <1>9 DEF Tended, HooksFit
<1>13. AgentFits(r)'
  BY <1>1, <1>2, <1>5, <1>8, <1>9 DEF AgentFits
<1>14. Tended(r)'
  BY <1>10, <1>11, <1>12, <1>13 DEF Tended
<1>. QED
  BY <1>2, <1>6, <1>14, OneRole

-----------------------------------------------------------------------------
(* The listeners.                                                          *)
LEMMA LeavingRecordsSessionStep ==
  ASSUME RInv, NEW r \in Roles, LeavingRecordsSession(r)
  PROVE  RInv'
<1>1. /\ agent' = agent /\ input' = input /\ hooks' = hooks /\ handler' = handler
      /\ retryTimer' = retryTimer /\ retry' = retry /\ recovery' = recovery /\ up' = up /\ up
      /\ leaving[r].step = "session"
  BY DEF LeavingRecordsSession, agentVars, hookVars, roundVars, retryVars
<1>2. Tended(r) /\ leaving[r].id = session[r].id
  BY <1>1 DEF RInv, Tended, LeavingFits
<1>3. SetActivity(r, "idle")
  BY <1>2 DEF LeavingRecordsSession, SetActivity
<1>4. /\ session' \in [Roles -> SessionT] /\ session'[r].id = session[r].id
      /\ session'[r].activity = "idle"
      /\ \A q \in Roles \ {r} : session'[q] = session[q]
  BY <1>3, SetsActivity DEF RInv
<1>5. /\ leaving' \in [Roles -> LeavingT] /\ leaving'[r].step # "session"
      /\ leaving'[r].why \in {leaving[r].why, "none"}
      /\ \A q \in Roles \ {r} : leaving'[q] = leaving[q]
  <2>1. \/ leaving' = [leaving EXCEPT ![r] = [leaving[r] EXCEPT !.step = "round"]]
        \/ leaving' = [leaving EXCEPT ![r] = NotLeaving]
    BY Zenon DEF LeavingRecordsSession
  <2>2. [leaving[r] EXCEPT !.step = "round"] \in LeavingT
        /\ [leaving[r] EXCEPT !.step = "round"].step = "round"
        /\ [leaving[r] EXCEPT !.step = "round"].why = leaving[r].why
    BY DEF RInv, Typed, LeavingT
  <2>3. leaving \in [Roles -> LeavingT]
    BY DEF RInv, Typed
  <2>. DEFINE x == [leaving[r] EXCEPT !.step = "round"]
  <2>4. /\ leaving' = [leaving EXCEPT ![r] = x] \/ leaving' = [leaving EXCEPT ![r] = NotLeaving]
        /\ x \in LeavingT /\ x.step = "round" /\ x.why = leaving[r].why
    BY <2>1, <2>2
  <2>. HIDE DEF x
  <2>. QED
    BY <2>3, <2>4, Values
<1>6. Elsewhere(r) /\ Typed'
  BY <1>1, <1>4, <1>5 DEF Elsewhere, Same, RecoveryKept, RInv, Typed
<1>7. LastEnds(r)' = LastEnds(r) /\ Spent(r)' = Spent(r)
  BY <1>1, <1>4 DEF LastEnds, Spent
<1>8. ReadyIsTended(r)' /\ StoppingIsRecorded(r)'
  BY <1>4 DEF ReadyIsTended, StoppingIsRecorded, Idle
<1>9. ArmIsOwed(r)' /\ HandlerFits(r)' /\ RetryFits(r)' /\ HooksFit(r)'
  BY <1>1, <1>2, <1>4 DEF Tended, ArmIsOwed, HandlerFits, RetryFits, HooksFit
<1>10. AgentFits(r)' /\ LeavingFits(r)'
  BY <1>1, <1>2, <1>4, <1>5, <1>7 DEF Tended, AgentFits, LeavingFits
<1>11. Tended(r)'
  BY <1>8, <1>9, <1>10 DEF Tended
<1>. QED
  BY <1>1, <1>6, <1>11, OneRole

(* Only the exit of the role whose turn was retried clears its recovery,   *)
(* and its process is gone.                                                *)
LEMMA LeavingStopsRoundStep ==
  ASSUME RInv, NEW r \in Roles, LeavingStopsRound(r)
  PROVE  RInv'
<1>1. /\ agent' = agent /\ input' = input /\ hooks' = hooks /\ handler' = handler
      /\ session' = session /\ retryTimer' = retryTimer /\ retry' = retry /\ up' = up /\ up
      /\ leaving[r].step = "round"
  BY DEF LeavingStopsRound, agentVars, hookVars, roundVars, retryVars
<1>2. /\ leaving' \in [Roles -> LeavingT]
      /\ leaving'[r].step = "none" /\ leaving'[r].why = "none"
      /\ \A q \in Roles \ {r} : leaving'[q] = leaving[q]
  <2>1. leaving' = [leaving EXCEPT ![r] = NotLeaving]
    BY Zenon DEF LeavingStopsRound
  <2>. QED
    BY <2>1, Values DEF RInv, Typed
<1>3. \/ recovery' = recovery
      \/ recovery' = NoRecovery /\ recovery.role = r /\ leaving[r].why = "terminal-exit"
  BY Zenon DEF LeavingStopsRound
<1>4. Elsewhere(r) /\ Typed'
  BY <1>1, <1>2, <1>3, Values DEF Elsewhere, Same, RecoveryKept, RInv, Typed
<1>5. Tended(r) /\ RetryFits(r) /\ LeavingFits(r)
  BY DEF RInv, Tended
<1>6. ASSUME agent[r] = "off" PROVE Tended(r)'
  BY <1>1, <1>2, <1>5, <1>6, RoleIsOff, Values DEF RInv, RetryFits
<1>7. ASSUME agent[r] # "off" PROVE Tended(r)'
  <2>1. recovery' = recovery
    BY <1>3, <1>5, <1>7 DEF LeavingFits
  <2>2. LastEnds(r)' = LastEnds(r) /\ Spent(r)' = Spent(r) /\ Owed(r)' = Owed(r)
    BY <1>1, <2>1 DEF LastEnds, Spent, Owed
  <2>3. ReadyIsTended(r)' /\ StoppingIsRecorded(r)'
    BY <1>1, <1>5, <2>2 DEF Tended, ReadyIsTended, StoppingIsRecorded, Idle
  <2>4. ArmIsOwed(r)' /\ HandlerFits(r)' /\ RetryFits(r)' /\ HooksFit(r)'
    BY <1>1, <1>5, <2>1 DEF Tended, ArmIsOwed, HandlerFits, RetryFits, HooksFit
  <2>5. AgentFits(r)' /\ LeavingFits(r)'
    BY <1>1, <1>2, <1>5, <2>2, Values DEF Tended, AgentFits, LeavingFits
  <2>. QED
    BY <2>3, <2>4, <2>5 DEF Tended
<1>. QED
  BY <1>1, <1>4, <1>6, <1>7, OneRole

-----------------------------------------------------------------------------
(* The hook handlers.                                                      *)
ReleasedAs(r, next) ==
  agent'[r] = IF agent[r] = "stopping" /\ hooks[r][1].id = session[r].id
                 /\ hooks[r][1].kind = "stop" THEN next ELSE agent[r]

(* An answered hook leaves the hooks behind it in order.                   *)
LEMMA AnsweredFits ==
  ASSUME Typed, NEW r \in Roles, Tended(r), Answered(r), hooks[r] # <<>>, up',
         session'[r].id = session[r].id, leaving'[r] = leaving[r], retry'[r] = retry[r],
         retryTimer'[r] = retryTimer[r] \/ retryTimer'[r] = NoArm \/ r \in Fragile,
         NEW next \in {"ready", "working"}, ReleasedAs(r, next)
  PROVE  /\ StoppingIsRecorded(r)' /\ ArmIsOwed(r)' /\ HandlerFits(r)' /\ RetryFits(r)'
         /\ HooksFit(r)' /\ AgentFits(r)' /\ LeavingFits(r)' /\ ~Spent(r)'
         /\ \/ Len(hooks[r]) = 1 /\ Len(hooks'[r]) = 0
            \/ /\ Len(hooks[r]) = 2 /\ Len(hooks'[r]) = 1 /\ hooks'[r][1] = hooks[r][2]
               /\ hooks[r][1].kind # "prompt" => agent'[r] = agent[r]
<1>1. /\ Len(hooks[r]) >= 1 /\ Len(hooks'[r]) = Len(hooks[r]) - 1
      /\ \A i \in 1..(Len(hooks[r]) - 1) : hooks'[r][i] = hooks[r][i + 1]
      /\ handler'[r].step = "begin"
  BY Answers
<1>2. Len(hooks[r]) \in Nat /\ agent[r] \in Life
  <2>1. hooks[r] \in Seq(HookT) /\ agent[r] \in Life
    BY DEF Typed
  <2>. QED
    BY <2>1, HooksAre
<1>3. \/ Len(hooks[r]) = 1 /\ Len(hooks'[r]) = 0
      \/ Len(hooks[r]) = 2 /\ Len(hooks'[r]) = 1 /\ hooks'[r][1] = hooks[r][2]
  <2>1. Len(hooks[r]) <= 2
    BY DEF Tended, HooksFit
  <2>2. Len(hooks[r]) = 1 \/ Len(hooks[r]) = 2
    <3>1. \A n \in Nat : n >= 1 /\ n <= 2 => n = 1 \/ n = 2
      OBVIOUS
    <3>. QED
      BY <1>1, <1>2, <2>1, <3>1
  <2>3. Len(hooks[r]) = 2 => 1 \in 1..(Len(hooks[r]) - 1)
    OBVIOUS
  <2>. QED
    BY <1>1, <2>2, <2>3
<1>4. StoppingIsRecorded(r)' /\ ArmIsOwed(r)' /\ HandlerFits(r)' /\ ~Spent(r)'
  BY <1>1 DEF StoppingIsRecorded, ArmIsOwed, HandlerFits, Spent
<1>5. agent[r] = "off" => agent'[r] = "off"
  BY DEF ReleasedAs
<1>6. RetryFits(r)' /\ LeavingFits(r)'
  BY <1>5 DEF Tended, RetryFits, LeavingFits
<1>7. HooksFit(r)'
  BY <1>3 DEF Tended, HooksFit
<1>8. hooks[r][1].kind = "stop" /\ agent[r] = "stopping" => Len(hooks[r]) = 1
  BY <1>3 DEF Tended, HooksFit, AgentFits
<1>9. Len(hooks[r]) = 2 => agent'[r] = agent[r]
  BY <1>8 DEF ReleasedAs
<1>10. AgentFits(r)'
  <2>1. CASE Len(hooks[r]) = 1
    <3>1. agent'[r] # "stopping"
      BY <2>1 DEF ReleasedAs, Tended, AgentFits
    <3>. QED
      BY <1>3, <2>1, <3>1 DEF AgentFits
  <2>2. CASE Len(hooks[r]) = 2
    <3>1. agent'[r] = agent[r] /\ Len(hooks'[r]) = 1 /\ hooks'[r][1] = hooks[r][2]
      BY <1>3, <1>9, <2>2
    <3>2. agent[r] = "ready" => ~(hooks[r][2].kind = "prompt" /\ hooks[r][2].id = session[r].id)
      BY <2>2 DEF Tended, AgentFits, LastEnds, Ends
    <3>. QED
      BY <2>2, <3>1, <3>2 DEF Tended, AgentFits
  <2>. QED
    BY <1>3, <2>1, <2>2
<1>. QED
  BY <1>3, <1>4, <1>6, <1>7, <1>9, <1>10

(* And the role is tended, unless the hook was the one that ends its turn. *)
LEMMA HookIsAnswered ==
  ASSUME Typed, NEW r \in Roles, Tended(r), Answered(r), hooks[r] # <<>>, up',
         session'[r].id = session[r].id, leaving'[r] = leaving[r], retry'[r] = retry[r],
         retryTimer'[r] = retryTimer[r] \/ retryTimer'[r] = NoArm \/ r \in Fragile,
         NEW next \in {"ready", "working"}, ReleasedAs(r, next),
         \/ Idle(r)' \/ input'[r]
         \/ /\ session'[r].activity = session[r].activity /\ input'[r] = input[r]
            /\ agent'[r] \in {agent[r], "working"}
            /\ ~(Len(hooks[r]) = 1 /\ LastEnds(r) /\ ~Spent(r))
  PROVE  Tended(r)'
<1>1. /\ StoppingIsRecorded(r)' /\ ArmIsOwed(r)' /\ HandlerFits(r)' /\ RetryFits(r)'
      /\ HooksFit(r)' /\ AgentFits(r)' /\ LeavingFits(r)' /\ ~Spent(r)'
      /\ \/ Len(hooks[r]) = 1 /\ Len(hooks'[r]) = 0
         \/ Len(hooks[r]) = 2 /\ Len(hooks'[r]) = 1 /\ hooks'[r][1] = hooks[r][2]
  BY AnsweredFits
<1>2. Len(hooks[r]) = 2 /\ LastEnds(r) => LastEnds(r)'
  BY <1>1 DEF LastEnds
<1>3. ReadyIsTended(r)'
  BY <1>1, <1>2 DEF Tended, ReadyIsTended, Idle
<1>. QED
  BY <1>1, <1>3 DEF Tended

(* The handler goes on with the end of a turn.                             *)
LEMMA HandlerGoesOn ==
  ASSUME Typed, NEW r \in Roles, Tended(r), up',
         agent'[r] = agent[r], input'[r] = input[r], session'[r] = session[r],
         hooks'[r] = hooks[r], leaving'[r] = leaving[r], retry'[r] = retry[r],
         retryTimer'[r] = retryTimer[r] \/ retryTimer'[r] = NoArm,
         Len(hooks[r]) # 0, hooks[r][1].id = session[r].id, hooks[r][1].kind # "prompt",
         NEW s \in {"session", "wait", "arm"}, handler'[r].step = s,
         s # "session" => hooks[r][1].kind = "failure",
         s = "arm" => recovery' = Recovering(r, "waiting", handler'[r].attempt)
  PROVE  Tended(r)'
<1>1. ~Spent(r)' /\ LastEnds(r)' = LastEnds(r)
  BY DEF Spent, LastEnds
<1>2. ReadyIsTended(r)' /\ StoppingIsRecorded(r)' /\ ArmIsOwed(r)' /\ HandlerFits(r)'
  BY <1>1 DEF Tended, ReadyIsTended, Idle, StoppingIsRecorded, ArmIsOwed, HandlerFits
<1>3. RetryFits(r)' /\ HooksFit(r)' /\ LeavingFits(r)'
  BY DEF Tended, RetryFits, HooksFit, LeavingFits
<1>4. AgentFits(r)'
  BY <1>1 DEF Tended, AgentFits
<1>. QED
  BY <1>2, <1>3, <1>4 DEF Tended

(* What every step of a handler leaves alone.                              *)
LEMMA HandlerAt ==
  ASSUME Typed, NEW r \in Roles, NEW kind, NEW step, At(r, kind, step)
  PROVE  /\ up /\ hooks[r] # <<>> /\ Len(hooks[r]) # 0 /\ Head(hooks[r]) = hooks[r][1]
         /\ hooks[r][1].kind = kind /\ handler[r].step = step
         /\ hooks[r][1] \in HookT /\ Len(hooks[r]) >= 1
<1>1. hooks[r] \in Seq(HookT) /\ hooks[r] # <<>>
  BY DEF Typed, At
<1>2. /\ Len(hooks[r]) # 0 /\ Head(hooks[r]) = hooks[r][1] /\ Len(hooks[r]) >= 1
      /\ hooks[r][1] \in HookT
  BY <1>1, HooksAre
<1>. QED
  BY <1>1, <1>2 DEF At

LEMMA HookIsStaleStep ==
  ASSUME RInv, NEW r \in Roles, HookIsStale(r)
  PROVE  RInv'
<1>1. PICK kind \in {"prompt", "stop", "failure", "fatal"} : At(r, kind, "begin")
  BY DEF HookIsStale
<1>2. /\ up /\ hooks[r] # <<>> /\ Head(hooks[r]) = hooks[r][1] /\ Typed /\ Tended(r)
  BY <1>1, HandlerAt DEF RInv
<1>3. /\ agent' = agent /\ input' = input /\ session' = session
      /\ leaving' = leaving /\ retryTimer' = retryTimer /\ retry' = retry
      /\ recovery' = recovery /\ up' = up /\ Answered(r) /\ hooks[r][1].id # session[r].id
  BY <1>2 DEF HookIsStale, HookFrame, Current, roundVars, retryVars
<1>4. Elsewhere(r) /\ Typed'
  BY <1>2, <1>3, Answers DEF Elsewhere, Same, RecoveryKept, Typed
<1>5. ReleasedAs(r, "ready") /\ ~(Len(hooks[r]) = 1 /\ LastEnds(r))
  BY <1>3 DEF ReleasedAs, LastEnds
<1>6. Tended(r)'
  BY <1>2, <1>3, <1>5, HookIsAnswered
<1>. QED
  BY <1>2, <1>3, <1>4, <1>6, OneRole

LEMMA PromptRecordsSessionStep ==
  ASSUME RInv, NEW r \in Roles, PromptRecordsSession(r)
  PROVE  RInv'
<1>1. At(r, "prompt", "begin") /\ SetActivity(r, "running") /\ GoTo(r, "round") /\ Current(r)
  BY DEF PromptRecordsSession
<1>2. /\ up /\ Len(hooks[r]) # 0 /\ Head(hooks[r]) = hooks[r][1] /\ Typed /\ Tended(r)
      /\ hooks[r][1].kind = "prompt" /\ Len(hooks[r]) >= 1
  BY <1>1, HandlerAt DEF RInv
<1>3. /\ agent' = agent /\ input' = input /\ leaving' = leaving /\ retryTimer' = retryTimer
      /\ retry' = retry /\ recovery' = recovery /\ up' = up
  BY DEF PromptRecordsSession, HookFrame, roundVars, retryVars
<1>4. /\ session' \in [Roles -> SessionT] /\ session'[r].id = session[r].id
      /\ \A q \in Roles \ {r} : session'[q] = session[q]
  BY <1>1, <1>2, SetsActivity
<1>5. /\ handler' \in [Roles -> HandlerT] /\ handler'[r].step = "round" /\ hooks' = hooks
      /\ \A q \in Roles \ {r} : handler'[q] = handler[q]
  BY <1>1, <1>2, GoesTo DEF Steps
<1>6. Elsewhere(r) /\ Typed'
  BY <1>2, <1>3, <1>4, <1>5 DEF Elsewhere, Same, RecoveryKept, Typed
<1>7. hooks[r][1].id = session[r].id
  BY <1>1, <1>2 DEF Current
<1>8. LastEnds(r)' = LastEnds(r) /\ ~Spent(r)'
  BY <1>2, <1>4, <1>5 DEF LastEnds, Spent
<1>9. agent[r] = "ready" => LastEnds(r)
  <2>1. Len(hooks[r]) \in Nat /\ 1 \in 1..Len(hooks[r])
    <3>1. hooks[r] \in Seq(HookT)
      BY <1>2 DEF Typed
    <3>. QED
      BY <1>2, <3>1, HooksAre
  <2>. QED
    BY <1>2, <1>7, <2>1 DEF Tended, AgentFits
<1>10. ReadyIsTended(r)' /\ StoppingIsRecorded(r)' /\ ArmIsOwed(r)' /\ HandlerFits(r)'
  BY <1>2, <1>3, <1>4, <1>5, <1>7, <1>8, <1>9
  DEF ReadyIsTended, StoppingIsRecorded, ArmIsOwed, HandlerFits
<1>11. RetryFits(r)' /\ HooksFit(r)' /\ LeavingFits(r)'
  BY <1>2, <1>3, <1>4, <1>5 DEF Tended, RetryFits, HooksFit, LeavingFits
<1>12. AgentFits(r)'
  BY <1>2, <1>3, <1>4, <1>5, <1>8 DEF Tended, AgentFits
<1>13. Tended(r)'
  BY <1>10, <1>11, <1>12 DEF Tended
<1>. QED
  BY <1>2, <1>3, <1>6, <1>13, OneRole

LEMMA PromptRecordsRoundStep ==
  ASSUME RInv, NEW r \in Roles, PromptRecordsRound(r)
  PROVE  RInv'
<1>1. At(r, "prompt", "round") /\ Answered(r)
  BY DEF PromptRecordsRound
<1>2. /\ up /\ hooks[r] # <<>> /\ Head(hooks[r]) = hooks[r][1] /\ Typed /\ Tended(r)
      /\ hooks[r][1].kind = "prompt"
  BY <1>1, HandlerAt DEF RInv
<1>3. /\ agent' = agent /\ input' = input /\ session' = session
      /\ leaving' = leaving /\ retryTimer' = retryTimer /\ retry' = retry
      /\ recovery' = recovery /\ up' = up
  BY DEF PromptRecordsRound, HookFrame, retryVars
<1>4. Elsewhere(r) /\ Typed'
  BY <1>1, <1>2, <1>3, Answers DEF Elsewhere, Same, RecoveryKept, Typed
<1>5. ReleasedAs(r, "ready") /\ ~(Len(hooks[r]) = 1 /\ LastEnds(r))
  BY <1>2, <1>3 DEF ReleasedAs, LastEnds, Ends
<1>6. Tended(r)'
  BY <1>1, <1>2, <1>3, <1>5, HookIsAnswered
<1>. QED
  BY <1>2, <1>3, <1>4, <1>6, OneRole

(* A hook handler of the role that acts leaves the other roles alone.      *)
LEMMA EndOfTurnStep ==
  ASSUME RInv, NEW r \in Roles, NEW kind \in {"stop", "failure", "fatal"}, At(r, kind, "begin"),
         Current(r), NEW guard \in BOOLEAN, NEW scan \in BOOLEAN, EndsTurn(r, guard, scan),
         UNCHANGED <<agent, session, retry>>, HookFrame, recovery' \in RecoveryT,
         \A q \in Roles \ {r} : RecoveryKept(q),
         Disarm(r) \/ UNCHANGED retryTimer
  PROVE  RInv'
<1>1. /\ up /\ Len(hooks[r]) # 0 /\ Head(hooks[r]) = hooks[r][1] /\ Typed /\ Tended(r)
      /\ hooks[r][1].kind = kind
  BY HandlerAt DEF RInv
<1>2. /\ agent' = agent /\ input' = input /\ session' = session
      /\ leaving' = leaving /\ retry' = retry /\ up' = up /\ hooks[r][1].id = session[r].id
  BY <1>1 DEF HookFrame, Current
<1>3. /\ handler' \in [Roles -> HandlerT] /\ handler'[r].step = "session" /\ hooks' = hooks
      /\ \A q \in Roles \ {r} : handler'[q] = handler[q]
  BY <1>1, TurnEnds
<1>4. /\ retryTimer' \in [Roles -> ArmT]
      /\ retryTimer'[r] = retryTimer[r] \/ retryTimer'[r] = NoArm
      /\ \A q \in Roles \ {r} : retryTimer'[q] = retryTimer[q]
  BY <1>1, Disarms DEF Typed
<1>5. Elsewhere(r) /\ Typed'
  BY <1>1, <1>2, <1>3, <1>4 DEF Elsewhere, Same, Typed
<1>6. Tended(r)'
  BY <1>1, <1>2, <1>3, <1>4, HandlerGoesOn
<1>. QED
  BY <1>1, <1>2, <1>5, <1>6, OneRole

(* A role's recovery is its own to clear.                                  *)
LEMMA Clears ==
  ASSUME Typed, NEW r \in Roles, ClearRecovery(r)
  PROVE  recovery' \in RecoveryT /\ \A q \in Roles \ {r} : RecoveryKept(q)
BY Values DEF ClearRecovery, RecoveryKept, Typed

(* A role whose turns fail is the only one a recovery matters to.          *)
LEMMA FragileAlone ==
  ASSUME OneFragile, NEW r \in Roles, r \in Fragile
  PROVE  \A q \in Roles \ {r} : RecoveryKept(q)
BY DEF OneFragile, RecoveryKept

LEMMA FailureIsFragile ==
  ASSUME RInv, NEW r \in Roles, NEW kind \in Ends, NEW step, At(r, kind, step)
  PROVE  r \in Fragile
<1>1. hooks[r][1].kind \in Ends /\ Len(hooks[r]) >= 1 /\ Tended(r) /\ Typed
  BY HandlerAt DEF RInv
<1>2. 1 \in 1..Len(hooks[r])
  <2>1. hooks[r] \in Seq(HookT)
    BY <1>1 DEF Typed
  <2>. QED
    BY <1>1, <2>1, HooksAre
<1>. QED
  BY <1>1, <1>2 DEF Tended, HooksFit

LEMMA MemoryTurnEndsStep ==
  ASSUME RInv, NEW r \in Roles, MemoryTurnEnds(r)
  PROVE  RInv'
<1>1. PICK kind \in {"stop", "failure", "fatal"} : At(r, kind, "begin")
  BY DEF MemoryTurnEnds
<1>2. /\ UNCHANGED <<agent, session, retry>> /\ HookFrame /\ UNCHANGED retryTimer
      /\ recovery' = recovery /\ Current(r) /\ EndsTurn(r, FALSE, FALSE)
  BY DEF MemoryTurnEnds, roundVars, retryVars
<1>3. recovery' \in RecoveryT /\ \A q \in Roles \ {r} : RecoveryKept(q)
  BY <1>2 DEF RInv, Typed, RecoveryKept
<1>. QED
  BY <1>1, <1>2, <1>3, EndOfTurnStep

LEMMA StopIsAllowedStep ==
  ASSUME RInv, NEW r \in Roles, StopIsAllowed(r)
  PROVE  RInv'
<1>1. At(r, "stop", "begin") /\ Current(r) /\ ClearRecovery(r) /\ Disarm(r)
  BY DEF StopIsAllowed, ClearsRetry
<1>2. UNCHANGED <<agent, session, retry>> /\ HookFrame
  BY DEF StopIsAllowed
<1>3. PICK awaitingUser \in BOOLEAN :
        EndsTurn(r, ~awaitingUser, ~awaitingUser /\ r # Reviewer)
  BY DEF StopIsAllowed
<1>4. recovery' \in RecoveryT /\ \A q \in Roles \ {r} : RecoveryKept(q)
  BY <1>1, Clears DEF RInv
<1>. DEFINE guard == ~awaitingUser
            scan == ~awaitingUser /\ r # Reviewer
<1>5. guard \in BOOLEAN /\ scan \in BOOLEAN /\ EndsTurn(r, guard, scan)
  BY <1>3, Zenon
<1>. HIDE DEF guard, scan
<1>. QED
  BY <1>1, <1>2, <1>4, <1>5, EndOfTurnStep

LEMMA FailureHasEvidenceStep ==
  ASSUME RInv, NEW r \in Roles, FailureHasEvidence(r)
  PROVE  RInv'
<1>1. PICK kind \in {"failure", "fatal"} : At(r, kind, "begin") /\ Current(r)
  BY DEF FailureHasEvidence, Failure
<1>2. /\ UNCHANGED <<agent, session, retry>> /\ HookFrame
      /\ ClearRecovery(r) /\ Disarm(r)
  BY DEF FailureHasEvidence, ClearsRetry
<1>3. recovery' \in RecoveryT /\ \A q \in Roles \ {r} : RecoveryKept(q)
  BY <1>2, Clears DEF RInv
<1>. DEFINE scan == r # Reviewer
<1>4. TRUE \in BOOLEAN /\ scan \in BOOLEAN /\ EndsTurn(r, TRUE, scan)
  BY Zenon DEF FailureHasEvidence
<1>. HIDE DEF scan
<1>. QED
  BY <1>1, <1>2, <1>3, <1>4, EndOfTurnStep

LEMMA FailureEndsStep ==
  ASSUME RInv, NEW r \in Roles, FailureWasInterrupted(r) \/ FailureIsNotRetried(r)
  PROVE  RInv'
<1>1. PICK kind \in {"failure", "fatal"} : At(r, kind, "begin") /\ Current(r)
  BY DEF FailureWasInterrupted, FailureIsNotRetried, Failure
<1>2. /\ UNCHANGED <<agent, session, retry>> /\ HookFrame /\ UNCHANGED retryTimer
      /\ recovery' = recovery /\ EndsTurn(r, FALSE, FALSE)
  BY DEF FailureWasInterrupted, FailureIsNotRetried, roundVars, retryVars
<1>3. recovery' \in RecoveryT /\ \A q \in Roles \ {r} : RecoveryKept(q)
  BY <1>2 DEF RInv, Typed, RecoveryKept
<1>. QED
  BY <1>1, <1>2, <1>3, EndOfTurnStep

LEMMA FailureIsFinalStep ==
  ASSUME OneFragile, RInv, NEW r \in Roles, FailureIsFinal(r)
  PROVE  RInv'
<1>1. PICK kind \in {"failure", "fatal"} : At(r, kind, "begin") /\ Current(r)
  BY DEF FailureIsFinal, Failure
<1>2. /\ UNCHANGED <<agent, session, retry>> /\ HookFrame /\ Disarm(r)
      /\ EndsTurn(r, FALSE, FALSE)
  BY DEF FailureIsFinal
<1>3. \E n \in 0..MaxAttempts : recovery' = Recovering(r, "failed", n)
  <2>1. \/ recovery' = Recovering(r, "failed", 0)
        \/ recovery' = Recovering(r, "failed", MaxAttempts)
    BY Zenon DEF FailureIsFinal
  <2>. QED
    BY <2>1, Values
<1>4. recovery' \in RecoveryT
  BY <1>3, Recovers
<1>5. \A q \in Roles \ {r} : RecoveryKept(q)
  BY <1>1, FailureIsFragile, FragileAlone DEF Ends
<1>. QED
  BY <1>1, <1>2, <1>4, <1>5, EndOfTurnStep

LEMMA StopIsDuplicateStep ==
  ASSUME RInv, NEW r \in Roles, StopIsDuplicate(r)
  PROVE  RInv'
<1>1. At(r, "stop", "begin") /\ Answered(r) /\ Released(r, "ready") /\ Idle(r)
  BY DEF StopIsDuplicate
<1>2. /\ up /\ hooks[r] # <<>> /\ Head(hooks[r]) = hooks[r][1] /\ Typed /\ Tended(r)
  BY <1>1, HandlerAt DEF RInv
<1>3. /\ input' = input /\ session' = session
      /\ leaving' = leaving /\ retryTimer' = retryTimer /\ retry' = retry
      /\ recovery' = recovery /\ up' = up
  BY DEF StopIsDuplicate, HookFrame, roundVars, retryVars
<1>4. /\ agent' \in [Roles -> Life] /\ ReleasedAs(r, "ready")
      /\ \A q \in Roles \ {r} : agent'[q] = agent[q]
  BY <1>1, <1>2, Releases DEF ReleasedAs, Current, Life
<1>5. Elsewhere(r) /\ Typed'
  BY <1>1, <1>2, <1>3, <1>4, Answers DEF Elsewhere, Same, RecoveryKept, Typed
<1>6. Idle(r)'
  BY <1>1, <1>3 DEF Idle
<1>7. Tended(r)'
  BY <1>1, <1>2, <1>3, <1>4, <1>6, HookIsAnswered
<1>. QED
  BY <1>2, <1>3, <1>5, <1>7, OneRole

LEMMA StopIsBlockedStep ==
  ASSUME RInv, NEW r \in Roles, StopIsBlocked(r)
  PROVE  RInv'
<1>1. /\ At(r, "stop", "begin") /\ Answered(r) /\ Released(r, "working")
      /\ ClearRecovery(r) /\ Disarm(r)
  BY DEF StopIsBlocked, ClearsRetry
<1>2. /\ up /\ hooks[r] # <<>> /\ Head(hooks[r]) = hooks[r][1] /\ Typed /\ Tended(r)
      /\ hooks[r][1].kind = "stop"
  BY <1>1, HandlerAt DEF RInv
<1>3. /\ input' = input /\ session' = session
      /\ leaving' = leaving /\ retry' = retry /\ up' = up
  BY DEF StopIsBlocked, HookFrame
<1>4. /\ agent' \in [Roles -> Life] /\ ReleasedAs(r, "working")
      /\ \A q \in Roles \ {r} : agent'[q] = agent[q]
  BY <1>1, <1>2, Releases DEF ReleasedAs, Current, Life
<1>5. recovery' \in RecoveryT /\ \A q \in Roles \ {r} : RecoveryKept(q)
  BY <1>1, <1>2, Clears
<1>6. /\ retryTimer' \in [Roles -> ArmT] /\ retryTimer'[r] = NoArm
      /\ \A q \in Roles \ {r} : retryTimer'[q] = retryTimer[q]
  BY <1>1, <1>2, Disarms
<1>7. Elsewhere(r) /\ Typed'
  BY <1>1, <1>2, <1>3, <1>4, <1>5, <1>6, Answers DEF Elsewhere, Same, Typed
<1>8. ~(Len(hooks[r]) = 1 /\ LastEnds(r)) /\ agent'[r] \in {agent[r], "working"}
  BY <1>2, <1>4 DEF LastEnds, Ends, ReleasedAs
<1>9. Tended(r)'
  BY <1>1, <1>2, <1>3, <1>4, <1>6, <1>8, HookIsAnswered
<1>. QED
  BY <1>2, <1>3, <1>7, <1>9, OneRole

(* The failure of a turn that will be tried again.                         *)
LEMMA FailureReadsRoundStep ==
  ASSUME RInv, NEW r \in Roles, FailureReadsRound(r)
  PROVE  RInv'
<1>1. At(r, "failure", "begin") /\ Current(r)
  BY DEF FailureReadsRound, Failure
<1>2. /\ up /\ Len(hooks[r]) # 0 /\ Head(hooks[r]) = hooks[r][1] /\ Typed /\ Tended(r)
      /\ hooks[r][1].kind = "failure"
  BY <1>1, HandlerAt DEF RInv
<1>3. /\ agent' = agent /\ input' = input /\ session' = session /\ hooks' = hooks
      /\ leaving' = leaving /\ retryTimer' = retryTimer /\ retry' = retry
      /\ recovery' = recovery /\ up' = up
      /\ hooks[r][1].id = session[r].id
  BY <1>1, <1>2 DEF FailureReadsRound, HookFrame, retryVars, Current
<1>4. PreviousAttempt(r) + 1 \in 0..MaxAttempts
  <2>1. PreviousAttempt(r) \in 0..MaxAttempts
    BY <1>2, Values DEF PreviousAttempt, Typed, RecoveryT
  <2>2. PreviousAttempt(r) < MaxAttempts
    BY DEF FailureReadsRound
  <2>. QED
    BY <2>1, <2>2, Values
<1>5. /\ handler' \in [Roles -> HandlerT] /\ handler'[r].step = "wait"
      /\ \A q \in Roles \ {r} : handler'[q] = handler[q]
  <2>. DEFINE x == [Begin EXCEPT !.step = "wait", !.attempt = PreviousAttempt(r) + 1]
  <2>1. x \in HandlerT /\ x.step = "wait"
    BY <1>4, Values DEF HandlerT, Steps
  <2>2. handler' = [handler EXCEPT ![r] = x]
    BY Zenon DEF FailureReadsRound
  <2>. HIDE DEF x
  <2>. QED
    BY <1>2, <2>1, <2>2 DEF Typed
<1>6. Elsewhere(r) /\ Typed'
  BY <1>2, <1>3, <1>5 DEF Elsewhere, Same, RecoveryKept, Typed
<1>7. Tended(r)'
  BY <1>2, <1>3, <1>5, HandlerGoesOn
<1>. QED
  BY <1>2, <1>3, <1>6, <1>7, OneRole

LEMMA FailureWaitsStep ==
  ASSUME OneFragile, RInv, NEW r \in Roles, FailureWaits(r)
  PROVE  RInv'
<1>1. At(r, "failure", "wait") /\ GoTo(r, "arm")
  BY DEF FailureWaits
<1>2. /\ up /\ Len(hooks[r]) # 0 /\ Head(hooks[r]) = hooks[r][1] /\ Typed /\ Tended(r)
      /\ hooks[r][1].kind = "failure" /\ handler[r].step = "wait"
  BY <1>1, HandlerAt DEF RInv
<1>3. /\ agent' = agent /\ input' = input /\ session' = session
      /\ leaving' = leaving /\ retryTimer' = retryTimer /\ retry' = retry
      /\ recovery' = Recovering(r, "waiting", handler[r].attempt) /\ up' = up
      /\ hooks[r][1].id = session[r].id
  BY <1>1, <1>2 DEF FailureWaits, HookFrame, retryVars, Tended, HandlerFits
<1>4. /\ handler' \in [Roles -> HandlerT] /\ handler'[r].step = "arm" /\ hooks' = hooks
      /\ handler'[r].attempt = handler[r].attempt
      /\ \A q \in Roles \ {r} : handler'[q] = handler[q]
  BY <1>1, <1>2, GoesTo DEF Steps
<1>5. recovery' \in RecoveryT
  <2>1. handler[r].attempt \in 0..MaxAttempts
    BY <1>2 DEF Typed, HandlerT
  <2>. QED
    BY <1>3, <2>1, Recovers
<1>6. \A q \in Roles \ {r} : RecoveryKept(q)
  BY <1>1, FailureIsFragile, FragileAlone DEF Ends
<1>7. Elsewhere(r) /\ Typed'
  BY <1>2, <1>3, <1>4, <1>5, <1>6 DEF Elsewhere, Same, Typed
<1>8. Tended(r)'
  BY <1>2, <1>3, <1>4, HandlerGoesOn
<1>. QED
  BY <1>2, <1>3, <1>7, <1>8, OneRole

LEMMA FailureArmsRetryStep ==
  ASSUME RInv, NEW r \in Roles, FailureArmsRetry(r)
  PROVE  RInv'
<1>1. At(r, "failure", "arm") /\ SetActivity(r, "running") /\ Answered(r)
  BY DEF FailureArmsRetry
<1>2. /\ up /\ hooks[r] # <<>> /\ Head(hooks[r]) = hooks[r][1] /\ Typed /\ Tended(r)
      /\ hooks[r][1].kind = "failure" /\ handler[r].step = "arm" /\ hooks[r][1] \in HookT
  BY <1>1, HandlerAt DEF RInv
<1>3. /\ agent' = agent /\ input' = input
      /\ leaving' = leaving /\ retry' = retry /\ recovery' = recovery /\ up' = up
      /\ hooks[r][1].id = session[r].id
  BY <1>1, <1>2 DEF FailureArmsRetry, HookFrame, roundVars, Tended, HandlerFits
<1>4. /\ session' \in [Roles -> SessionT] /\ session'[r].id = session[r].id
      /\ \A q \in Roles \ {r} : session'[q] = session[q]
  BY <1>1, <1>2, SetsActivity
<1>5. /\ retryTimer' \in [Roles -> ArmT] /\ retryTimer'[r] # NoArm
      /\ retryTimer'[r].attempt = handler[r].attempt
      /\ \A q \in Roles \ {r} : retryTimer'[q] = retryTimer[q]
  <2>. DEFINE x == [attempt |-> handler[r].attempt, hook |-> Head(hooks[r]).id]
  <2>1. handler[r].attempt \in 0..MaxAttempts /\ Head(hooks[r]).id \in Ids
    BY <1>2 DEF Typed, HandlerT, HookT
  <2>2. x \in ArmT /\ x.attempt = handler[r].attempt /\ x.hook # 0
    BY <2>1, Values DEF ArmT
  <2>3. retryTimer' = [retryTimer EXCEPT ![r] = x]
    BY Zenon DEF FailureArmsRetry
  <2>. HIDE DEF x
  <2>. QED
    BY <1>2, <2>2, <2>3, Values DEF Typed
<1>6. r \in Fragile
  BY <1>1, FailureIsFragile DEF Ends
<1>7. Elsewhere(r) /\ Typed'
  BY <1>1, <1>2, <1>3, <1>4, <1>5, Answers DEF Elsewhere, Same, RecoveryKept, Typed
<1>8. ReleasedAs(r, "ready")
  BY <1>2, <1>3 DEF ReleasedAs
<1>9. /\ StoppingIsRecorded(r)' /\ ArmIsOwed(r)' /\ HandlerFits(r)' /\ RetryFits(r)'
      /\ HooksFit(r)' /\ AgentFits(r)' /\ LeavingFits(r)'
      /\ \/ Len(hooks[r]) = 1 /\ Len(hooks'[r]) = 0
         \/ Len(hooks[r]) = 2 /\ Len(hooks'[r]) = 1 /\ hooks'[r][1] = hooks[r][2]
  BY <1>1, <1>2, <1>3, <1>4, <1>6, <1>8, AnsweredFits
<1>10. ASSUME agent[r] = "ready", Len(hooks[r]) = 2
       PROVE  FALSE
  \* The second hook is a prompt of the same session, which is not the last word.
  <2>1. /\ hooks[r][2].kind = "prompt" /\ hooks[r][1].id <= hooks[r][2].id
        /\ hooks[r][2].id <= session[r].id
    BY <1>2, <1>10 DEF Tended, HooksFit
  <2>2. hooks[r][2].id \in Nat /\ session[r].id \in Nat
    <3>1. hooks[r] \in Seq(HookT) /\ session[r] \in SessionT
      BY <1>2 DEF Typed
    <3>2. hooks[r][2] \in HookT
      BY <1>10, <3>1, HooksAre
    <3>. QED
      BY <3>1, <3>2, Values DEF HookT, SessionT, Ids
  <2>3. hooks[r][2].id = session[r].id
    BY <1>3, <2>1, <2>2
  <2>. QED
    BY <1>2, <1>10, <2>1, <2>3 DEF Tended, AgentFits, LastEnds, Ends
<1>11. ReadyIsTended(r)'
  <2>. SUFFICES ASSUME agent[r] = "ready", ~input[r]
                PROVE  Len(hooks'[r]) = 0 /\ Owed(r)'
    BY <1>3 DEF ReadyIsTended
  <2>1. Len(hooks[r]) = 1 /\ Len(hooks'[r]) = 0
    BY <1>9, <1>10
  <2>2. recovery = Recovering(r, "waiting", handler[r].attempt) \/ retry[r].step = "submit"
    BY <1>2, <2>1 DEF Tended, ArmIsOwed
  <2>. QED
    BY <1>3, <1>5, <2>1, <2>2 DEF Owed
<1>12. Tended(r)'
  BY <1>9, <1>11 DEF Tended
<1>. QED
  BY <1>2, <1>3, <1>7, <1>12, OneRole

-----------------------------------------------------------------------------
(* recordTurnEnd.                                                          *)
LEMMA EndRecordsSessionStep ==
  ASSUME RInv, NEW r \in Roles, EndRecordsSession(r)
  PROVE  RInv'
<1>1. handler[r].step = "session" /\ up /\ Typed /\ Tended(r)
  BY DEF EndRecordsSession, RInv
<1>2. /\ Len(hooks[r]) # 0 /\ hooks[r][1].id = session[r].id /\ hooks[r][1].kind # "prompt"
  BY <1>1 DEF Tended, HandlerFits
<1>3. Head(hooks[r]) = hooks[r][1]
  <2>1. hooks[r] \in Seq(HookT)
    BY <1>1 DEF Typed
  <2>. QED
    BY <1>2, <2>1, HooksAre
<1>4. SetActivity(r, "idle") /\ GoTo(r, "round") /\ agent' = agent
  BY <1>2, <1>3 DEF EndRecordsSession, Current
<1>5. /\ input' = input /\ leaving' = leaving /\ retryTimer' = retryTimer /\ retry' = retry
      /\ recovery' = recovery /\ up' = up
  BY DEF EndRecordsSession, HookFrame, roundVars, retryVars
<1>6. /\ session' \in [Roles -> SessionT] /\ session'[r].id = session[r].id
      /\ session'[r].activity = "idle"
      /\ \A q \in Roles \ {r} : session'[q] = session[q]
  BY <1>1, <1>4, SetsActivity
<1>7. /\ handler' \in [Roles -> HandlerT] /\ handler'[r].step = "round" /\ hooks' = hooks
      /\ \A q \in Roles \ {r} : handler'[q] = handler[q]
  BY <1>1, <1>4, GoesTo DEF Steps
<1>8. Elsewhere(r) /\ Typed'
  BY <1>1, <1>4, <1>5, <1>6, <1>7 DEF Elsewhere, Same, RecoveryKept, Typed
<1>9. ReadyIsTended(r)' /\ StoppingIsRecorded(r)' /\ ArmIsOwed(r)' /\ HandlerFits(r)'
  BY <1>2, <1>6, <1>7 DEF ReadyIsTended, StoppingIsRecorded, Idle, ArmIsOwed, HandlerFits
<1>10. RetryFits(r)' /\ HooksFit(r)' /\ LeavingFits(r)'
  BY <1>1, <1>4, <1>5, <1>6, <1>7 DEF Tended, RetryFits, HooksFit, LeavingFits
<1>11. AgentFits(r)'
  BY <1>1, <1>4, <1>5, <1>6, <1>7 DEF Tended, AgentFits, LastEnds
<1>12. Tended(r)'
  BY <1>9, <1>10, <1>11 DEF Tended
<1>. QED
  BY <1>1, <1>5, <1>8, <1>12, OneRole

LEMMA EndRecordsRoundStep ==
  ASSUME RInv, NEW r \in Roles, EndRecordsRound(r)
  PROVE  RInv'
<1>1. /\ handler[r].step = "round" /\ up /\ Typed /\ Tended(r) /\ hooks[r] # <<>>
      /\ Head(hooks[r]).kind # "prompt" /\ GoTo(r, "dispatch")
  BY DEF EndRecordsRound, RInv
<1>2. Len(hooks[r]) # 0 /\ hooks[r][1].kind # "prompt" /\ hooks[r][1].id = session[r].id
  <2>1. hooks[r] \in Seq(HookT)
    BY <1>1 DEF Typed
  <2>. QED
    BY <1>1, <2>1, HooksAre DEF Tended, HandlerFits
<1>3. /\ agent' = agent /\ input' = input /\ session' = session
      /\ leaving' = leaving /\ retryTimer' = retryTimer /\ retry' = retry
      /\ recovery' = recovery /\ up' = up
  BY DEF EndRecordsRound, HookFrame, retryVars
<1>4. /\ handler' \in [Roles -> HandlerT] /\ handler'[r].step = "dispatch" /\ hooks' = hooks
      /\ \A q \in Roles \ {r} : handler'[q] = handler[q]
  BY <1>1, GoesTo DEF Steps
<1>5. Elsewhere(r) /\ Typed'
  BY <1>1, <1>3, <1>4 DEF Elsewhere, Same, RecoveryKept, Typed
<1>6. LastEnds(r)' = LastEnds(r) /\ Spent(r)' = Spent(r)
  BY <1>1, <1>3, <1>4 DEF LastEnds, Spent
<1>7. ReadyIsTended(r)' /\ StoppingIsRecorded(r)' /\ ArmIsOwed(r)' /\ HandlerFits(r)'
  BY <1>1, <1>2, <1>3, <1>4, <1>6
  DEF Tended, ReadyIsTended, StoppingIsRecorded, Idle, ArmIsOwed, HandlerFits
<1>8. RetryFits(r)' /\ HooksFit(r)' /\ LeavingFits(r)' /\ AgentFits(r)'
  BY <1>1, <1>3, <1>4, <1>6 DEF Tended, RetryFits, HooksFit, LeavingFits, AgentFits
<1>9. Tended(r)'
  BY <1>7, <1>8 DEF Tended
<1>. QED
  BY <1>1, <1>3, <1>5, <1>9, OneRole

-----------------------------------------------------------------------------
(* Deliveries: a role gets a prompt and is recorded in a turn, or nothing. *)
MayBePrompted(q) == input'[q] = TRUE \/ (input'[q] = input[q] /\ session'[q] = session[q])

LEMMA Deliveries ==
  ASSUME Typed, NEW sent, Delivers(sent)
  PROVE  /\ input' \in [Roles -> BOOLEAN] /\ session' \in [Roles -> SessionT]
         /\ \A q \in Roles : MayBePrompted(q) /\ session'[q].id = session[q].id
<1>. DEFINE To(q) == \E route \in sent : route[2] = q
            s == [q \in Roles |-> IF To(q) THEN [session[q] EXCEPT !.activity = "running"]
                                  ELSE session[q]]
<1>1. session' = s
  BY Zenon DEF Delivers
<1>2. input' = [q \in Roles |-> input[q] \/ q \in {route[2] : route \in sent}]
  BY Zenon DEF Delivers, Type
<1>3. \A q \in Roles : q \in {route[2] : route \in sent} <=> To(q)
  BY Zenon
<1>. HIDE DEF To
<1>4. input' = [q \in Roles |-> input[q] \/ To(q)]
  BY <1>2, <1>3, Zenon
<1>5. input' \in [Roles -> BOOLEAN]
  BY <1>4, Zenon
<1>6. ASSUME NEW q \in Roles
      PROVE  /\ s[q] \in SessionT /\ s[q].id = session[q].id
             /\ ~To(q) => s[q] = session[q]
  BY DEF Typed, SessionT
<1>7. s \in [Roles -> SessionT]
  BY <1>6
<1>. HIDE DEF s
<1>8. ASSUME NEW q \in Roles
      PROVE  IF To(q) THEN input'[q] = TRUE ELSE input'[q] = input[q]
  <2>1. input'[q] = (input[q] \/ To(q)) /\ input[q] \in BOOLEAN
    BY <1>4, Zenon DEF Typed
  <2>. QED
    BY <2>1
<1>. QED
  BY <1>1, <1>5, <1>6, <1>7, <1>8 DEF MayBePrompted

(* The roles a delivery may reach.                                         *)
Reached(q) ==
  /\ agent'[q] = agent[q] /\ MayBePrompted(q) /\ session'[q].id = session[q].id
  /\ hooks'[q] = hooks[q] /\ handler'[q] = handler[q] /\ leaving'[q] = leaving[q]
  /\ retryTimer'[q] = retryTimer[q] /\ retry'[q] = retry[q] /\ recovery' = recovery

LEMMA ReachedRole ==
  ASSUME Typed, NEW q \in Roles, Tended(q), Reached(q), up'
  PROVE  Tended(q)'
<1>1. CASE input'[q] = TRUE
  BY <1>1, PromptedRole DEF Reached
<1>2. CASE input'[q] = input[q] /\ session'[q] = session[q]
  BY <1>2, Bystander DEF Reached, Same, RecoveryKept
<1>. QED
  BY <1>1, <1>2 DEF Reached, MayBePrompted

LEMMA EndDispatchesStep ==
  ASSUME RInv, NEW r \in Roles, EndDispatches(r)
  PROVE  RInv'
<1>1. /\ handler[r].step = "dispatch" /\ up /\ Typed /\ Tended(r) /\ hooks[r] # <<>>
      /\ Answered(r) /\ Released(r, "ready")
  BY DEF EndDispatches, RInv
<1>2. /\ Len(hooks[r]) # 0 /\ Head(hooks[r]) = hooks[r][1]
      /\ hooks[r][1].kind # "prompt" /\ hooks[r][1].id = session[r].id
  <2>1. hooks[r] \in Seq(HookT)
    BY <1>1 DEF Typed
  <2>. QED
    BY <1>1, <2>1, HooksAre DEF Tended, HandlerFits
<1>3. /\ leaving' = leaving /\ retryTimer' = retryTimer /\ retry' = retry
      /\ recovery' = recovery /\ up' = up
  BY DEF EndDispatches, roundVars, retryVars
<1>4. /\ agent' \in [Roles -> Life] /\ ReleasedAs(r, "ready")
      /\ \A q \in Roles \ {r} : agent'[q] = agent[q]
  BY <1>1, <1>2, Releases DEF ReleasedAs, Current, Life
<1>5. /\ input' \in [Roles -> BOOLEAN] /\ session' \in [Roles -> SessionT]
      /\ \A q \in Roles : MayBePrompted(q) /\ session'[q].id = session[q].id
  <2>1. (\E sent : Delivers(sent)) \/ (input' = input /\ session' = session)
    BY DEF EndDispatches
  <2>. QED
    BY <1>1, <2>1, Deliveries DEF Typed, MayBePrompted
<1>6. /\ hooks' \in [Roles -> Seq(HookT)] /\ handler' \in [Roles -> HandlerT]
      /\ \A q \in Roles \ {r} : hooks'[q] = hooks[q] /\ handler'[q] = handler[q]
  BY <1>1, Answers
<1>7. Typed'
  BY <1>1, <1>3, <1>4, <1>5, <1>6 DEF Typed
<1>8. \A q \in Roles \ {r} : Tended(q)'
  <2>1. \A q \in Roles \ {r} : Reached(q)
    BY <1>3, <1>4, <1>5, <1>6 DEF Reached
  <2>. QED
    BY <1>1, <1>3, <2>1, ReachedRole DEF RInv
<1>9. Tended(r)'
  <2>1. Len(hooks[r]) = 1 => Spent(r)
    BY <1>1, <1>2 DEF Spent
  <2>2. agent[r] = "stopping" /\ hooks[r][1].kind = "stop" => Len(hooks[r]) = 1
    <3>1. Len(hooks[r]) <= 2 /\ Len(hooks[r]) \in Nat
      <4>1. hooks[r] \in Seq(HookT)
        BY <1>1 DEF Typed
      <4>. QED
        BY <1>1, <4>1, HooksAre DEF Tended, HooksFit
    <3>2. \A n \in Nat : n # 0 /\ n <= 2 => n = 1 \/ n = 2
      OBVIOUS
    <3>3. Len(hooks[r]) = 1 \/ Len(hooks[r]) = 2
      BY <1>2, <3>1, <3>2
    <3>. QED
      BY <1>1, <3>3 DEF Tended, HooksFit, AgentFits
  <2>3. CASE input'[r] = TRUE
    BY <1>1, <1>2, <1>3, <1>4, <1>5, <2>3, HookIsAnswered
  <2>4. CASE input'[r] = input[r] /\ session'[r] = session[r] /\ agent'[r] = agent[r]
    BY <1>1, <1>2, <1>3, <1>4, <1>5, <2>1, <2>4, HookIsAnswered
  <2>5. CASE input'[r] = input[r] /\ session'[r] = session[r] /\ agent'[r] # agent[r]
    <3>1. agent[r] = "stopping" /\ hooks[r][1].kind = "stop"
      BY <1>4, <2>5 DEF ReleasedAs
    <3>2. Idle(r)' \/ input'[r]
      BY <1>1, <2>1, <2>2, <2>5, <3>1 DEF Tended, StoppingIsRecorded, Idle
    <3>. QED
      BY <1>1, <1>2, <1>3, <1>4, <1>5, <3>2, HookIsAnswered
  <2>. QED
    BY <1>5, <2>3, <2>4, <2>5 DEF MayBePrompted
<1>. QED
  BY <1>7, <1>8, <1>9 DEF RInv

-----------------------------------------------------------------------------
(* The Round itself.                                                       *)
LEMMA RoundStep ==
  ASSUME RInv, SettleFires \/ SettleChecks \/ Poll
  PROVE  RInv'
<1>1. /\ agent' = agent /\ input' = input /\ session' = session /\ hooks' = hooks
      /\ handler' = handler /\ leaving' = leaving /\ retryTimer' = retryTimer
      /\ retry' = retry /\ recovery' = recovery /\ up' = up /\ up
  BY DEF SettleFires, SettleChecks, Poll, agentVars, hookVars, retryVars
<1>2. Everywhere /\ Typed'
  BY <1>1 DEF Everywhere, Same, RecoveryKept, RInv, Typed
<1>. QED
  BY <1>1, <1>2, NoRoleConcerned

LEMMA SettleGuardsStep ==
  ASSUME RInv, SettleGuards
  PROVE  RInv'
<1>1. /\ agent' = agent /\ hooks' = hooks
      /\ handler' = handler /\ leaving' = leaving /\ retryTimer' = retryTimer
      /\ retry' = retry /\ recovery' = recovery /\ up' = up /\ up /\ Typed
  BY DEF SettleGuards, hookVars, retryVars, RInv
<1>2. /\ input' \in [Roles -> BOOLEAN] /\ session' \in [Roles -> SessionT]
      /\ \A q \in Roles : MayBePrompted(q) /\ session'[q].id = session[q].id
  BY <1>1, Deliveries DEF SettleGuards
<1>3. Typed' /\ \A q \in Roles : Reached(q)
  BY <1>1, <1>2 DEF Typed, Reached
<1>. QED
  BY <1>1, <1>3, ReachedRole DEF RInv

-----------------------------------------------------------------------------
(* The retry of a failed turn.                                             *)

(* The retry goes on, and stays owed.                                      *)
LEMMA RetryGoesOn ==
  ASSUME Typed, NEW r \in Roles, Tended(r), up',
         agent'[r] = agent[r], input'[r] = input[r], session'[r] = session[r],
         hooks'[r] = hooks[r], handler'[r] = handler[r], leaving'[r] = leaving[r],
         RetryFits(r)', Owed(r) => Owed(r)', ArmIsOwed(r)'
  PROVE  Tended(r)'
<1>1. LastEnds(r)' = LastEnds(r) /\ Spent(r)' = Spent(r)
  BY DEF LastEnds, Spent
<1>2. ReadyIsTended(r)' /\ StoppingIsRecorded(r)' /\ HandlerFits(r)'
  BY <1>1 DEF Tended, ReadyIsTended, Idle, StoppingIsRecorded, HandlerFits
<1>3. HooksFit(r)' /\ AgentFits(r)' /\ LeavingFits(r)'
  BY <1>1 DEF Tended, HooksFit, AgentFits, LeavingFits
<1>. QED
  BY <1>2, <1>3 DEF Tended

LEMMA RetryFiresStep ==
  ASSUME RInv, NEW r \in Roles, RetryFires(r)
  PROVE  RInv'
<1>1. /\ agent' = agent /\ input' = input /\ session' = session /\ hooks' = hooks
      /\ handler' = handler /\ leaving' = leaving /\ recovery' = recovery /\ up' = up /\ up
      /\ retryTimer[r] # NoArm /\ retry[r] = NoRetry /\ Disarm(r) /\ Typed /\ Tended(r)
  BY DEF RetryFires, agentVars, hookVars, roundVars, RInv
<1>2. /\ retryTimer' \in [Roles -> ArmT] /\ retryTimer'[r] = NoArm
      /\ \A q \in Roles \ {r} : retryTimer'[q] = retryTimer[q]
  BY <1>1, Disarms
<1>3. /\ retry' \in [Roles -> Retries] /\ retry'[r].step = "check"
      /\ retry'[r].arm = retryTimer[r]
      /\ \A q \in Roles \ {r} : retry'[q] = retry[q]
  <2>. DEFINE x == [NoRetry EXCEPT !.step = "check", !.arm = retryTimer[r]]
  <2>1. x \in Retries /\ x.step = "check" /\ x.arm = retryTimer[r]
    BY <1>1, Values DEF Typed, Retries, ArmT
  <2>2. retry' = [retry EXCEPT ![r] = x]
    BY Zenon DEF RetryFires
  <2>. HIDE DEF x
  <2>. QED
    BY <1>1, <2>1, <2>2 DEF Typed
<1>4. Elsewhere(r) /\ Typed'
  BY <1>1, <1>2, <1>3 DEF Elsewhere, Same, RecoveryKept, Typed
<1>5. RetryFits(r)' /\ (Owed(r) => Owed(r)') /\ ArmIsOwed(r)'
  BY <1>1, <1>2, <1>3, Values DEF Tended, RetryFits, Owed, ArmIsOwed
<1>6. Tended(r)'
  BY <1>1, <1>5, RetryGoesOn
<1>. QED
  BY <1>1, <1>4, <1>6, OneRole

LEMMA RetryChecksStep ==
  ASSUME RInv, NEW r \in Roles, RetryChecks(r)
  PROVE  RInv'
<1>1. /\ agent' = agent /\ input' = input /\ session' = session /\ hooks' = hooks
      /\ handler' = handler /\ leaving' = leaving /\ recovery' = recovery /\ up' = up /\ up
      /\ retryTimer' = retryTimer /\ retry[r].step = "check" /\ Typed /\ Tended(r)
  BY DEF RetryChecks, RetryFrame, agentVars, hookVars, RInv
<1>2. r \in Fragile
  BY <1>1 DEF Tended, RetryFits
<1>. DEFINE s == IF agent[r] = "off" THEN "fail" ELSE "mark"
            x == [retry[r] EXCEPT !.step = s, !.id = session[r].id]
            lost == recovery # Recovering(r, "waiting", retry[r].arm.attempt)
<1>3. retry' = [retry EXCEPT ![r] = IF lost THEN NoRetry ELSE x]
  BY Zenon DEF RetryChecks
<1>4. session[r].id \in 0..MaxSessions
  BY <1>1, Values DEF Typed, SessionT
<1>5. x \in Retries /\ x.step = s /\ x.id = session[r].id
  BY <1>1, <1>4 DEF Typed, Retries
<1>. HIDE DEF x
<1>6. /\ retry' \in [Roles -> Retries] /\ retry'[r] = IF lost THEN NoRetry ELSE x
      /\ \A q \in Roles \ {r} : retry'[q] = retry[q]
  BY <1>1, <1>3, <1>5, Values DEF Typed
<1>7. Elsewhere(r) /\ Typed'
  BY <1>1, <1>6 DEF Elsewhere, Same, RecoveryKept, Typed
<1>8. RetryFits(r)'
  BY <1>1, <1>2, <1>5, <1>6, Values DEF RetryFits
<1>9. CASE agent[r] = "off"
  BY <1>1, <1>2, <1>5, <1>6, <1>7, <1>9, RoleIsOff, OneRole, Values DEF Tended, LeavingFits
<1>10. CASE agent[r] # "off"
  <2>1. Owed(r) => Owed(r)'
    BY <1>1, <1>5, <1>6, <1>10 DEF Owed
  <2>2. ArmIsOwed(r)'
    BY <1>1 DEF Tended, ArmIsOwed
  <2>3. Tended(r)'
    BY <1>1, <1>8, <2>1, <2>2, RetryGoesOn
  <2>. QED
    BY <1>1, <1>7, <2>3, OneRole
<1>. QED
  BY <1>9, <1>10

LEMMA RetryMarksStep ==
  ASSUME OneFragile, RInv, NEW r \in Roles, RetryMarks(r)
  PROVE  RInv'
<1>1. /\ agent' = agent /\ input' = input /\ session' = session /\ hooks' = hooks
      /\ handler' = handler /\ leaving' = leaving /\ up' = up /\ up
      /\ retryTimer' = retryTimer /\ retry[r].step = "mark" /\ Typed /\ Tended(r)
      /\ Step(r, "submit") /\ recovery' = Recovering(r, "retrying", retry[r].arm.attempt)
  BY DEF RetryMarks, RetryFrame, agentVars, hookVars, RInv
<1>2. r \in Fragile
  BY <1>1 DEF Tended, RetryFits
<1>3. /\ retry' \in [Roles -> Retries] /\ retry'[r].step = "submit" /\ retry'[r].id = retry[r].id
      /\ \A q \in Roles \ {r} : retry'[q] = retry[q]
  BY <1>1, RetrySteps
<1>4. recovery' \in RecoveryT
  <2>1. retry[r].arm.attempt \in 0..MaxAttempts
    BY <1>1 DEF Typed, Retries
  <2>. QED
    BY <1>1, <2>1, Recovers
<1>5. Elsewhere(r) /\ Typed'
  BY <1>1, <1>2, <1>3, <1>4, FragileAlone DEF Elsewhere, Same, Typed
<1>6. RetryFits(r)' /\ Owed(r)' /\ ArmIsOwed(r)'
  BY <1>1, <1>2, <1>3 DEF Tended, RetryFits, Owed, ArmIsOwed
<1>7. Tended(r)'
  BY <1>1, <1>6, RetryGoesOn
<1>. QED
  BY <1>1, <1>5, <1>7, OneRole

LEMMA RetrySubmitsStep ==
  ASSUME RInv, NEW r \in Roles, RetrySubmits(r)
  PROVE  RInv'
<1>1. /\ agent' = agent /\ hooks' = hooks
      /\ handler' = handler /\ leaving' = leaving /\ recovery' = recovery /\ up' = up /\ up
      /\ retryTimer' = retryTimer /\ retry[r].step = "submit" /\ Typed /\ Tended(r)
  BY DEF RetrySubmits, RetryFrame, roundVars, hookVars, RInv
<1>2. /\ retry' \in [Roles -> Retries] /\ retry'[r] = NoRetry
      /\ \A q \in Roles \ {r} : retry'[q] = retry[q]
  BY <1>1, Values DEF RetrySubmits, Typed
<1>3. retry[r].id = session[r].id
  BY <1>1 DEF Tended, RetryFits
<1>4. CASE agent[r] # "off"
  <2>1. Type({r}) /\ SetActivity(r, "running")
    BY <1>3, <1>4 DEF RetrySubmits
  <2>2. /\ input' \in [Roles -> BOOLEAN] /\ input'[r] = TRUE
        /\ \A q \in Roles \ {r} : input'[q] = input[q]
    BY <1>1, <2>1 DEF Type, Typed
  <2>3. /\ session' \in [Roles -> SessionT] /\ session'[r].id = session[r].id
        /\ \A q \in Roles \ {r} : session'[q] = session[q]
    BY <1>1, <2>1, SetsActivity
  <2>4. Elsewhere(r) /\ Typed'
    BY <1>1, <1>2, <2>2, <2>3 DEF Elsewhere, Same, RecoveryKept, Typed
  <2>5. Tended(r)'
    BY <1>1, <1>2, <2>2, <2>3, PromptedRole
  <2>. QED
    BY <1>1, <2>4, <2>5, OneRole
<1>5. CASE agent[r] = "off"
  <2>1. input' = input /\ session' = session
    BY <1>5 DEF RetrySubmits
  <2>2. Elsewhere(r) /\ Typed'
    BY <1>1, <1>2, <2>1 DEF Elsewhere, Same, RecoveryKept, Typed
  <2>3. Tended(r)'
    BY <1>1, <1>2, <1>5, <2>1, RoleIsOff, Values DEF Tended, LeavingFits
  <2>. QED
    BY <1>1, <2>2, <2>3, OneRole
<1>. QED
  BY <1>4, <1>5

(* No session to retry in: the process is gone.                            *)
LEMMA RetryFailsStep ==
  ASSUME OneFragile, RInv, NEW r \in Roles, RetryFails(r)
  PROVE  RInv'
<1>1. /\ agent' = agent /\ input' = input /\ session' = session /\ hooks' = hooks
      /\ handler' = handler /\ leaving' = leaving /\ up' = up /\ up
      /\ retryTimer' = retryTimer /\ retry[r].step = "fail" /\ Typed /\ Tended(r)
      /\ Step(r, "session") /\ recovery' = Recovering(r, "failed", retry[r].arm.attempt)
  BY DEF RetryFails, RetryFrame, agentVars, hookVars, RInv
<1>2. r \in Fragile /\ agent[r] = "off"
  BY <1>1 DEF Tended, RetryFits
<1>3. /\ retry' \in [Roles -> Retries] /\ retry'[r].step = "session"
      /\ \A q \in Roles \ {r} : retry'[q] = retry[q]
  BY <1>1, RetrySteps
<1>4. recovery' \in RecoveryT
  <2>1. retry[r].arm.attempt \in 0..MaxAttempts
    BY <1>1 DEF Typed, Retries
  <2>. QED
    BY <1>1, <2>1, Recovers
<1>5. Elsewhere(r) /\ Typed'
  BY <1>1, <1>2, <1>3, <1>4, FragileAlone DEF Elsewhere, Same, Typed
<1>6. Tended(r)'
  BY <1>1, <1>2, <1>3, RoleIsOff DEF Tended, LeavingFits
<1>. QED
  BY <1>1, <1>5, <1>6, OneRole

LEMMA RetryEndsSessionStep ==
  ASSUME RInv, NEW r \in Roles, RetryEndsSession(r)
  PROVE  RInv'
<1>1. /\ agent' = agent /\ input' = input /\ hooks' = hooks
      /\ handler' = handler /\ leaving' = leaving /\ recovery' = recovery /\ up' = up /\ up
      /\ retryTimer' = retryTimer /\ retry[r].step = "session" /\ Typed /\ Tended(r)
  BY DEF RetryEndsSession, RetryFrame, agentVars, hookVars, roundVars, RInv
<1>2. r \in Fragile /\ agent[r] = "off"
  BY <1>1 DEF Tended, RetryFits
<1>3. \/ SetActivity(r, "idle") /\ Step(r, "round")
      \/ retry' = [retry EXCEPT ![r] = NoRetry] /\ session' = session
  BY Zenon DEF RetryEndsSession
<1>4. /\ retry' \in [Roles -> Retries] /\ retry'[r].step \in {"round", "none"}
      /\ session' \in [Roles -> SessionT] /\ session'[r].id = session[r].id
      /\ \A q \in Roles \ {r} : retry'[q] = retry[q] /\ session'[q] = session[q]
  <2>1. CASE SetActivity(r, "idle") /\ Step(r, "round")
    BY <1>1, <2>1, SetsActivity, RetrySteps
  <2>2. CASE retry' = [retry EXCEPT ![r] = NoRetry] /\ session' = session
    BY <1>1, <2>2, Values DEF Typed
  <2>. QED
    BY <1>3, <2>1, <2>2
<1>5. Elsewhere(r) /\ Typed'
  BY <1>1, <1>4 DEF Elsewhere, Same, RecoveryKept, Typed
<1>6. Tended(r)'
  BY <1>1, <1>2, <1>4, RoleIsOff DEF Tended, LeavingFits
<1>. QED
  BY <1>1, <1>5, <1>6, OneRole

LEMMA RetryEndsRoundStep ==
  ASSUME RInv, NEW r \in Roles, RetryEndsRound(r)
  PROVE  RInv'
<1>1. /\ agent' = agent /\ input' = input /\ hooks' = hooks /\ session' = session
      /\ handler' = handler /\ leaving' = leaving /\ recovery' = recovery /\ up' = up /\ up
      /\ retryTimer' = retryTimer /\ retry[r].step = "round" /\ Typed /\ Tended(r)
  BY DEF RetryEndsRound, RetryFrame, agentVars, hookVars, RInv
<1>2. r \in Fragile /\ agent[r] = "off"
  BY <1>1 DEF Tended, RetryFits
<1>3. /\ retry' \in [Roles -> Retries] /\ retry'[r].step = "none"
      /\ \A q \in Roles \ {r} : retry'[q] = retry[q]
  <2>1. retry' = [retry EXCEPT ![r] = NoRetry]
    BY Zenon DEF RetryEndsRound
  <2>. QED
    BY <1>1, <2>1, Values DEF Typed
<1>4. Elsewhere(r) /\ Typed'
  BY <1>1, <1>3 DEF Elsewhere, Same, RecoveryKept, Typed
<1>5. Tended(r)'
  BY <1>1, <1>2, <1>3, RoleIsOff DEF Tended, LeavingFits
<1>. QED
  BY <1>1, <1>4, <1>5, OneRole

-----------------------------------------------------------------------------
(* The backend stops and is connected to again.                            *)
LEMMA CrashStep ==
  ASSUME RInv, Crash
  PROVE  RInv'
<1>1. /\ session' = session /\ recovery' = recovery /\ up' = FALSE
      /\ agent' = [q \in Roles |-> "off"] /\ input' = [q \in Roles |-> FALSE]
      /\ hooks' = [q \in Roles |-> <<>>] /\ handler' = [q \in Roles |-> Begin]
      /\ retryTimer' = [q \in Roles |-> NoArm] /\ retry' = [q \in Roles |-> NoRetry]
      /\ leaving' = [q \in Roles |-> NotLeaving]
  BY DEF Crash, Nobody
<1>2. Typed'
  <2>1. "off" \in Life /\ <<>> \in Seq(HookT)
    BY DEF Life
  <2>2. /\ agent' \in [Roles -> Life] /\ input' \in [Roles -> BOOLEAN]
        /\ hooks' \in [Roles -> Seq(HookT)] /\ handler' \in [Roles -> HandlerT]
    BY <1>1, <2>1, Values
  <2>3. /\ retryTimer' \in [Roles -> ArmT] /\ retry' \in [Roles -> Retries]
        /\ leaving' \in [Roles -> LeavingT] /\ up' \in BOOLEAN
    BY <1>1, Values
  <2>. QED
    BY <1>1, <2>2, <2>3 DEF RInv, Typed
<1>3. ASSUME NEW q \in Roles
      PROVE  Tended(q)'
  <2>1. /\ agent'[q] = "off" /\ Len(hooks'[q]) = 0 /\ handler'[q].step = "begin"
        /\ retryTimer'[q] = NoArm /\ retry'[q].step = "none"
        /\ leaving'[q].step = "none"
    BY <1>1, Values
  <2>2. ReadyIsTended(q)' /\ StoppingIsRecorded(q)' /\ ArmIsOwed(q)' /\ HandlerFits(q)'
    BY <2>1 DEF ReadyIsTended, StoppingIsRecorded, ArmIsOwed, HandlerFits
  <2>3. RetryFits(q)' /\ HooksFit(q)' /\ AgentFits(q)' /\ LeavingFits(q)'
    BY <2>1 DEF RetryFits, HooksFit, AgentFits, LeavingFits
  <2>. QED
    BY <2>2, <2>3 DEF Tended
<1>. QED
  BY <1>2, <1>3 DEF RInv

LEMMA RecoverStep ==
  ASSUME RInv, Recover
  PROVE  RInv'
<1>1. /\ agent' = agent /\ input' = input /\ hooks' = hooks
      /\ handler' = handler /\ leaving' = leaving /\ retryTimer' = retryTimer
      /\ retry' = retry /\ up' = TRUE /\ ~up /\ Typed
      /\ recovery' \in {recovery, NoRecovery}
  BY DEF Recover, agentVars, hookVars, retryVars, RInv
<1>2. session' = [q \in Roles |-> [session[q] EXCEPT !.activity = "idle"]]
  BY DEF Recover
<1>3. /\ session' \in [Roles -> SessionT]
      /\ \A q \in Roles : session'[q].id = session[q].id
  BY <1>1, <1>2 DEF Typed, SessionT
<1>4. Typed'
  BY <1>1, <1>3, Values DEF Typed
<1>5. ASSUME NEW q \in Roles
      PROVE  Tended(q)'
  <2>1. Tended(q) /\ agent[q] = "off" /\ RetryFits(q) /\ LeavingFits(q)
    BY <1>1 DEF RInv, Tended, AgentFits
  <2>. QED
    BY <1>1, <1>3, <2>1, RoleIsOff DEF RetryFits, LeavingFits
<1>. QED
  BY <1>4, <1>5 DEF RInv

-----------------------------------------------------------------------------
LEMMA InitTended == Init => RInv
<1>. SUFFICES ASSUME Init PROVE RInv
  OBVIOUS
<1>1. Typed
  <2>1. NoRecovery \in RecoveryT /\ "ready" \in Life
    BY Values DEF Life
  <2>2. [id |-> 1, activity |-> "idle"] \in SessionT
    BY Values DEF SessionT
  <2>3. <<>> \in Seq(HookT)
    OBVIOUS
  <2>4. /\ agent \in [Roles -> Life] /\ input \in [Roles -> BOOLEAN]
        /\ handler \in [Roles -> HandlerT] /\ hooks \in [Roles -> Seq(HookT)]
    BY <2>1, <2>3, Values DEF Init, Nobody
  <2>5. session \in [Roles -> SessionT]
    <3>1. session = [r \in Roles |-> [id |-> 1, activity |-> "idle"]]
      BY DEF Init, Nobody
    <3>. QED
      BY <2>2, <3>1
  <2>6. /\ retryTimer \in [Roles -> ArmT] /\ retry \in [Roles -> Retries]
        /\ leaving \in [Roles -> LeavingT] /\ up \in BOOLEAN /\ recovery \in RecoveryT
    BY <2>1, Values DEF Init, Nobody
  <2>. QED
    BY <2>4, <2>5, <2>6 DEF Typed
<1>2. ASSUME NEW q \in Roles
      PROVE  Tended(q)
  <2>1. /\ Len(hooks[q]) = 0 /\ handler[q].step = "begin"
        /\ retryTimer[q] = NoArm /\ retry[q].step = "none" /\ up = TRUE
        /\ leaving[q].step = "none" /\ leaving[q].why = "none"
    BY Values DEF Init, Nobody
  <2>2. agent[q] = "ready" /\ Idle(q)
    <3>1. session = [r \in Roles |-> [id |-> 1, activity |-> "idle"]] /\ agent[q] = "ready"
      BY DEF Init, Nobody
    <3>. QED
      BY <3>1 DEF Idle
  <2>3. ReadyIsTended(q) /\ StoppingIsRecorded(q) /\ ArmIsOwed(q) /\ HandlerFits(q)
    BY <2>1, <2>2 DEF ReadyIsTended, StoppingIsRecorded, ArmIsOwed, HandlerFits
  <2>4. RetryFits(q) /\ HooksFit(q) /\ AgentFits(q) /\ LeavingFits(q)
    BY <2>1, <2>2 DEF RetryFits, HooksFit, AgentFits, LeavingFits
  <2>. QED
    BY <2>3, <2>4 DEF Tended
<1>. QED
  BY <1>1, <1>2 DEF RInv

LEMMA TendedStep ==
  ASSUME ~Hasty, OneFragile, RInv, [Next]_vars
  PROVE  RInv'
<1>1. ASSUME NEW r \in Roles, HookStep(r)
      PROVE  RInv'
  <2>1. CASE HookIsStale(r) \/ MemoryTurnEnds(r) \/ PromptStep(r)
    BY <2>1, HookIsStaleStep, MemoryTurnEndsStep, PromptRecordsSessionStep,
       PromptRecordsRoundStep DEF PromptStep
  <2>2. CASE StopStep(r)
    BY <2>2, StopIsDuplicateStep, StopIsBlockedStep, StopIsAllowedStep DEF StopStep
  <2>3. CASE FailureStep(r)
    BY <2>3, FailureHasEvidenceStep, FailureEndsStep, FailureIsFinalStep, FailureReadsRoundStep,
       FailureWaitsStep, FailureArmsRetryStep DEF FailureStep
  <2>4. CASE EndStep(r)
    BY <2>4, EndRecordsSessionStep, EndRecordsRoundStep, EndDispatchesStep DEF EndStep
  <2>. QED
    BY <1>1, <2>1, <2>2, <2>3, <2>4 DEF HookStep
<1>2. ASSUME NEW r \in Roles, LeavingStep(r)
      PROVE  RInv'
  BY <1>2, LeavingRecordsSessionStep, LeavingStopsRoundStep DEF LeavingStep
<1>3. ASSUME NEW r \in Roles, RetryStep(r)
      PROVE  RInv'
  BY <1>3, RetryFiresStep, RetryChecksStep, RetryMarksStep, RetrySubmitsStep, RetryFailsStep,
     RetryEndsSessionStep, RetryEndsRoundStep DEF RetryStep
<1>4. ASSUME NEW r \in Roles, AgentStep(r)
      PROVE  RInv'
  <2>1. CASE \E kind \in {"failure", "fatal"} : AgentFails(r, kind)
    BY <2>1, AgentFailsStep DEF Ends
  <2>. QED
    BY <1>4, <2>1, AgentAcceptsStep, AgentStopsStep, AgentWorksStep DEF AgentStep
<1>5. ASSUME NEW r \in Roles, UserStep(r)
      PROVE  RInv'
  BY <1>5, UserPromptsStep, UserInterruptsStep, ProcessExitsStep, UserStopsSessionStep,
     UserStartsSessionStep DEF UserStep
<1>6. CASE SettleStep \/ Poll
  BY <1>6, RoundStep, SettleGuardsStep DEF SettleStep
<1>7. CASE \E kind \in WorkKinds : WorkEnds(kind)
  BY <1>7, WorkEndsStep
<1>8. CASE Crash \/ Recover
  BY <1>8, CrashStep, RecoverStep
<1>9. CASE UNCHANGED vars
  <2>1. /\ agent' = agent /\ input' = input /\ session' = session /\ hooks' = hooks
        /\ handler' = handler /\ leaving' = leaving /\ retryTimer' = retryTimer
        /\ retry' = retry /\ recovery' = recovery /\ up' = up
    BY <1>9 DEF vars, agentVars, hookVars, roundVars, retryVars
  <2>2. Typed' = Typed
    BY <2>1 DEF Typed
  <2>3. ASSUME NEW q \in Roles
        PROVE  Tended(q)' = Tended(q)
    BY <2>1 DEF Tended, ReadyIsTended, StoppingIsRecorded, ArmIsOwed, HandlerFits, RetryFits,
                HooksFit, AgentFits, LeavingFits, LastEnds, Spent, Owed, Idle
  <2>. QED
    BY <2>2, <2>3 DEF RInv
<1>. QED
  BY <1>1, <1>2, <1>3, <1>4, <1>5, <1>6, <1>7, <1>8, <1>9 DEF Next

(* No role is left behind: for any roles and any number of sessions,       *)
(* attempts, blocks and events, a role recorded in a turn whose Claude     *)
(* rests, with none of its hooks under way, has a retry that will still be *)
(* made, when nothing outside overtakes what a moment ago set off and the  *)
(* turns of at most one role fail (a failure of another role takes over    *)
(* the one recovery a task keeps).                                         *)
THEOREM NobodyIsLeftBehind ==
  ASSUME ~Hasty, OneFragile
  PROVE  Spec => []NobodyIsStranded
<1>1. Init => RInv
  BY InitTended
<1>2. RInv /\ [Next]_vars => RInv'
  BY TendedStep
<1>3. RInv => NobodyIsStranded
  <2>. SUFFICES ASSUME RInv, NEW r \in Roles, up, Resting(r), ~Idle(r)
                PROVE  RetryPending(r)
    BY DEF NobodyIsStranded
  <2>1. hooks[r] \in Seq(HookT) /\ Tended(r)
    BY DEF RInv, Typed
  <2>2. Len(hooks[r]) = 0 /\ leaving[r].step = "none"
    BY <2>1, HooksAre, Values DEF Resting
  <2>3. Owed(r)
    BY <2>1, <2>2 DEF Tended, ReadyIsTended, Resting, LastEnds
  <2>. QED
    BY <2>3, Values DEF Owed, RetryPending
<1>. QED
  BY <1>1, <1>2, <1>3, PTL DEF Spec
=============================================================================
