------------------------------ MODULE Gateway ------------------------------
(***************************************************************************)
(* gateway-service and gateway-settings-service over TaskLifecycle: the    *)
(* connection switch and its poll loops, the phone's commands with their   *)
(* dedupe list and confirmation, and the push of a role's final reply.     *)
(*                                                                         *)
(* The settings file is read, changed and written in milliseconds: one     *)
(* step, except where the code keeps a copy over a long wait.  Replies,    *)
(* poll status, audit, help and listing commands change nothing here.  The *)
(* selected task follows the desktop's open task at every read of the      *)
(* status, so it is not a variable; Tool stands for the selected role.     *)
(***************************************************************************)
EXTENDS TaskLifecycle, Sequences

CONSTANTS
  Phone,        \* the client that the poll loop is
  Loops,        \* poll loops that may be alive at once
  MaxMessages, MaxReplies,
  Lark          \* the channel is Lark: its credentials survive a reset

ASSUME GatewayAssumption ==
  /\ Phone \in Clients \ Desk /\ Loops \subseteq Nat \ {0}
  /\ MaxMessages \in Nat /\ MaxReplies \in Nat /\ Lark \in BOOLEAN

\* A plan says how often each thing may come, from which windows, with
\* which commands and names.
ASSUME PlansAssumption ==
  /\ NoSlug \notin Slugs
  /\ Plans \subseteq [creates : Nat, faults : Nat, crashes : Nat, exits : Nat, arms : Nat,
                      disarms : Nat, resets : Nat, switches : Nat, messages : Nat, stops : Nat,
                      kinds : SUBSET {"plain", "create", "close", "confirm", "start"},
                      desks : SUBSET Clients, slugs : SUBSET Slugs]

VARIABLES
  armed,     \* connectionEnabled, in memory only
  loops,     \* loop -> where it is
  poll,      \* the loop pollAbort and pollLoopPromise belong to; 0 none
  reset,     \* the loop a reset of the binding waits for; 0 none
  settings,  \* the settings file and its cached copy
  sent,      \* what the phone has sent, in order
  since,     \* messages the channel no longer delivers to this login
  ran,       \* message -> how often it was executed
  replies,   \* final replies in the transcript of the selected role
  push,      \* the push under way
  pushed     \* reply -> how often it was sent to the phone
gatewayVars == <<armed, loops, poll, reset, settings, sent, since, ran, replies, push, pushed>>
vars == <<taskVars, gatewayVars>>

Kinds == {"plain", "create", "close", "confirm", "start"}
AllowedWhenOff == {"start"}
Off == [st |-> "off", aborted |-> FALSE, batch |-> <<>>, copy |-> 0]
NoPush == [st |-> "none", event |-> 0]
IsRunning(ls, p) == p # 0 /\ ~ls[p].aborted
Messages == 1..MaxMessages

\* Starts a poll loop, unless disarmed, unconfigured or running.
EnsurePolling(ls, p, arm, file) ==
  IF arm /\ file.account /\ ~IsRunning(ls, p) /\ (Overlaps \/ reset = 0)
  THEN \E l \in Loops : /\ ls[l].st = "off" /\ poll' = l
                        /\ loops' = [ls EXCEPT ![l] = [Off EXCEPT !.st = "top"]]
  ELSE loops' = ls /\ poll' = p
\* Mutant: only a loop that is polling is aborted.
AbortedPolling == IF poll # 0 /\ loops[poll].st = "polling" THEN [loops EXCEPT ![poll].aborted = TRUE] ELSE loops
Aborted == IF poll = 0 THEN loops ELSE [loops EXCEPT ![poll].aborted = TRUE]
Selected == {s \in Open : <<s, Tool>> \in live}

(***************************************************************************)
(* The desktop.                                                            *)
(***************************************************************************)
Arm ==
  /\ up /\ ~armed /\ Spend("arms") /\ armed' = TRUE
  /\ EnsurePolling(loops, poll, TRUE, settings)
  /\ UNCHANGED <<storeVars, live, request, coordinator, up, plan>>
  /\ UNCHANGED <<reset, settings, sent, since, ran, replies, push, pushed>>
Disarm ==
  /\ up /\ armed /\ Spend("disarms") /\ armed' = FALSE /\ loops' = Aborted
  /\ UNCHANGED <<storeVars, live, request, coordinator, up, plan>>
  /\ UNCHANGED <<poll, reset, settings, sent, since, ran, replies, push, pushed>>
\* Also what the coordinator's tick calls.
GetStatus ==
  /\ up /\ EnsurePolling(loops, poll, armed, settings)
  /\ UNCHANGED <<taskVars, armed, reset, settings, sent, since, ran, replies, push, pushed>>
\* The flag goes down only when the loop is gone, the account with it.
ResetFile(file) == [file EXCEPT !.on = FALSE, !.account = Lark, !.cursor = 0, !.seen = {}, !.pushed = 0]
Resets(file) ==
  settings' = ResetFile(file) /\ armed' = FALSE /\ since' = Len(sent) /\ reset' = 0
ResetBinding ==
  /\ up /\ reset = 0 /\ Spend("resets")
  /\ IF poll = 0 THEN Resets(settings) /\ UNCHANGED loops
     ELSE loops' = Aborted /\ reset' = poll /\ UNCHANGED <<armed, settings, since>>
  /\ UNCHANGED <<storeVars, live, request, coordinator, up, plan>>
  /\ UNCHANGED <<poll, sent, ran, replies, push, pushed>>
Login ==
  /\ up /\ ~settings.account
  /\ LET file == [settings EXCEPT !.account = TRUE] IN
     settings' = file /\ EnsurePolling(loops, poll, armed, file)
  /\ UNCHANGED <<taskVars, armed, reset, sent, since, ran, replies, push, pushed>>
Switch ==
  /\ up /\ Spend("switches")
  /\ LET file == [settings EXCEPT !.on = ~@] IN
     settings' = file /\ EnsurePolling(loops, poll, armed, file)
  /\ UNCHANGED <<storeVars, live, request, coordinator, up, plan>>
  /\ UNCHANGED <<armed, reset, sent, since, ran, replies, push, pushed>>
Send ==
  /\ Len(sent) < MaxMessages /\ Spend("messages")
  /\ \E k \in plan.kinds : \E s \in IF k \in {"create", "confirm"} THEN plan.slugs ELSE {NoSlug} :
       sent' = Append(sent, [kind |-> k, slug |-> s])
  /\ UNCHANGED <<storeVars, live, request, coordinator, up, plan>>
  /\ UNCHANGED <<armed, loops, poll, reset, settings, since, ran, replies, push, pushed>>

(***************************************************************************)
(* The poll loop.                                                          *)
(***************************************************************************)
Goes(l, st) == loops' = [loops EXCEPT ![l].st = st]
Ends(l, file) ==
  /\ loops' = [loops EXCEPT ![l] = Off]
  /\ poll' = IF poll = l THEN 0 ELSE poll
  /\ IF reset = l THEN Resets(file) ELSE settings' = file /\ UNCHANGED <<armed, since, reset>>
LoopTop(l) ==
  /\ up /\ loops[l].st = "top"
  /\ IF loops[l].aborted \/ ~settings.account THEN Ends(l, settings)
     ELSE Goes(l, "polling") /\ UNCHANGED <<poll, armed, since, reset, settings>>
  /\ UNCHANGED <<taskVars, sent, ran, replies, push, pushed>>
\* The poll is cut off, times out, or fails and waits.
PollReturns(l) ==
  /\ up /\ loops[l].st = "polling"
  /\ IF loops[l].aborted THEN Ends(l, settings)
     ELSE Goes(l, "top") /\ UNCHANGED <<poll, armed, since, reset, settings>>
  /\ UNCHANGED <<taskVars, sent, ran, replies, push, pushed>>
\* The cursor is stored before anything is handled; the channel may deliver
\* again what it has delivered before.
Receive(l) ==
  /\ up /\ loops[l].st = "polling" /\ ~loops[l].aborted
  /\ LET next == IF settings.cursor > since THEN settings.cursor ELSE since IN
     \/ /\ next < Len(sent) /\ UNCHANGED used
        /\ loops' = [loops EXCEPT ![l].st = "batch", ![l].batch = [i \in 1..(Len(sent) - next) |-> next + i]]
     \/ /\ since < next /\ Spend("faults")
        /\ loops' = [loops EXCEPT ![l].st = "batch", ![l].batch = [i \in 1..(Len(sent) - since) |-> since + i]]
  /\ settings' = [settings EXCEPT !.cursor = Len(sent)]
  /\ UNCHANGED <<storeVars, live, request, coordinator, up, plan>>
  /\ UNCHANGED <<armed, poll, reset, sent, since, ran, replies, push, pushed>>
SessionExpires(l) ==
  /\ up /\ loops[l].st = "polling" /\ ~loops[l].aborted /\ Spend("faults")
  /\ Ends(l, [settings EXCEPT !.on = FALSE, !.account = Lark, !.cursor = 0])
  /\ UNCHANGED <<storeVars, live, request, coordinator, up, plan>>
  /\ UNCHANGED <<sent, ran, replies, push, pushed>>

\* The batch is through, or the loop was aborted: what is left of it is lost.
BatchEnds(l) ==
  /\ up /\ loops[l].st = "batch" /\ (loops[l].batch = <<>> \/ loops[l].aborted)
  /\ IF loops[l].aborted THEN Ends(l, settings)
     ELSE Goes(l, "top") /\ UNCHANGED <<poll, armed, since, reset, settings>>
  /\ UNCHANGED <<taskVars, sent, ran, replies, push, pushed>>
\* Mutant: the list is not looked at.
IsDuplicateOfNone(m, file) == FALSE
IsDuplicate(m, file) == m \in file.seen
Dropped(l) ==
  /\ up /\ loops[l].st = "batch" /\ loops[l].batch # <<>> /\ ~loops[l].aborted
  /\ IsDuplicate(Head(loops[l].batch), settings)
  /\ loops' = [loops EXCEPT ![l].batch = Tail(@)]
  /\ UNCHANGED <<taskVars, armed, poll, reset, settings, sent, since, ran, replies, push, pushed>>

\* What is common to every command: the message is noted before it is executed.
Takes(l, kind) ==
  /\ up /\ loops[l].st = "batch" /\ loops[l].batch # <<>> /\ ~loops[l].aborted
  /\ LET m == Head(loops[l].batch) IN
     /\ ~IsDuplicate(m, settings) /\ sent[m].kind = kind
     /\ ran' = [ran EXCEPT ![m] = @ + 1]
Noted(l) == [settings EXCEPT !.seen = @ \union {Head(loops[l].batch)}]
SlugOf(l) == sent[Head(loops[l].batch)].slug
Handled(l, st) == loops' = [loops EXCEPT ![l].batch = Tail(@), ![l].st = st]
Refused(l, file) == settings' = file /\ Handled(l, "batch")

TakePlain(l) ==
  /\ Takes(l, "plain")
  /\ settings' = Noted(l)
  /\ Handled(l, IF settings.on /\ Selected # {} THEN "plain" ELSE "batch")
  /\ UNCHANGED <<taskVars, armed, poll, reset, sent, since, replies, push, pushed>>
\* The translation ended, well or badly.
PlainEnds(l) ==
  /\ up /\ loops[l].st = "plain" /\ Goes(l, "batch")
  /\ UNCHANGED <<taskVars, armed, poll, reset, settings, sent, since, ran, replies, push, pushed>>
TakeCreate(l) ==
  /\ Takes(l, "create")
  /\ IF settings.on /\ CanCreate(SlugOf(l))
     THEN /\ Alone(SlugOf(l)) /\ Unlisted(SlugOf(l)) /\ request[Phone] = Idle
          /\ Creates(Phone, SlugOf(l), Roles)
          /\ settings' = Noted(l) /\ Handled(l, "creating")
     ELSE Refused(l, Noted(l)) /\ UNCHANGED request
  /\ UNCHANGED <<storeVars, live, coordinator, up, plan, used>>
  /\ UNCHANGED <<armed, poll, reset, sent, since, replies, push, pushed>>
CreateEnds(l) ==
  /\ up /\ loops[l].st = "creating" /\ request[Phone] = Idle /\ Goes(l, "batch")
  /\ UNCHANGED <<taskVars, armed, poll, reset, settings, sent, since, ran, replies, push, pushed>>
TakeClose(l) ==
  /\ Takes(l, "close")
  /\ IF settings.on /\ Open # {}
     THEN \E s \in Open : Refused(l, [Noted(l) EXCEPT !.confirm = s])
     ELSE Refused(l, Noted(l))
  /\ UNCHANGED <<taskVars, armed, poll, reset, sent, since, replies, push, pushed>>
\* The copy of the settings read here is what is saved after the close.
TakeConfirm(l) ==
  /\ Takes(l, "confirm")
  /\ LET s == SlugOf(l) IN
     IF settings.on /\ settings.confirm = s /\ record[s] # "none"
     THEN /\ Alone(s) /\ request[Phone] = Idle /\ Closes(Phone, s)
          /\ settings' = Noted(l)
          /\ loops' = [loops EXCEPT ![l].batch = Tail(@), ![l].st = "closing", ![l].copy = Noted(l)]
     ELSE Refused(l, Noted(l)) /\ UNCHANGED <<request, record>>
  /\ UNCHANGED <<worktree, branch, orphaned, live, coordinator, up, plan, used>>
  /\ UNCHANGED <<armed, poll, reset, sent, since, replies, push, pushed>>
CloseEnds(l) ==
  /\ up /\ loops[l].st = "closing" /\ request[Phone] = Idle
  /\ settings' = [loops[l].copy EXCEPT !.confirm = NoSlug]
  /\ loops' = [loops EXCEPT ![l].st = "batch", ![l].copy = 0]
  /\ UNCHANGED <<taskVars, armed, poll, reset, sent, since, ran, replies, push, pushed>>
TakeStart(l) ==
  /\ Takes(l, "start")
  /\ LET gone == [loops EXCEPT ![l].batch = Tail(@)] IN
     IF ~settings.account \/ settings.on
     THEN settings' = Noted(l) /\ loops' = gone /\ UNCHANGED poll
     ELSE LET file == [Noted(l) EXCEPT !.on = TRUE] IN
          settings' = file /\ EnsurePolling(gone, poll, armed, file)
  /\ UNCHANGED <<taskVars, armed, reset, sent, since, replies, push, pushed>>

(***************************************************************************)
(* The push of a final reply, on the Stop of the selected role.            *)
(***************************************************************************)
RoleStops ==
  /\ up /\ Spend("stops")
  /\ \E n \in {replies, replies + 1} :
       /\ n \in 1..MaxReplies /\ replies' = n
       /\ push' = [st |-> "waiting", event |-> n]
  /\ Selected # {} /\ (Overlaps \/ push = NoPush)
  /\ UNCHANGED <<storeVars, live, request, coordinator, up, plan>>
  /\ UNCHANGED <<armed, loops, poll, reset, settings, sent, since, ran, pushed>>
\* The Round did not end within the wait, or not normally.
NotFinal ==
  /\ up /\ push.st = "waiting" /\ push' = NoPush
  /\ UNCHANGED <<taskVars, armed, loops, poll, reset, settings, sent, since, ran, replies, pushed>>
\* Mutant: without looking at the cursor.
IsLast(event, file) == event > 0
IsNew(event, file) == event > file.pushed
PushOriginal ==
  /\ up /\ push.st = "waiting"
  /\ IF /\ armed /\ settings.on /\ settings.account /\ Open # {}
        /\ IsNew(push.event, settings)
     THEN /\ pushed' = [pushed EXCEPT ![push.event] = @ + 1]
          /\ push' = [push EXCEPT !.st = "translating"]
     ELSE push' = NoPush /\ UNCHANGED pushed
  /\ UNCHANGED <<taskVars, armed, loops, poll, reset, settings, sent, since, ran, replies>>
PushEnds ==
  /\ up /\ push.st = "translating"
  /\ settings' = [settings EXCEPT !.pushed = push.event] /\ push' = NoPush
  /\ UNCHANGED <<taskVars, armed, loops, poll, reset, sent, since, ran, replies, pushed>>

GatewayCrash ==
  /\ TasksCrash /\ armed' = FALSE /\ loops' = [l \in Loops |-> Off] /\ poll' = 0
  /\ reset' = 0 /\ push' = NoPush
  /\ UNCHANGED <<settings, sent, since, ran, replies, pushed>>
Restart == TasksRestart /\ UNCHANGED gatewayVars

Init ==
  /\ TasksInit /\ armed = FALSE /\ loops = [l \in Loops |-> Off] /\ poll = 0 /\ reset = 0
  /\ settings = [on |-> FALSE, account |-> TRUE, confirm |-> NoSlug,
                 cursor |-> 0, seen |-> {}, pushed |-> 0]
  /\ sent = <<>> /\ since = 0 /\ ran = [m \in Messages |-> 0]
  /\ replies = 0 /\ push = NoPush /\ pushed = [e \in 1..MaxReplies |-> 0]
LoopSteps(l) ==
  \/ LoopTop(l) \/ PollReturns(l) \/ BatchEnds(l) \/ Dropped(l) \/ TakePlain(l) \/ PlainEnds(l)
  \/ TakeCreate(l) \/ CreateEnds(l) \/ TakeClose(l) \/ TakeConfirm(l) \/ CloseEnds(l) \/ TakeStart(l)
Next ==
  \/ TasksNext /\ UNCHANGED gatewayVars
  \/ Arm \/ Disarm \/ GetStatus \/ ResetBinding \/ Login \/ Switch \/ Send
  \/ \E l \in Loops : LoopSteps(l) \/ Receive(l) \/ SessionExpires(l)
  \/ RoleStops \/ NotFinal \/ PushOriginal \/ PushEnds
  \/ GatewayCrash \/ Restart
Spec == Init /\ [][Next]_vars
Fairness ==
  /\ \A c \in Clients : WF_vars(Progress(c) /\ UNCHANGED gatewayVars)
  /\ \A c \in Desk : WF_vars(Connect(c) /\ UNCHANGED gatewayVars)
  /\ WF_vars(EnsureTool /\ UNCHANGED gatewayVars) /\ WF_vars(Restart)
  /\ \A l \in Loops : WF_vars(LoopSteps(l))
FairSpec == Spec /\ Fairness

(***************************************************************************)
(* Properties.                                                             *)
(***************************************************************************)
\* No message of the phone is executed twice: not when the channel delivers
\* it again, not over re-arming and a second loop, not after a restart
\* (gateway-service.ts:371). True of the plans in which nobody disarms while
\* the phone closes a task: that close saves settings it read before it.
HandledOnce == \A m \in Messages : ran[m] <= 1
\* A reply goes to the phone once, however many Stops tell of it; a crash
\* between the push and its cursor, or a reset of the cursors, may repeat it,
\* and so may that close, which saves cursors it read before.
PushedOnce == \A e \in 1..MaxReplies : pushed[e] <= 1 + used.crashes + used.resets
\* Once the switch is off every loop comes to an end, whatever it is waiting
\* for (gateway-service.ts:236).
StopsPolling == ~armed ~> (armed \/ \A l \in Loops : loops[l].st = "off")
\* "`running` (live poll-loop state) can be true only while armed"
\* (gateway/ARCHITECTURE.md, Connection switch).
RunningOnlyWhileArmed == IsRunning(loops, poll) => armed
=============================================================================
