--------------------------- MODULE TaskLifecycle ---------------------------
(***************************************************************************)
(* task-service, task-close-service and task-launch-service with the part  *)
(* of runtime-recovery-service and runtime-coordinator-service that works  *)
(* on whole tasks: how a task gets its branch, worktree, record and        *)
(* sessions, and how it loses them.  Every request is a sequence of steps, *)
(* no lock is held between them, and each may fail or be cut off.          *)
(*                                                                         *)
(* The directories inside the worktree go with it.  The status field of a  *)
(* record is display only; its read-modify-write takes milliseconds and is *)
(* one step that changes nothing here.                                     *)
(***************************************************************************)
EXTENDS Naturals, FiniteSets

CONSTANTS
  Slugs,      \* names of tasks
  Roles,      \* the roster of a task
  Tool,       \* the tool role the coordinator keeps running
  Clients,    \* who sends requests: each waits for its answer
  Desk,       \* those of them that are windows of the desktop
  LateStarts, \* whether a start of a session may overtake the task's close
  Overlaps,   \* whether creations and cleanups of one name may overlap
  Plans       \* what comes from outside: how often, from whom, for which names

ASSUME TasksAssumption == /\ Tool \in Roles /\ Desk \subseteq Clients
                          /\ LateStarts \in BOOLEAN /\ Overlaps \in BOOLEAN

VARIABLES
  record,      \* slug -> its stored record: none, open or closed (a tombstone)
  worktree,    \* the slugs that have a worktree
  branch,      \* the slugs that have a branch
  live,        \* the running sessions, as slug and role
  request,     \* client -> its request
  coordinator, \* the task the coordinator is reconciling, if any
  orphaned,    \* slugs whose creation failed after the worktree was added
  up,          \* the backend is running
  plan, used   \* the plan, and what of it has been used
storeVars == <<record, worktree, branch, orphaned>>
taskVars == <<storeVars, live, request, coordinator, up, plan, used>>

NoSlug == "none"
Idle == [op |-> "none", step |-> "none", slug |-> NoSlug, todo |-> {}, gone |-> FALSE]
Open == {s \in Slugs : record[s] = "open"}
Tombstones == {s \in Slugs : record[s] = "closed"}
Cleaning(s) == {c \in Clients : request[c].slug = s /\ request[c].op \in {"close", "connect"}}
Alone(s) == Overlaps \/ \A c \in Clients : request[c].slug # s \/ request[c].op = "launch"
Unlisted(s) == Overlaps \/ \A c \in Clients : request[c].op = "connect" => s \notin request[c].todo
Spend(what) == plan[what] > used[what] /\ used' = [used EXCEPT ![what] = @ + 1]
Set(c, r) == request' = [request EXCEPT ![c] = r]
At(c, op, step) == up /\ request[c].op = op /\ request[c].step = step

(***************************************************************************)
(* Creation: checks and pull, worktree and branch, record.                 *)
(***************************************************************************)
CanCreate(s) == record[s] = "none" /\ Open = {} /\ s \notin branch \union worktree
Creates(c, s, then) ==
  Set(c, [Idle EXCEPT !.op = "create", !.step = "pulled", !.slug = s, !.todo = then])
BeginCreate(c, s) ==
  /\ up /\ request[c] = Idle /\ CanCreate(s) /\ Alone(s) /\ Unlisted(s)
  /\ Spend("creates")
  /\ \E then \in {{}, Roles} : Creates(c, s, then)
  /\ UNCHANGED <<storeVars, live, coordinator, up, plan>>
\* The pull fails or leaves changes: nothing has been made.
PullFails(c) ==
  /\ At(c, "create", "pulled") /\ Spend("faults") /\ Set(c, Idle)
  /\ UNCHANGED <<storeVars, live, coordinator, up, plan>>
\* git worktree add makes both, or neither when one is there.
AddWorktree(c) ==
  LET s == request[c].slug IN
  /\ At(c, "create", "pulled")
  /\ IF s \in worktree \union branch
     THEN Set(c, Idle) /\ UNCHANGED <<worktree, branch>>
     ELSE /\ worktree' = worktree \union {s} /\ branch' = branch \union {s}
          /\ Set(c, [request[c] EXCEPT !.step = "added"])
  /\ UNCHANGED <<record, orphaned, live, coordinator, up, plan, used>>
SaveTask(c) ==
  LET r == request[c] IN
  /\ At(c, "create", "added")
  /\ record' = [record EXCEPT ![r.slug] = "open"]
  /\ Set(c, IF r.todo = {} THEN Idle ELSE [r EXCEPT !.op = "launch", !.step = "start"])
  /\ UNCHANGED <<worktree, branch, orphaned, live, coordinator, up, plan, used>>
\* The handoff templates or the record cannot be written: both stay behind.
SaveFails(c) ==
  /\ At(c, "create", "added") /\ Spend("faults") /\ Set(c, Idle)
  /\ orphaned' = orphaned \union {request[c].slug}
  /\ UNCHANGED <<record, worktree, branch, live, coordinator, up, plan>>

(***************************************************************************)
(* Launch of the roster: skips what runs, stops at the first failure.      *)
(***************************************************************************)
BeginLaunch(c) ==
  /\ up /\ request[c] = Idle
  /\ \E s \in Open :
       /\ \A r \in Roles : <<s, r>> \notin live
       /\ Set(c, [Idle EXCEPT !.op = "launch", !.step = "start", !.slug = s, !.todo = Roles])
  /\ UNCHANGED <<storeVars, live, coordinator, up, plan, used>>
Startable(s) == record[s] = "open" \/ (LateStarts /\ record[s] = "closed")
StartRole(c) ==
  /\ At(c, "launch", "start")
  /\ LET q == request[c] IN \E r \in q.todo :
       IF Startable(q.slug)
       THEN /\ live' = live \union {<<q.slug, r>>}
            /\ Set(c, IF q.todo = {r} THEN Idle ELSE [q EXCEPT !.todo = @ \ {r}])
       ELSE Set(c, Idle) /\ UNCHANGED live
  /\ UNCHANGED <<storeVars, coordinator, up, plan, used>>
StartFails(c) ==
  /\ At(c, "launch", "start") /\ Spend("faults") /\ Set(c, Idle)
  /\ UNCHANGED <<storeVars, live, coordinator, up, plan>>

(***************************************************************************)
(* The coordinator ensures the tool session of the task it has read.       *)
(***************************************************************************)
Tick ==
  /\ up /\ coordinator = NoSlug /\ \E s \in Open : coordinator' = s
  /\ UNCHANGED <<storeVars, live, request, up, plan, used>>
EnsureTool ==
  /\ up /\ coordinator # NoSlug
  /\ live' = live \union (IF Startable(coordinator) THEN {<<coordinator, Tool>>} ELSE {})
  /\ coordinator' = NoSlug
  /\ UNCHANGED <<storeVars, request, up, plan, used>>
SessionExits ==
  /\ up /\ \E p \in live : live' = live \ {p}
  /\ Spend("exits")
  /\ UNCHANGED <<storeVars, request, coordinator, up, plan>>

(***************************************************************************)
(* Close, and the retry of tombstones when the project is connected.       *)
(***************************************************************************)
Closes(c, s) ==
  /\ record' = [record EXCEPT ![s] = "closed"]
  /\ Set(c, [Idle EXCEPT !.op = "close", !.step = "stop", !.slug = s])
BeginClose(c, s) ==
  /\ up /\ request[c] = Idle /\ record[s] # "none" /\ Alone(s) /\ Closes(c, s)
  /\ UNCHANGED <<worktree, branch, orphaned, live, coordinator, up, plan, used>>
\* Mutant: the tool role is left, as a session of the project.
StoppedRoster(s) == {p \in live : p[1] # s \/ p[2] = Tool}
Stopped(s) == {p \in live : p[1] # s}
StopSessions(c) ==
  LET q == request[c] IN
  /\ At(c, "close", "stop")
  /\ live' = Stopped(q.slug)
  /\ Set(c, [q EXCEPT !.step = "worktree"])
  /\ UNCHANGED <<storeVars, coordinator, up, plan, used>>

Connect(c) ==
  /\ up /\ request[c] = Idle /\ Tombstones # {}
  /\ Set(c, [Idle EXCEPT !.op = "connect", !.step = "next", !.todo = Tombstones])
  /\ UNCHANGED <<storeVars, live, coordinator, up, plan, used>>
\* A record removed in the meantime fails its retry only.
Retry(c) ==
  LET q == request[c] IN
  /\ At(c, "connect", "next")
  /\ IF q.todo = {} THEN Set(c, Idle) /\ UNCHANGED record
     ELSE \E s \in q.todo :
       IF record[s] = "none" THEN Set(c, [q EXCEPT !.todo = @ \ {s}]) /\ UNCHANGED record
       ELSE /\ Alone(s)
            /\ record' = [record EXCEPT ![s] = "closed"]
            /\ Set(c, [q EXCEPT !.step = "worktree", !.slug = s, !.todo = @ \ {s}])
  /\ UNCHANGED <<worktree, branch, orphaned, live, coordinator, up, plan, used>>

InCleanup(c, step) == up /\ request[c].op \in {"close", "connect"} /\ request[c].step = step
RemoveWorktree(c) ==
  LET q == request[c] IN
  /\ InCleanup(c, "worktree")
  /\ \/ /\ worktree' = worktree \ {q.slug} /\ UNCHANGED used
        /\ Set(c, [q EXCEPT !.step = "branch", !.gone = TRUE])
     \/ /\ Spend("faults") /\ UNCHANGED worktree
        /\ Set(c, [q EXCEPT !.step = "branch", !.gone = FALSE])
  /\ UNCHANGED <<record, branch, orphaned, live, coordinator, up, plan>>
DeleteBranch(c) ==
  LET q == request[c] IN
  /\ InCleanup(c, "branch")
  /\ \/ /\ branch' = branch \ {q.slug} /\ UNCHANGED used
        /\ Set(c, [q EXCEPT !.step = "record"])
     \/ /\ Spend("faults") /\ UNCHANGED branch
        /\ Set(c, [q EXCEPT !.step = "record", !.gone = FALSE])
  /\ UNCHANGED <<record, worktree, orphaned, live, coordinator, up, plan>>
\* Mutant: the record goes whatever became of worktree and branch.
RemovableAlways(q) == TRUE
Removable(q) == q.gone
RemoveRecord(c) ==
  LET q == request[c] IN
  /\ InCleanup(c, "record")
  /\ \/ /\ record' = IF Removable(q) THEN [record EXCEPT ![q.slug] = "none"] ELSE record
        /\ UNCHANGED used
     \/ Spend("faults") /\ UNCHANGED record
  /\ Set(c, IF q.op = "close" THEN Idle
            ELSE [q EXCEPT !.step = "next", !.slug = NoSlug, !.gone = FALSE])
  /\ UNCHANGED <<worktree, branch, orphaned, live, coordinator, up, plan>>

(***************************************************************************)
(* A crash ends every request and session where it is.                     *)
(***************************************************************************)
TasksCrash ==
  /\ up /\ Spend("crashes") /\ up' = FALSE
  /\ live' = {} /\ request' = [c \in Clients |-> Idle] /\ coordinator' = NoSlug
  /\ orphaned' = orphaned \union {request[c].slug : c \in {d \in Clients : At(d, "create", "added")}}
  /\ UNCHANGED <<record, worktree, branch, plan>>
TasksRestart ==
  /\ ~up /\ up' = TRUE
  /\ UNCHANGED <<storeVars, live, request, coordinator, plan, used>>

TasksInit ==
  /\ record = [s \in Slugs |-> "none"] /\ worktree = {} /\ branch = {} /\ orphaned = {}
  /\ live = {} /\ request = [c \in Clients |-> Idle] /\ coordinator = NoSlug /\ up = TRUE
  /\ plan \in Plans /\ used = [what \in DOMAIN plan |-> 0]
Progress(c) ==
  \/ AddWorktree(c) \/ SaveTask(c) \/ StartRole(c) \/ StopSessions(c)
  \/ RemoveWorktree(c) \/ DeleteBranch(c) \/ RemoveRecord(c) \/ Retry(c)
TasksNext ==
  \/ \E c \in plan.desks : \/ \E s \in plan.slugs : BeginCreate(c, s) \/ BeginClose(c, s)
                     \/ BeginLaunch(c) \/ Connect(c)
  \/ \E c \in Clients : Progress(c) \/ PullFails(c) \/ SaveFails(c) \/ StartFails(c)
  \/ Tick \/ EnsureTool \/ SessionExits
TasksFair ==
  /\ \A c \in Clients : WF_taskVars(Progress(c))
  /\ \A c \in Desk : WF_taskVars(Connect(c))
  /\ WF_taskVars(EnsureTool)

(***************************************************************************)
(* Properties.                                                             *)
(***************************************************************************)
\* What a recorded task left behind stays recorded until it is gone, so the
\* next connect can find and remove it: cleanupTask (task-service.ts:238).
ResourcesAreOwned ==
  \A s \in worktree \union branch :
    \/ record[s] # "none" \/ s \in orphaned
    \/ \E c \in Clients : request[c].slug = s /\ request[c].op = "create"
\* A session does not outlive its task: one that runs belongs to an open
\* task or to a close that is still to stop it (task-close-service.ts:102).
SessionsEndWithTask ==
  \A p \in live : \/ record[p[1]] = "open"
                  \/ \E c \in Cleaning(p[1]) : request[c].step = "stop"
=============================================================================
