--------------------------- MODULE GatewayProofs ---------------------------
(***************************************************************************)
(* Theorems about Gateway over TaskLifecycle: who owns the branch, the     *)
(* worktree and the sessions of a task while requests interleave and       *)
(* fail, and how often a message of the phone is executed and a reply      *)
(* pushed to it.                                                           *)
(***************************************************************************)
EXTENDS Gateway, TLAPS

(***************************************************************************)
(* Types.                                                                  *)
(***************************************************************************)
Names == Slugs \union {NoSlug}
RequestType == [op : {"none", "create", "launch", "close", "connect"},
                step : {"none", "pulled", "added", "start", "stop", "next",
                        "worktree", "branch", "record"},
                slug : Names, todo : SUBSET (Roles \union Slugs), gone : BOOLEAN]
\* What each kind of request has of its fields.
Shape(q) ==
  \/ q = Idle
  \/ q.op = "create" /\ q.step \in {"pulled", "added"} /\ q.slug \in Slugs /\ q.todo \subseteq Roles
  \/ q.op = "launch" /\ q.step = "start" /\ q.slug \in Slugs /\ q.todo \subseteq Roles
  \/ q.op = "close" /\ q.step \in {"stop", "worktree", "branch", "record"} /\ q.slug \in Slugs
  \/ q.op = "connect" /\ q.step = "next" /\ q.slug = NoSlug /\ q.todo \subseteq Slugs
  \/ /\ q.op = "connect" /\ q.step \in {"worktree", "branch", "record"}
     /\ q.slug \in Slugs /\ q.todo \subseteq Slugs
TasksTyped ==
  /\ record \in [Slugs -> {"none", "open", "closed"}]
  /\ worktree \in SUBSET Slugs /\ branch \in SUBSET Slugs /\ orphaned \in SUBSET Names
  /\ live \in SUBSET (Slugs \X Roles)
  /\ request \in [Clients -> RequestType] /\ \A c \in Clients : Shape(request[c])
  /\ coordinator \in Names /\ up \in BOOLEAN
  /\ plan \in Plans /\ used \in [DOMAIN plan -> Nat]

SettingsType == [on : BOOLEAN, account : BOOLEAN, confirm : Names, cursor : Nat,
                 seen : SUBSET Messages, pushed : Nat]
LoopType == [st : {"off", "top", "polling", "batch", "plain", "creating", "closing"},
             aborted : BOOLEAN, batch : Seq(Messages), copy : SettingsType \union {0}]
\* What the phone may have sent.
Sendable(m) ==
  /\ m.kind \in plan.kinds /\ m.slug \in Names
  /\ m.kind \in {"create", "confirm"} => m.slug \in Slugs
ChannelTyped ==
  /\ armed \in BOOLEAN /\ loops \in [Loops -> LoopType]
  /\ poll \in Loops \union {0} /\ reset \in Loops \union {0}
  /\ settings \in SettingsType
  /\ sent \in Seq([kind : Kinds, slug : Names]) /\ Len(sent) <= MaxMessages
  /\ \A i \in 1..Len(sent) : Sendable(sent[i])
  /\ since \in 0..Len(sent) /\ settings.cursor \in 0..Len(sent)
  /\ ran \in [Messages -> Nat]
  /\ \A l \in Loops : /\ \A i \in 1..Len(loops[l].batch) : loops[l].batch[i] <= Len(sent)
                      /\ loops[l].st = "closing" => /\ loops[l].copy \in SettingsType
                                                    /\ loops[l].copy.cursor <= Len(sent)
PushTyped ==
  /\ replies \in 0..MaxReplies /\ pushed \in [1..MaxReplies -> Nat]
  /\ push \in [st : {"none", "waiting", "translating"}, event : 0..MaxReplies]
  /\ push.st # "none" => push.event \in 1..MaxReplies
  /\ push.st = "none" => push = NoPush
Typed == TasksTyped /\ ChannelTyped /\ PushTyped

(***************************************************************************)
(* Who owns what.                                                          *)
(***************************************************************************)
\* The request that is making or removing the task s.
Owns(c, s) == request[c].op \in {"create", "close", "connect"} /\ request[c].slug = s
OneOwner == \A s \in Slugs : \A c, d \in Clients : Owns(c, s) /\ Owns(d, s) => c = d
\* What its step says of the task a request works on.
Creating(q) ==
  q.op = "create" => /\ record[q.slug] = "none"
                     /\ q.step = "pulled" => q.slug \notin worktree \union branch
Removing(q) ==
  q.op \in {"close", "connect"} /\ q.step # "next" =>
    /\ record[q.slug] = "closed"
    /\ q.step = "branch" /\ q.gone => q.slug \notin worktree
    /\ q.step = "record" /\ q.gone => q.slug \notin worktree \union branch
\* A tombstone on the list of a connect is not created again.
Listed(q) ==
  q.op = "connect" => \A s \in q.todo : /\ record[s] # "open"
                                        /\ \A d \in Clients : request[d].op = "create" => request[d].slug # s

(***************************************************************************)
(* Which loops may take a message.                                         *)
(***************************************************************************)
Alive(l) == loops[l].st # "off"
OnePolls == /\ poll # 0 => Alive(poll)
            /\ \A l \in Loops : Alive(l) /\ ~loops[l].aborted => poll = l
ResetWaits == reset # 0 => \A l \in Loops : Alive(l) => loops[l].aborted
\* The copy that a closing loop holds is not behind the file.
CopiesAreCurrent ==
  /\ "confirm" \notin plan.kinds => \A l \in Loops : loops[l].st # "closing"
  /\ "confirm" \in plan.kinds =>
       /\ plan.disarms = 0
       /\ \A l \in Loops : Alive(l) => poll = l /\ (loops[l].aborted => reset = l)
       /\ \A l \in Loops : loops[l].st = "closing" => loops[l].copy.seen = settings.seen
BatchIsNew == \A l \in Loops : Alive(l) /\ ~loops[l].aborted =>
                \A i \in 1..Len(loops[l].batch) : since < loops[l].batch[i]
RanIsNoted == \A m \in Messages : /\ ran[m] <= 1
                                  /\ ran[m] = 1 => m \in settings.seen \/ m <= since
                                  /\ ran[m] = 1 => m <= Len(sent)
LoopsInv == OnePolls /\ ResetWaits /\ CopiesAreCurrent /\ BatchIsNew /\ RanIsNoted

(***************************************************************************)
(* How often a reply was pushed.                                           *)
(***************************************************************************)
Told(e) == IF e <= settings.pushed \/ push = [st |-> "translating", event |-> e] THEN 1 ELSE 0
Excused == used.crashes + used.resets
Waits == IF reset # 0 THEN 1 ELSE 0
PushInv ==
  /\ "confirm" \notin plan.kinds => \A l \in Loops : loops[l].st # "closing"
  /\ "confirm" \in plan.kinds => plan.stops = 0
  /\ push.st = "translating" => push.event > settings.pushed
  /\ plan.stops = 0 => push = NoPush /\ \A e \in 1..MaxReplies : pushed[e] = 0
  /\ \A e \in 1..MaxReplies :
       plan.stops # 0 => pushed[e] + Waits <= Told(e) + Excused

(***************************************************************************)
(* Types are kept.                                                         *)
(***************************************************************************)
LEMMA PlanFields ==
  ASSUME plan \in Plans
  PROVE  /\ plan.kinds \subseteq Kinds /\ plan.desks \subseteq Clients /\ plan.slugs \subseteq Slugs
         /\ plan.disarms \in Nat /\ plan.stops \in Nat
         /\ {"creates", "faults", "crashes", "exits", "arms", "disarms", "resets", "switches",
             "messages", "stops"} \subseteq DOMAIN plan
BY PlansAssumption DEF Kinds

\* Only what the plan allows is spent, and only what is spent is counted.
LEMMA SpendCounts ==
  ASSUME plan \in Plans, used \in [DOMAIN plan -> Nat], NEW what \in DOMAIN plan, Spend(what)
  PROVE  /\ used' \in [DOMAIN plan -> Nat]
         /\ used'[what] = used[what] + 1
         /\ \A other \in DOMAIN plan : other # what => used'[other] = used[other]
         /\ plan[what] \in Nat => plan[what] > 0
BY DEF Spend

LEMMA SetTyped ==
  ASSUME TasksTyped, NEW c \in Clients, NEW q \in RequestType, Shape(q), Set(c, q)
  PROVE  request' \in [Clients -> RequestType] /\ \A d \in Clients : Shape(request'[d])
BY DEF TasksTyped, Set

LEMMA IdleTyped == Idle \in RequestType /\ Shape(Idle)
BY DEF Idle, RequestType, Names, Shape

LEMMA ShapeFields ==
  ASSUME NEW q \in RequestType, Shape(q)
  PROVE  /\ q.op \in {"create", "launch"} => q.slug \in Slugs /\ q.todo \subseteq Roles
         /\ q.op = "create" => q.step \in {"pulled", "added"}
         /\ q.op = "launch" => q.step = "start"
         /\ q.op = "close" => /\ q.slug \in Slugs /\ q.step # "next"
                              /\ q.step \in {"stop", "worktree", "branch", "record"}
         /\ q.op = "connect" => /\ q.todo \subseteq Slugs /\ q.step # "stop"
                                /\ q.step \in {"next", "worktree", "branch", "record"}
                                /\ q.step # "next" => q.slug \in Slugs
                                /\ q.step = "next" => q.slug = NoSlug
         /\ q.op = "none" => q = Idle
BY DEF Shape, Idle

\* The next steps of a cleanup keep its shape.
LEMMA CleanupShape ==
  ASSUME NEW q \in RequestType, Shape(q), q.op \in {"close", "connect"}, q.step # "next"
  PROVE  /\ q.slug \in Slugs
         /\ \A step \in {"worktree", "branch", "record"}, gone \in BOOLEAN :
              LET n == [q EXCEPT !.step = step, !.gone = gone] IN n \in RequestType /\ Shape(n)
         /\ LET n == [q EXCEPT !.step = "worktree"] IN n \in RequestType /\ Shape(n)
         /\ LET n == [q EXCEPT !.step = "record"] IN n \in RequestType /\ Shape(n)
         /\ q.op = "connect" =>
              LET n == [q EXCEPT !.step = "next", !.slug = NoSlug, !.gone = FALSE]
              IN  n \in RequestType /\ Shape(n)
<1>1. q.slug \in Slugs /\ (q.op = "connect" => q.todo \subseteq Slugs)
  BY ShapeFields
<1>2. ASSUME NEW step \in {"worktree", "branch", "record"}, NEW gone \in BOOLEAN
      PROVE  LET n == [q EXCEPT !.step = step, !.gone = gone] IN n \in RequestType /\ Shape(n)
  <2>. DEFINE n == [q EXCEPT !.step = step, !.gone = gone]
  <2>1. n \in RequestType /\ n.op = q.op /\ n.step = step /\ n.slug = q.slug /\ n.todo = q.todo
    BY DEF RequestType
  <2>. HIDE DEF n
  <2>2. Shape(n)
    BY <1>1, <2>1 DEF Shape
  <2>. QED
    BY <2>1, <2>2 DEF n
<1>3. q.gone \in BOOLEAN /\ \A step : [q EXCEPT !.step = step] = [q EXCEPT !.step = step, !.gone = q.gone]
  BY DEF RequestType
<1>4. ASSUME q.op = "connect"
      PROVE  LET n == [q EXCEPT !.step = "next", !.slug = NoSlug, !.gone = FALSE]
             IN  n \in RequestType /\ Shape(n)
  <2>. DEFINE n == [q EXCEPT !.step = "next", !.slug = NoSlug, !.gone = FALSE]
  <2>1. n \in RequestType /\ n.op = q.op /\ n.step = "next" /\ n.slug = NoSlug /\ n.todo = q.todo
    BY DEF RequestType, Names
  <2>. HIDE DEF n
  <2>2. Shape(n)
    BY <1>1, <1>4, <2>1 DEF Shape
  <2>. QED
    BY <2>1, <2>2 DEF n
<1>. QED
  BY <1>1, <1>2, <1>3, <1>4

LEMMA TaskStepsAreTyped ==
  ASSUME TasksTyped, TasksNext
  PROVE  TasksTyped'
<1>. USE DEF TasksTyped
<1>1. /\ plan.desks \subseteq Clients /\ plan.slugs \subseteq Slugs
      /\ {"creates", "faults", "exits"} \subseteq DOMAIN plan
  BY PlanFields
<1>2. ASSUME NEW what \in DOMAIN plan, Spend(what)
      PROVE  used' \in [DOMAIN plan -> Nat]
  BY <1>2, SpendCounts
<1>3. NoSlug \notin Slugs /\ Tool \in Roles /\ NoSlug \in Names /\ Slugs \subseteq Names
  BY PlansAssumption, TasksAssumption DEF Names
<1>4. ASSUME NEW c \in Clients, NEW q \in RequestType, Shape(q), Set(c, q)
      PROVE  request' \in [Clients -> RequestType] /\ \A d \in Clients : Shape(request'[d])
  BY <1>4, SetTyped
<1>5. ASSUME NEW c \in Clients, Set(c, Idle)
      PROVE  request' \in [Clients -> RequestType] /\ \A d \in Clients : Shape(request'[d])
  BY <1>4, <1>5, IdleTyped
<1>6. ASSUME NEW c \in plan.desks, NEW s \in plan.slugs, BeginCreate(c, s)
      PROVE  TasksTyped'
  <2>. PICK then \in {{}, Roles} : Creates(c, s, then)
    BY <1>6 DEF BeginCreate
  <2>. DEFINE q == [Idle EXCEPT !.op = "create", !.step = "pulled", !.slug = s, !.todo = then]
  <2>1. q \in RequestType /\ Shape(q)
    BY <1>1, <1>3 DEF Idle, RequestType, Shape
  <2>2. Set(c, q)
    BY DEF Creates
  <2>. QED
    BY <1>1, <1>2, <1>4, <1>6, <2>1, <2>2 DEF BeginCreate, storeVars
<1>7. ASSUME NEW c \in plan.desks, BeginLaunch(c)
      PROVE  TasksTyped'
  <2>. PICK s \in Open : Set(c, [Idle EXCEPT !.op = "launch", !.step = "start", !.slug = s, !.todo = Roles])
    BY <1>7 DEF BeginLaunch
  <2>. DEFINE q == [Idle EXCEPT !.op = "launch", !.step = "start", !.slug = s, !.todo = Roles]
  <2>1. q \in RequestType /\ Shape(q)
    BY <1>1, <1>3 DEF Idle, RequestType, Shape, Open
  <2>. QED
    BY <1>1, <1>4, <1>7, <2>1 DEF BeginLaunch, storeVars
<1>8. ASSUME NEW c \in Clients, NEW s \in Slugs, Closes(c, s)
      PROVE  /\ request' \in [Clients -> RequestType] /\ \A d \in Clients : Shape(request'[d])
             /\ record' \in [Slugs -> {"none", "open", "closed"}]
  <2>. DEFINE q == [Idle EXCEPT !.op = "close", !.step = "stop", !.slug = s]
  <2>1. q \in RequestType /\ Shape(q)
    BY <1>3 DEF Idle, RequestType, Shape
  <2>. QED
    BY <1>4, <1>8, <2>1 DEF Closes
<1>9. ASSUME NEW c \in plan.desks, NEW s \in plan.slugs, BeginClose(c, s)
      PROVE  TasksTyped'
  BY <1>1, <1>8, <1>9 DEF BeginClose
<1>10. ASSUME NEW c \in plan.desks, Connect(c)
       PROVE  TasksTyped'
  <2>. DEFINE q == [Idle EXCEPT !.op = "connect", !.step = "next", !.todo = Tombstones]
  <2>1. q \in RequestType /\ Shape(q)
    BY <1>3 DEF Idle, RequestType, Shape, Tombstones
  <2>. QED
    BY <1>1, <1>4, <1>10, <2>1 DEF Connect, storeVars
<1>11. ASSUME NEW c \in Clients, Progress(c)
       PROVE  TasksTyped'
  <2>. DEFINE q == request[c]
  <2>1. q \in RequestType /\ Shape(q)
    OBVIOUS
  <2>2. CASE AddWorktree(c)
    <3>1. q.op = "create" /\ q.slug \in Slugs /\ q.todo \subseteq Roles
      BY <2>1, <2>2, ShapeFields DEF AddWorktree, At
    <3>. DEFINE n == [q EXCEPT !.step = "added"]
    <3>2. n \in RequestType /\ Shape(n)
      <4>1. n \in RequestType /\ n.op = q.op /\ n.step = "added" /\ n.slug = q.slug /\ n.todo = q.todo
        BY <2>1 DEF RequestType
      <4>. HIDE DEF n, q
      <4>2. Shape(n)
        BY <3>1, <4>1 DEF Shape
      <4>. QED
        BY <4>1, <4>2
    <3>3. request' \in [Clients -> RequestType] /\ \A d \in Clients : Shape(request'[d])
      BY <1>4, <1>5, <2>2, <3>2 DEF AddWorktree
    <3>. QED
      BY <2>2, <3>1, <3>3 DEF AddWorktree
  <2>3. CASE SaveTask(c)
    <3>1. q.op = "create" /\ q.slug \in Slugs /\ q.todo \subseteq Roles
      BY <2>1, <2>3, ShapeFields DEF SaveTask, At
    <3>. DEFINE n == [q EXCEPT !.op = "launch", !.step = "start"]
    <3>2. n \in RequestType /\ Shape(n)
      BY <2>1, <3>1 DEF Shape, RequestType
    <3>. QED
      BY <1>4, <1>5, <2>3, <3>1, <3>2 DEF SaveTask
  <2>4. CASE StartRole(c)
    <3>1. q.op = "launch" /\ q.slug \in Slugs /\ q.todo \subseteq Roles
      BY <2>1, <2>4, ShapeFields DEF StartRole, At
    <3>2. ASSUME NEW r \in q.todo
          PROVE  [q EXCEPT !.todo = @ \ {r}] \in RequestType /\ Shape([q EXCEPT !.todo = @ \ {r}])
      <4>. DEFINE n == [q EXCEPT !.todo = @ \ {r}]
      <4>1. n \in RequestType /\ n.op = q.op /\ n.step = q.step /\ n.slug = q.slug /\ n.todo = q.todo \ {r}
        BY <2>1, <3>1 DEF RequestType
      <4>2. q.step = "start"
        BY <2>1, <3>1, ShapeFields
      <4>. HIDE DEF n, q
      <4>3. Shape(n)
        BY <3>1, <4>1, <4>2 DEF Shape
      <4>. QED
        BY <4>1, <4>3 DEF n
    <3>3. request' \in [Clients -> RequestType] /\ \A d \in Clients : Shape(request'[d])
      BY <1>4, <1>5, <2>4, <3>2 DEF StartRole
    <3>. QED
      BY <2>4, <3>1, <3>3 DEF StartRole, storeVars
  <2>5. CASE StopSessions(c)
    <3>. DEFINE n == [q EXCEPT !.step = "worktree"]
    <3>1. n \in RequestType /\ Shape(n)
      BY <2>1, <2>5, CleanupShape DEF StopSessions, At
    <3>2. request' \in [Clients -> RequestType] /\ \A d \in Clients : Shape(request'[d])
      BY <1>4, <2>5, <3>1 DEF StopSessions
    <3>. QED
      BY <2>5, <3>2 DEF StopSessions, storeVars, Stopped
  <2>6. CASE RemoveWorktree(c)
    <3>1. ASSUME NEW gone \in BOOLEAN
          PROVE  LET n == [q EXCEPT !.step = "branch", !.gone = gone] IN n \in RequestType /\ Shape(n)
      BY <2>1, <2>6, CleanupShape DEF RemoveWorktree, InCleanup
    <3>2. request' \in [Clients -> RequestType] /\ \A d \in Clients : Shape(request'[d])
      BY <1>4, <2>6, <3>1 DEF RemoveWorktree
    <3>. QED
      BY <1>1, <1>2, <2>6, <3>2 DEF RemoveWorktree
  <2>7. CASE DeleteBranch(c)
    <3>1. ASSUME NEW gone \in BOOLEAN
          PROVE  LET n == [q EXCEPT !.step = "record", !.gone = gone] IN n \in RequestType /\ Shape(n)
      BY <2>1, <2>7, CleanupShape DEF DeleteBranch, InCleanup
    <3>2. LET n == [q EXCEPT !.step = "record"] IN n \in RequestType /\ Shape(n)
      BY <2>1, <2>7, CleanupShape DEF DeleteBranch, InCleanup
    <3>3. request' \in [Clients -> RequestType] /\ \A d \in Clients : Shape(request'[d])
      BY <1>4, <2>7, <3>1, <3>2 DEF DeleteBranch
    <3>. QED
      BY <1>1, <1>2, <2>7, <3>3 DEF DeleteBranch
  <2>8. CASE RemoveRecord(c)
    <3>. DEFINE n == [q EXCEPT !.step = "next", !.slug = NoSlug, !.gone = FALSE]
    <3>1. (q.op # "close" => n \in RequestType /\ Shape(n)) /\ q.slug \in Slugs
      BY <2>1, <2>8, CleanupShape DEF RemoveRecord, InCleanup
    <3>3. request' \in [Clients -> RequestType] /\ \A d \in Clients : Shape(request'[d])
      BY <1>4, <1>5, <2>8, <3>1 DEF RemoveRecord
    <3>. QED
      BY <1>1, <1>2, <2>8, <3>1, <3>3 DEF RemoveRecord
  <2>9. CASE Retry(c)
    <3>1. q.op = "connect" /\ q.todo \subseteq Slugs
      BY <2>1, <2>9, ShapeFields DEF Retry, At
    <3>2. ASSUME NEW s \in q.todo
          PROVE  /\ [q EXCEPT !.todo = @ \ {s}] \in RequestType /\ Shape([q EXCEPT !.todo = @ \ {s}])
                 /\ LET n == [q EXCEPT !.step = "worktree", !.slug = s, !.todo = @ \ {s}]
                    IN  n \in RequestType /\ Shape(n)
      <4>. DEFINE m == [q EXCEPT !.todo = @ \ {s}]
                  n == [q EXCEPT !.step = "worktree", !.slug = s, !.todo = @ \ {s}]
      <4>1. /\ m \in RequestType /\ m.op = q.op /\ m.step = q.step /\ m.slug = q.slug /\ m.todo = q.todo \ {s}
            /\ n \in RequestType /\ n.op = q.op /\ n.step = "worktree" /\ n.slug = s /\ n.todo = q.todo \ {s}
        BY <1>3, <2>1, <3>1 DEF RequestType
      <4>2. q.step = "next" /\ q.slug = NoSlug
        BY <2>1, <2>9, <3>1, ShapeFields DEF Retry, At
      <4>. HIDE DEF m, n, q
      <4>3. Shape(m) /\ Shape(n)
        BY <3>1, <4>1, <4>2 DEF Shape
      <4>. QED
        BY <4>1, <4>3 DEF m, n
    <3>3. request' \in [Clients -> RequestType] /\ \A d \in Clients : Shape(request'[d])
      BY <1>4, <1>5, <2>9, <3>2 DEF Retry
    <3>. QED
      BY <2>9, <3>1, <3>3 DEF Retry
  <2>. QED
    BY <1>11, <2>2, <2>3, <2>4, <2>5, <2>6, <2>7, <2>8, <2>9 DEF Progress
<1>12. ASSUME NEW c \in Clients, PullFails(c) \/ SaveFails(c) \/ StartFails(c)
       PROVE  TasksTyped'
  BY <1>1, <1>2, <1>5, <1>12 DEF PullFails, SaveFails, StartFails, storeVars, RequestType
<1>13. CASE Tick \/ EnsureTool \/ SessionExits
  BY <1>1, <1>2, <1>3, <1>13 DEF Tick, EnsureTool, SessionExits, storeVars, Open, Names
<1>. QED
  BY <1>1, <1>6, <1>7, <1>9, <1>10, <1>11, <1>12, <1>13 DEF TasksNext

\* The loop that EnsurePolling starts.
Fresh == [Off EXCEPT !.st = "top"]
Starts(ls, l) ==
  /\ ls[l].st = "off" /\ poll' = l /\ loops' = [ls EXCEPT ![l] = Fresh]
  /\ Overlaps \/ reset = 0
LEMMA EnsureEffects ==
  ASSUME NEW ls, NEW p, NEW arm, NEW file, EnsurePolling(ls, p, arm, file)
  PROVE  \/ loops' = ls /\ poll' = p
         \/ ~IsRunning(ls, p) /\ \E l \in Loops : Starts(ls, l)
BY DEF EnsurePolling, Starts, Fresh

LEMMA FreshIsTyped ==
  /\ Fresh \in LoopType /\ Off \in LoopType
  /\ Fresh.batch = <<>> /\ Fresh.st = "top" /\ ~Fresh.aborted
  /\ Off.batch = <<>> /\ Off.st = "off" /\ ~Off.aborted
<1>1. Off = [st |-> "off", aborted |-> FALSE, batch |-> <<>>, copy |-> 0]
  BY DEF Off
<1>2. <<>> \in Seq(Messages)
  OBVIOUS
<1>3. Off \in LoopType /\ Off.batch = <<>> /\ Off.st = "off" /\ ~Off.aborted
  BY <1>1, <1>2 DEF LoopType
<1>4. ASSUME NEW o \in LoopType
      PROVE  LET n == [o EXCEPT !.st = "top"]
             IN  n \in LoopType /\ n.st = "top" /\ n.batch = o.batch /\ n.aborted = o.aborted
  BY DEF LoopType
<1>. QED
  BY <1>3, <1>4 DEF Fresh

\* What a loop holds of the messages.
Holds(lp, size) ==
  /\ \A i \in 1..Len(lp.batch) : lp.batch[i] <= size
  /\ lp.st = "closing" => lp.copy \in SettingsType /\ lp.copy.cursor <= size
LoopsTyped(ls) == ls \in [Loops -> LoopType] /\ \A l \in Loops : Holds(ls[l], Len(sent))

LEMMA EnsureTyped ==
  ASSUME NEW ls, LoopsTyped(ls), NEW p \in Loops \union {0}, NEW arm, NEW file,
         EnsurePolling(ls, p, arm, file), sent' = sent
  PROVE  LoopsTyped(loops)' /\ poll' \in Loops \union {0}
<1>1. CASE loops' = ls /\ poll' = p
  BY <1>1 DEF LoopsTyped
<1>2. CASE \E l \in Loops : Starts(ls, l)
  <2>1. PICK l \in Loops : Starts(ls, l)
    BY <1>2
  <2>2. Holds(Fresh, Len(sent))
    BY FreshIsTyped DEF Holds
  <2>. QED
    BY <2>1, <2>2, FreshIsTyped DEF LoopsTyped, Starts
<1>. QED
  BY <1>1, <1>2, EnsureEffects

LEMMA AbortedTyped ==
  ASSUME LoopsTyped(loops), poll \in Loops \union {0}
  PROVE  LoopsTyped(Aborted)
<1>1. CASE poll = 0
  BY <1>1 DEF Aborted
<1>2. CASE poll # 0
  <2>. DEFINE lp == [loops[poll] EXCEPT !.aborted = TRUE]
  <2>1. loops[poll] \in LoopType /\ Holds(loops[poll], Len(sent))
    BY <1>2 DEF LoopsTyped
  <2>2. /\ lp \in LoopType /\ lp.batch = loops[poll].batch /\ lp.st = loops[poll].st
        /\ lp.copy = loops[poll].copy
    BY <2>1 DEF LoopType
  <2>3. Aborted = [loops EXCEPT ![poll] = lp]
    BY <1>2, <2>1 DEF Aborted, LoopType
  <2>. HIDE DEF lp
  <2>4. Holds(lp, Len(sent))
    BY <2>1, <2>2 DEF Holds
  <2>. QED
    BY <1>2, <2>2, <2>3, <2>4 DEF LoopsTyped
<1>. QED
  BY <1>1, <1>2

LEMMA ChannelParts ==
  ASSUME ChannelTyped
  PROVE  /\ LoopsTyped(loops) /\ 0 \notin Loops /\ Loops \subseteq Nat
         /\ settings.account \in BOOLEAN /\ settings.on \in BOOLEAN
BY GatewayAssumption DEF ChannelTyped, LoopsTyped, Holds, SettingsType

\* The settings after a reset, and after an edit of the desktop.
LEMMA FileTyped ==
  ASSUME NEW file \in SettingsType
  PROVE  /\ ResetFile(file) \in SettingsType /\ ResetFile(file).cursor = 0
         /\ \A on \in BOOLEAN : [file EXCEPT !.on = on] \in SettingsType
         /\ \A account \in BOOLEAN : [file EXCEPT !.account = account] \in SettingsType
         /\ \A n \in Nat : [file EXCEPT !.pushed = n] \in SettingsType
         /\ \A n \in Nat : [file EXCEPT !.cursor = n] \in SettingsType
         /\ \A s \in Names : [file EXCEPT !.confirm = s] \in SettingsType
         /\ \A m \in Messages : [file EXCEPT !.seen = @ \union {m}] \in SettingsType
BY GatewayAssumption DEF SettingsType, ResetFile, Names

DeskStep == Arm \/ Disarm \/ GetStatus \/ ResetBinding \/ Login \/ Switch \/ Send

LEMMA DeskStepsAreTyped ==
  ASSUME Typed, DeskStep
  PROVE  Typed'
<1>. DEFINE Rest == /\ record' = record /\ worktree' = worktree /\ branch' = branch
                    /\ orphaned' = orphaned /\ live' = live /\ request' = request
                    /\ coordinator' = coordinator /\ up' = up /\ plan' = plan
                    /\ used' \in [DOMAIN plan -> Nat]
<1>1. TasksTyped /\ ChannelTyped /\ PushTyped /\ plan \in Plans /\ used \in [DOMAIN plan -> Nat]
  BY DEF Typed, TasksTyped
<1>2. /\ plan.kinds \subseteq Kinds /\ plan.slugs \subseteq Slugs
      /\ {"arms", "disarms", "resets", "switches", "messages"} \subseteq DOMAIN plan
  BY <1>1, PlanFields
<1>3. ASSUME NEW what \in {"arms", "disarms", "resets", "switches", "messages"}, Spend(what)
      PROVE  used' \in [DOMAIN plan -> Nat]
  BY <1>1, <1>2, <1>3, SpendCounts
<1>4. Rest /\ replies' = replies /\ push' = push /\ pushed' = pushed /\ ran' = ran
  BY <1>1, <1>3 DEF DeskStep, Arm, Disarm, GetStatus, ResetBinding, Login, Switch, Send, taskVars, storeVars
<1>5. TasksTyped'
  BY <1>1, <1>4 DEF TasksTyped
<1>6. PushTyped'
  BY <1>1, <1>4 DEF PushTyped
<1>. SUFFICES ChannelTyped'
  BY <1>5, <1>6 DEF Typed
<1>7. /\ LoopsTyped(loops) /\ LoopsTyped(Aborted) /\ settings \in SettingsType
      /\ poll \in Loops \union {0} /\ reset \in Loops \union {0} /\ armed \in BOOLEAN
      /\ since \in 0..Len(sent) /\ settings.cursor \in 0..Len(sent) /\ Len(sent) \in Nat
  BY <1>1, ChannelParts, AbortedTyped DEF ChannelTyped
<1>8. ASSUME NEW file \in SettingsType, NEW arm \in BOOLEAN, EnsurePolling(loops, poll, arm, file),
             sent' = sent, since' = since, reset' = reset, settings' = file,
             file.cursor = settings.cursor, armed' \in BOOLEAN
      PROVE  ChannelTyped'
  BY <1>1, <1>4, <1>7, <1>8, EnsureTyped DEF ChannelTyped, LoopsTyped, Holds, Sendable
<1>9. ASSUME LoopsTyped(loops)', sent' = sent, reset' \in Loops \union {0}, poll' = poll,
             armed' \in BOOLEAN, since' \in 0..Len(sent), settings' \in SettingsType,
             settings'.cursor \in 0..Len(sent)
      PROVE  ChannelTyped'
  BY <1>1, <1>4, <1>9 DEF ChannelTyped, LoopsTyped, Holds, Sendable
<1>10. CASE Arm
  BY <1>7, <1>8, <1>10 DEF Arm
<1>11. CASE Disarm
  BY <1>7, <1>9, <1>11 DEF Disarm, LoopsTyped
<1>12. CASE GetStatus
  BY <1>7, <1>8, <1>12 DEF GetStatus
<1>13. CASE ResetBinding
  <2>2. CASE poll = 0
    <3>1. Resets(settings) /\ UNCHANGED <<loops, sent, poll>>
      BY <1>13, <2>2 DEF ResetBinding
    <3>2. ResetFile(settings) \in SettingsType /\ ResetFile(settings).cursor \in 0..Len(sent)
      BY <1>7, FileTyped
    <3>3. LoopsTyped(loops)'
      BY <1>7, <3>1 DEF LoopsTyped
    <3>4. reset' = 0 /\ armed' = FALSE /\ since' \in 0..Len(sent) /\ settings' = ResetFile(settings)
      BY <1>7, <3>1 DEF Resets
    <3>. QED
      BY <1>9, <3>1, <3>2, <3>3, <3>4
  <2>3. CASE poll # 0
    BY <1>7, <1>9, <1>13, <2>3 DEF ResetBinding, LoopsTyped
  <2>. QED
    BY <2>2, <2>3
<1>14. CASE Login
  <2>. DEFINE file == [settings EXCEPT !.account = TRUE]
  <2>1. file \in SettingsType /\ file.cursor = settings.cursor
    BY <1>7 DEF SettingsType
  <2>. QED
    BY <1>7, <1>8, <1>14, <2>1 DEF Login
<1>15. CASE Switch
  <2>. DEFINE file == [settings EXCEPT !.on = ~@]
  <2>1. file \in SettingsType /\ file.cursor = settings.cursor
    BY <1>7 DEF SettingsType
  <2>. QED
    BY <1>7, <1>8, <1>15, <2>1 DEF Switch
<1>16. CASE Send
  <2>1. PICK k \in plan.kinds, s \in Names :
          sent' = Append(sent, [kind |-> k, slug |-> s]) /\ (k \in {"create", "confirm"} => s \in Slugs)
    BY <1>2, <1>16 DEF Send, Names
  <2>. DEFINE m == [kind |-> k, slug |-> s]
  <2>2. m \in [kind : Kinds, slug : Names] /\ Sendable(m)'
    BY <1>2, <1>4, <2>1 DEF Sendable
  <2>3. /\ sent \in Seq([kind : Kinds, slug : Names]) /\ Len(sent) \in Nat
        /\ Len(sent) < MaxMessages /\ MaxMessages \in Nat
    BY <1>1, <1>16, GatewayAssumption DEF Send, ChannelTyped
  <2>. HIDE DEF m
  <2>4. /\ sent' \in Seq([kind : Kinds, slug : Names]) /\ Len(sent') = Len(sent) + 1
        /\ \A i \in 1..Len(sent) : sent'[i] = sent[i]
        /\ sent'[Len(sent) + 1] = m
    BY <2>1, <2>2, <2>3 DEF m
  <2>5. \A i \in 1..Len(sent') : Sendable(sent[i])'
    <3>1. \A i \in 1..Len(sent) : Sendable(sent[i])'
      BY <1>1, <1>4, <2>4 DEF ChannelTyped, Sendable
    <3>2. ASSUME NEW i \in 1..Len(sent'), i = Len(sent) + 1
          PROVE  Sendable(sent[i])'
      BY <2>2, <2>4, <3>2 DEF Sendable
    <3>. QED
      BY <2>2, <2>3, <2>4, <3>1, <3>2
  <2>6. UNCHANGED <<armed, loops, poll, reset, settings, since, ran>>
    BY <1>16 DEF Send
  <2>7. \A l \in Loops : loops[l] \in LoopType
    BY <1>7 DEF LoopsTyped
  <2>8. \A l \in Loops : Holds(loops[l], Len(sent) + 1)
    <3>. SUFFICES ASSUME NEW l \in Loops PROVE Holds(loops[l], Len(sent) + 1)
      OBVIOUS
    <3>1. Holds(loops[l], Len(sent)) /\ loops[l].batch \in Seq(Messages) /\ Len(sent) \in Nat
      BY <1>7, <2>3, <2>7 DEF LoopsTyped, LoopType
    <3>2. \A i \in 1..Len(loops[l].batch) : loops[l].batch[i] \in Nat
      BY <3>1, GatewayAssumption DEF Messages
    <3>3. \A file \in SettingsType : file.cursor \in Nat
      BY DEF SettingsType
    <3>. QED
      BY <3>1, <3>2, <3>3 DEF Holds
  <2>. QED
    <3>1. /\ loops' \in [Loops -> LoopType] /\ poll' \in Loops \union {0} /\ reset' \in Loops \union {0}
          /\ settings' \in SettingsType /\ armed' \in BOOLEAN /\ ran' \in [Messages -> Nat]
          /\ since' \in 0..Len(sent') /\ settings'.cursor \in 0..Len(sent') /\ Len(sent') <= MaxMessages
      BY <1>1, <2>3, <2>4, <2>6 DEF ChannelTyped
    <3>2. \A l \in Loops : Holds(loops'[l], Len(sent'))
      BY <2>4, <2>6, <2>8
    <3>. QED
      BY <2>4, <2>5, <3>1, <3>2 DEF ChannelTyped, Holds
<1>. QED
  BY <1>10, <1>11, <1>12, <1>13, <1>14, <1>15, <1>16 DEF DeskStep

(***************************************************************************)
(* The poll loop: what its steps do to the loops and the file.             *)
(***************************************************************************)
LEMMA LoopFields ==
  ASSUME NEW lp \in LoopType
  PROVE  /\ \A st \in {"off", "top", "polling", "batch", "plain", "creating"} :
              LET n == [lp EXCEPT !.st = st]
              IN  /\ n \in LoopType /\ n.st = st /\ n.batch = lp.batch
                  /\ n.aborted = lp.aborted /\ n.copy = lp.copy
         /\ lp.batch # <<>> =>
              /\ Head(lp.batch) \in Messages /\ Head(lp.batch) = lp.batch[1]
              /\ 1 \in 1..Len(lp.batch)
              /\ Tail(lp.batch) \in Seq(Messages)
              /\ Len(Tail(lp.batch)) = Len(lp.batch) - 1
              /\ \A i \in 1..Len(Tail(lp.batch)) : /\ i + 1 \in 1..Len(lp.batch)
                                                   /\ Tail(lp.batch)[i] = lp.batch[i + 1]
<1>1. lp.batch \in Seq(Messages)
  BY DEF LoopType
<1>. QED
  BY <1>1 DEF LoopType

\* The loop l is replaced by lp.
Becomes(l, lp) == loops' = [loops EXCEPT ![l] = lp]

LEMMA BecomesTyped ==
  ASSUME LoopsTyped(loops), NEW l \in Loops, NEW lp \in LoopType, Holds(lp, Len(sent)),
         Becomes(l, lp), sent' = sent
  PROVE  LoopsTyped(loops)'
BY DEF LoopsTyped, Becomes

LEMMA GoesTyped ==
  ASSUME LoopsTyped(loops), NEW l \in Loops,
         NEW st \in {"off", "top", "polling", "batch", "plain", "creating"}, Goes(l, st), sent' = sent
  PROVE  LoopsTyped(loops)'
<1>. DEFINE lp == [loops[l] EXCEPT !.st = st]
<1>1. /\ loops[l] \in LoopType /\ Holds(loops[l], Len(sent))
      /\ lp \in LoopType /\ lp.st = st /\ lp.batch = loops[l].batch
  BY LoopFields DEF LoopsTyped
<1>2. Becomes(l, lp)
  BY <1>1 DEF Goes, Becomes, LoopsTyped
<1>. HIDE DEF lp
<1>3. Holds(lp, Len(sent))
  BY <1>1 DEF Holds
<1>. QED
  BY <1>1, <1>2, <1>3, BecomesTyped

\* The loop l goes on with the rest of its batch.
LEMMA HandledTyped ==
  ASSUME LoopsTyped(loops), NEW l \in Loops, loops[l].batch # <<>>,
         NEW st \in {"batch", "plain", "creating", "closing"},
         NEW lp \in LoopType, Becomes(l, lp), sent' = sent,
         lp.batch = Tail(loops[l].batch), lp.st = st,
         st = "closing" => lp.copy \in SettingsType /\ lp.copy.cursor <= Len(sent)
  PROVE  LoopsTyped(loops)'
<1>1. loops[l] \in LoopType /\ Holds(loops[l], Len(sent))
  BY DEF LoopsTyped
<1>2. Holds(lp, Len(sent))
  BY <1>1, LoopFields DEF Holds
<1>. QED
  BY <1>2, BecomesTyped

LEMMA EndsTyped ==
  ASSUME ChannelTyped, NEW l \in Loops, NEW file \in SettingsType, file.cursor \in 0..Len(sent),
         Ends(l, file), sent' = sent
  PROVE  /\ LoopsTyped(loops)' /\ poll' \in Loops \union {0} /\ reset' \in Loops \union {0}
         /\ settings' \in SettingsType /\ settings'.cursor \in 0..Len(sent)
         /\ since' \in 0..Len(sent) /\ armed' \in BOOLEAN
<1>1. LoopsTyped(loops) /\ Becomes(l, Off) /\ Holds(Off, Len(sent))
  BY ChannelParts, FreshIsTyped DEF Ends, Becomes, Holds
<1>2. LoopsTyped(loops)'
  BY <1>1, BecomesTyped, FreshIsTyped
<1>3. Len(sent) \in Nat /\ since \in 0..Len(sent) /\ armed \in BOOLEAN /\ reset \in Loops \union {0}
      /\ poll \in Loops \union {0}
  BY DEF ChannelTyped
<1>4. poll' \in Loops \union {0}
  BY <1>3 DEF Ends
<1>5. CASE reset = l
  <2>1. settings' = ResetFile(file) /\ armed' = FALSE /\ since' = Len(sent) /\ reset' = 0
    BY <1>5, Zenon DEF Ends, Resets
  <2>2. ResetFile(file) \in SettingsType /\ ResetFile(file).cursor = 0
    BY FileTyped
  <2>3. Len(sent) \in 0..Len(sent) /\ 0 \in 0..Len(sent)
    BY <1>3
  <2>. QED
    BY <1>2, <1>4, <2>1, <2>2, <2>3
<1>6. CASE reset # l
  <2>1. settings' = file /\ UNCHANGED <<armed, since, reset>>
    BY <1>6, Zenon DEF Ends
  <2>. QED
    BY <1>2, <1>3, <1>4, <2>1
<1>. QED
  BY <1>5, <1>6

\* A message that a loop takes is one the phone has sent.
LEMMA TakenIsSent ==
  ASSUME ChannelTyped, NEW l \in Loops, loops[l].batch # <<>>
  PROVE  LET m == Head(loops[l].batch)
         IN  m \in Messages /\ m \in 1..Len(sent) /\ Sendable(sent[m])
<1>1. loops[l] \in LoopType /\ Holds(loops[l], Len(sent))
  BY ChannelParts DEF LoopsTyped
<1>2. Head(loops[l].batch) \in Messages /\ Head(loops[l].batch) <= Len(sent)
  <2>1. /\ Head(loops[l].batch) \in Messages /\ Head(loops[l].batch) = loops[l].batch[1]
        /\ 1 \in 1..Len(loops[l].batch)
    BY <1>1, LoopFields
  <2>. QED
    BY <1>1, <2>1 DEF Holds
<1>3. Len(sent) \in Nat /\ MaxMessages \in Nat
  BY GatewayAssumption DEF ChannelTyped
<1>. QED
  BY <1>2, <1>3 DEF ChannelTyped, Messages

LEMMA NotedTyped ==
  ASSUME ChannelTyped, NEW l \in Loops, loops[l].batch # <<>>
  PROVE  Noted(l) \in SettingsType /\ Noted(l).cursor = settings.cursor /\ Noted(l).on = settings.on
<1>1. Head(loops[l].batch) \in Messages
  BY TakenIsSent
<1>2. settings \in SettingsType
  BY DEF ChannelTyped
<1>. QED
  BY <1>1, <1>2 DEF Noted, SettingsType

LEMMA ClosesTyped ==
  ASSUME TasksTyped, NEW c \in Clients, NEW s \in Slugs, Closes(c, s)
  PROVE  /\ request' \in [Clients -> RequestType] /\ \A d \in Clients : Shape(request'[d])
         /\ record' \in [Slugs -> {"none", "open", "closed"}]
<1>. DEFINE q == [Idle EXCEPT !.op = "close", !.step = "stop", !.slug = s]
<1>1. q \in RequestType /\ Shape(q)
  BY DEF Idle, RequestType, Shape, Names
<1>2. Set(c, q)
  BY DEF Closes
<1>3. record' \in [Slugs -> {"none", "open", "closed"}]
  BY DEF Closes, TasksTyped
<1>. QED
  BY <1>1, <1>2, <1>3, SetTyped

LEMMA CreatesTyped ==
  ASSUME TasksTyped, NEW c \in Clients, NEW s \in Slugs, NEW then \in SUBSET Roles, Creates(c, s, then)
  PROVE  request' \in [Clients -> RequestType] /\ \A d \in Clients : Shape(request'[d])
<1>. DEFINE q == [Idle EXCEPT !.op = "create", !.step = "pulled", !.slug = s, !.todo = then]
<1>1. q \in RequestType /\ Shape(q)
  BY DEF Idle, RequestType, Shape, Names
<1>2. Set(c, q)
  BY DEF Creates
<1>. QED
  BY <1>1, <1>2, SetTyped

LoopStep(l) == LoopSteps(l) \/ Receive(l) \/ SessionExpires(l)

LEMMA LoopStepsAreTyped ==
  ASSUME Typed, NEW l \in Loops, LoopStep(l)
  PROVE  Typed'
<1>1. TasksTyped /\ ChannelTyped /\ PushTyped /\ plan \in Plans /\ used \in [DOMAIN plan -> Nat]
  BY DEF Typed, TasksTyped
<1>2. Phone \in Clients /\ "faults" \in DOMAIN plan
  BY <1>1, PlanFields, GatewayAssumption
<1>3. /\ LoopsTyped(loops) /\ settings \in SettingsType /\ loops[l] \in LoopType /\ Holds(loops[l], Len(sent))
      /\ poll \in Loops \union {0} /\ reset \in Loops \union {0} /\ armed \in BOOLEAN
      /\ since \in 0..Len(sent) /\ settings.cursor \in 0..Len(sent) /\ Len(sent) \in Nat
      /\ ran \in [Messages -> Nat]
  BY <1>1, ChannelParts DEF ChannelTyped, LoopsTyped
<1>4. UNCHANGED <<sent, replies, push, pushed, plan>>
  BY DEF LoopStep, LoopSteps, LoopTop, PollReturns, BatchEnds, Dropped, TakePlain, PlainEnds, TakeCreate,
     CreateEnds, TakeClose, TakeConfirm, CloseEnds, TakeStart, Receive, SessionExpires, taskVars
<1>5. PushTyped'
  BY <1>1, <1>4 DEF PushTyped
\* What is left to show of a step.
<1>. DEFINE Channel == /\ LoopsTyped(loops)' /\ poll' \in Loops \union {0} /\ reset' \in Loops \union {0}
                       /\ settings' \in SettingsType /\ settings'.cursor \in 0..Len(sent)
                       /\ since' \in 0..Len(sent) /\ armed' \in BOOLEAN
                       /\ ran' \in [Messages -> Nat]
<1>6. ASSUME Channel, TasksTyped' PROVE Typed'
  BY <1>1, <1>4, <1>5, <1>6 DEF Typed, ChannelTyped, LoopsTyped, Holds, Sendable
<1>7. UNCHANGED taskVars => TasksTyped'
  BY <1>1 DEF TasksTyped, taskVars, storeVars
<1>8. ASSUME UNCHANGED taskVars, UNCHANGED ran, NEW file \in SettingsType, file.cursor \in 0..Len(sent), Ends(l, file)
      PROVE  Typed'
  BY <1>1, <1>3, <1>4, <1>6, <1>7, <1>8, EndsTyped
<1>9. ASSUME UNCHANGED <<taskVars, ran, poll, armed, since, reset, settings>>,
             NEW st \in {"top", "polling", "batch"}, Goes(l, st)
      PROVE  Typed'
  BY <1>3, <1>4, <1>6, <1>7, <1>9, GoesTyped
<1>10. CASE LoopTop(l)
  BY <1>3, <1>8, <1>9, <1>10 DEF LoopTop
<1>11. CASE PollReturns(l)
  BY <1>3, <1>8, <1>9, <1>11 DEF PollReturns
<1>12. CASE BatchEnds(l)
  BY <1>3, <1>8, <1>9, <1>12 DEF BatchEnds
<1>13. CASE PlainEnds(l) \/ CreateEnds(l)
  BY <1>9, <1>13 DEF PlainEnds, CreateEnds
<1>14. CASE SessionExpires(l)
  <2>. DEFINE file == [settings EXCEPT !.on = FALSE, !.account = Lark, !.cursor = 0]
  <2>1. file \in SettingsType /\ file.cursor \in 0..Len(sent)
    <3>1. file \in SettingsType /\ file.cursor = 0
      BY <1>3, GatewayAssumption DEF SettingsType
    <3>. HIDE DEF file
    <3>. QED
      BY <1>3, <3>1
  <2>2. Channel
    BY <1>1, <1>3, <1>4, <1>14, <2>1, EndsTyped DEF SessionExpires
  <2>3. TasksTyped'
    BY <1>1, <1>2, <1>14, SpendCounts DEF SessionExpires, TasksTyped, storeVars
  <2>. QED
    BY <1>6, <2>2, <2>3
<1>15. CASE Receive(l)
  <2>1. /\ settings' = [settings EXCEPT !.cursor = Len(sent)]
        /\ UNCHANGED <<armed, poll, reset, since, ran>>
        /\ UNCHANGED <<storeVars, live, request, coordinator, up, plan>>
    BY <1>15 DEF Receive
  <2>2. settings' \in SettingsType /\ settings'.cursor \in 0..Len(sent)
    <3>1. settings' \in SettingsType /\ settings'.cursor = Len(sent)
      BY <1>3, <2>1 DEF SettingsType
    <3>. QED
      BY <1>3, <3>1
  <2>3. PICK first \in 0..Len(sent) :
          /\ loops' = [loops EXCEPT ![l].st = "batch", ![l].batch = [i \in 1..(Len(sent) - first) |-> first + i]]
          /\ UNCHANGED used \/ Spend("faults")
    <3>1. \A a, b : (IF a > b THEN a ELSE b) \in {a, b}
      OBVIOUS
    <3>. QED
      BY <1>3, <1>15, <3>1 DEF Receive
  <2>. DEFINE batch == [i \in 1..(Len(sent) - first) |-> first + i]
              lp == [loops[l] EXCEPT !.st = "batch", !.batch = batch]
  <2>4. /\ batch \in Seq(Messages) /\ Len(batch) = Len(sent) - first
        /\ \A i \in 1..Len(batch) : batch[i] <= Len(sent)
    <3>1. Len(sent) - first \in Nat /\ Len(sent) <= MaxMessages /\ MaxMessages \in Nat
      BY <1>1, <1>3, GatewayAssumption DEF ChannelTyped
    <3>2. \A i \in 1..(Len(sent) - first) : first + i \in Messages /\ first + i <= Len(sent)
      BY <1>3, <3>1 DEF Messages
    <3>. QED
      BY <3>1, <3>2
  <2>. HIDE DEF batch
  <2>5. lp \in LoopType /\ lp.batch = batch /\ lp.st = "batch"
    BY <1>3, <2>4 DEF LoopType
  <2>6. Becomes(l, lp)
    BY <1>3, <2>3 DEF Becomes, LoopsTyped, batch
  <2>. HIDE DEF lp
  <2>7. LoopsTyped(loops)'
    BY <1>3, <1>4, <2>4, <2>5, <2>6, BecomesTyped DEF Holds
  <2>8. TasksTyped'
    BY <1>1, <1>2, <2>1, <2>3, SpendCounts DEF TasksTyped, storeVars
  <2>. QED
    BY <1>3, <1>6, <2>1, <2>2, <2>7, <2>8
<1>16. CASE Dropped(l)
  <2>. DEFINE lp == [loops[l] EXCEPT !.batch = Tail(@)]
  <2>1. loops[l].batch # <<>> /\ Becomes(l, lp) /\ loops[l].st = "batch"
    BY <1>3, <1>16 DEF Dropped, Becomes, LoopsTyped
  <2>2. lp \in LoopType /\ lp.batch = Tail(loops[l].batch) /\ lp.st = "batch"
    BY <1>3, <2>1, LoopFields DEF LoopType
  <2>3. LoopsTyped(loops)'
    BY <1>3, <1>4, <2>1, <2>2, HandledTyped
  <2>. QED
    BY <1>3, <1>6, <1>7, <1>16, <2>3 DEF Dropped
<1>17. ASSUME NEW kind, Takes(l, kind)
       PROVE  /\ loops[l].batch # <<>> /\ Noted(l) \in SettingsType /\ Noted(l).cursor \in 0..Len(sent)
              /\ ran' \in [Messages -> Nat]
              /\ kind \in {"create", "confirm"} => SlugOf(l) \in Slugs
              /\ loops[l].st = "batch"
  <2>1. loops[l].batch # <<>> /\ loops[l].st = "batch" /\ sent[Head(loops[l].batch)].kind = kind
        /\ ran' = [ran EXCEPT ![Head(loops[l].batch)] = @ + 1]
    BY <1>17 DEF Takes
  <2>2. Head(loops[l].batch) \in Messages /\ Sendable(sent[Head(loops[l].batch)])
    BY <1>1, <2>1, TakenIsSent
  <2>. QED
    BY <1>1, <1>3, <2>1, <2>2, NotedTyped DEF Sendable, SlugOf
<1>18. ASSUME NEW st \in {"batch", "plain", "creating"}, Handled(l, st), loops[l].batch # <<>>
       PROVE  LoopsTyped(loops)'
  <2>. DEFINE lp == [loops[l] EXCEPT !.batch = Tail(@), !.st = st]
  <2>1. Becomes(l, lp)
    BY <1>3, <1>18 DEF Handled, Becomes, LoopsTyped
  <2>2. lp \in LoopType /\ lp.batch = Tail(loops[l].batch) /\ lp.st = st
    BY <1>3, <1>18, LoopFields DEF LoopType
  <2>. QED
    BY <1>3, <1>4, <1>18, <2>1, <2>2, HandledTyped
<1>19. CASE TakePlain(l)
  BY <1>3, <1>6, <1>7, <1>17, <1>18, <1>19 DEF TakePlain
<1>20. CASE TakeCreate(l)
  <2>1. ran' \in [Messages -> Nat] /\ SlugOf(l) \in Slugs
        /\ Noted(l) \in SettingsType /\ Noted(l).cursor \in 0..Len(sent) /\ loops[l].batch # <<>>
    BY <1>17, <1>20 DEF TakeCreate
  <2>2. settings' = Noted(l) /\ LoopsTyped(loops)'
    BY <1>18, <1>20, <2>1 DEF TakeCreate, Refused
  <2>3. request' \in [Clients -> RequestType] /\ \A d \in Clients : Shape(request'[d])
    BY <1>1, <1>2, <1>20, <2>1, CreatesTyped DEF TakeCreate, TasksTyped
  <2>4. TasksTyped'
    BY <1>1, <1>20, <2>3 DEF TakeCreate, TasksTyped, storeVars
  <2>. QED
    BY <1>3, <1>6, <1>20, <2>1, <2>2, <2>4 DEF TakeCreate
<1>21. CASE TakeClose(l)
  <2>1. ran' \in [Messages -> Nat] /\ loops[l].batch # <<>>
        /\ Noted(l) \in SettingsType /\ Noted(l).cursor \in 0..Len(sent)
    BY <1>17, <1>21 DEF TakeClose
  <2>2. LoopsTyped(loops)'
    BY <1>18, <1>21, <2>1 DEF TakeClose, Refused
  <2>3. \A s \in Open : LET file == [Noted(l) EXCEPT !.confirm = s]
                        IN  file \in SettingsType /\ file.cursor = Noted(l).cursor
    BY <2>1 DEF SettingsType, Open, Names
  <2>4. settings' \in SettingsType /\ settings'.cursor \in 0..Len(sent)
    BY <1>21, <2>1, <2>3 DEF TakeClose, Refused
  <2>. QED
    BY <1>3, <1>6, <1>7, <1>21, <2>1, <2>2, <2>4 DEF TakeClose
<1>22. CASE TakeConfirm(l)
  <2>1. ran' \in [Messages -> Nat] /\ SlugOf(l) \in Slugs
        /\ Noted(l) \in SettingsType /\ Noted(l).cursor \in 0..Len(sent) /\ loops[l].batch # <<>>
    BY <1>17, <1>22 DEF TakeConfirm
  <2>. DEFINE lp == [loops[l] EXCEPT !.batch = Tail(@), !.st = "closing", !.copy = Noted(l)]
  <2>2. /\ settings' = Noted(l) /\ (Handled(l, "batch") \/ Becomes(l, lp))
        /\ UNCHANGED <<request, record>> \/ Closes(Phone, SlugOf(l))
    BY <1>3, <1>22 DEF TakeConfirm, Refused, Becomes, LoopsTyped
  <2>3. /\ lp \in LoopType /\ lp.batch = Tail(loops[l].batch) /\ lp.st = "closing" /\ lp.copy = Noted(l)
    BY <1>3, <2>1, LoopFields DEF LoopType
  <2>4. LoopsTyped(loops)'
    <3>1. ASSUME Becomes(l, lp) PROVE LoopsTyped(loops)'
      <4>. HIDE DEF lp
      <4>. QED
        BY <1>3, <1>4, <2>1, <2>3, <3>1, HandledTyped
    <3>. QED
      BY <1>18, <2>1, <2>2, <3>1
  <2>5. /\ request' \in [Clients -> RequestType] /\ \A d \in Clients : Shape(request'[d])
        /\ record' \in [Slugs -> {"none", "open", "closed"}]
    BY <1>1, <1>2, <2>1, <2>2, ClosesTyped DEF TasksTyped
  <2>6. TasksTyped'
    BY <1>1, <1>22, <2>5 DEF TakeConfirm, TasksTyped
  <2>. QED
    BY <1>3, <1>6, <1>22, <2>1, <2>2, <2>4, <2>6 DEF TakeConfirm
<1>23. CASE CloseEnds(l)
  <2>. DEFINE lp == [loops[l] EXCEPT !.st = "batch", !.copy = 0]
              file == [loops[l].copy EXCEPT !.confirm = NoSlug]
  <2>1. loops[l].copy \in SettingsType /\ loops[l].copy.cursor <= Len(sent)
    BY <1>3, <1>23 DEF CloseEnds, Holds
  <2>2. file \in SettingsType /\ file.cursor \in 0..Len(sent)
    BY <1>3, <2>1 DEF SettingsType, Names
  <2>3. lp \in LoopType /\ lp.st = "batch" /\ lp.batch = loops[l].batch
    BY <1>3 DEF LoopType
  <2>4. Becomes(l, lp) /\ settings' = file
    BY <1>3, <1>23 DEF CloseEnds, Becomes, LoopsTyped
  <2>. HIDE DEF lp, file
  <2>5. LoopsTyped(loops)'
    BY <1>3, <1>4, <2>3, <2>4, BecomesTyped DEF Holds
  <2>. QED
    BY <1>3, <1>6, <1>7, <1>23, <2>2, <2>4, <2>5 DEF CloseEnds
<1>24. CASE TakeStart(l)
  <2>1. ran' \in [Messages -> Nat] /\ loops[l].batch # <<>> /\ loops[l].st = "batch"
        /\ Noted(l) \in SettingsType /\ Noted(l).cursor \in 0..Len(sent)
    BY <1>17, <1>24 DEF TakeStart
  <2>. DEFINE lp == [loops[l] EXCEPT !.batch = Tail(@)]
              gone == [loops EXCEPT ![l] = lp]
              file == [Noted(l) EXCEPT !.on = TRUE]
  <2>2. file \in SettingsType /\ file.cursor = Noted(l).cursor
    BY <2>1 DEF SettingsType
  <2>3. lp \in LoopType /\ lp.batch = Tail(loops[l].batch) /\ lp.st = "batch"
    BY <1>3, <2>1, LoopFields DEF LoopType
  <2>4. [loops EXCEPT ![l].batch = Tail(@)] = gone
    BY <1>3 DEF LoopsTyped
  <2>5. \/ settings' = Noted(l) /\ loops' = gone /\ poll' = poll
        \/ settings' = file /\ EnsurePolling(gone, poll, armed, file)
    BY <1>24, <2>4 DEF TakeStart
  <2>. HIDE DEF lp, file
  <2>6. Holds(lp, Len(sent))
    <3>1. \A i \in 1..Len(Tail(loops[l].batch)) : /\ i + 1 \in 1..Len(loops[l].batch)
                                                  /\ Tail(loops[l].batch)[i] = loops[l].batch[i + 1]
      BY <1>3, <2>1, LoopFields
    <3>. QED
      BY <1>3, <2>3, <3>1 DEF Holds
  <2>7. LoopsTyped(gone)
    BY <1>3, <2>3, <2>6 DEF LoopsTyped
  <2>. HIDE DEF gone
  <2>8. LoopsTyped(loops)' /\ poll' \in Loops \union {0}
    BY <1>3, <1>4, <2>5, <2>7, EnsureTyped DEF LoopsTyped
  <2>. QED
    BY <1>3, <1>6, <1>7, <1>24, <2>1, <2>2, <2>5, <2>8 DEF TakeStart
<1>. QED
  BY <1>10, <1>11, <1>12, <1>13, <1>14, <1>15, <1>16, <1>19, <1>20, <1>21, <1>22, <1>23, <1>24
     DEF LoopStep, LoopSteps

PushStep == RoleStops \/ NotFinal \/ PushOriginal \/ PushEnds

LEMMA PushStepsAreTyped ==
  ASSUME Typed, PushStep
  PROVE  Typed'
<1>1. TasksTyped /\ ChannelTyped /\ PushTyped /\ plan \in Plans /\ used \in [DOMAIN plan -> Nat]
  BY DEF Typed, TasksTyped
<1>2. "stops" \in DOMAIN plan
  BY <1>1, PlanFields
<1>3. /\ UNCHANGED <<storeVars, live, request, coordinator, up, plan>>
      /\ UNCHANGED <<armed, loops, poll, reset, sent, since, ran>>
      /\ used' = used \/ Spend("stops")
      /\ settings' = settings \/ settings' = [settings EXCEPT !.pushed = push.event]
  BY DEF PushStep, RoleStops, NotFinal, PushOriginal, PushEnds, taskVars
<1>4. TasksTyped'
  BY <1>1, <1>2, <1>3, SpendCounts DEF TasksTyped, storeVars
<1>5. settings' \in SettingsType /\ settings'.cursor = settings.cursor
  <2>1. settings \in SettingsType /\ push.event \in Nat
    BY <1>1, GatewayAssumption DEF ChannelTyped, PushTyped
  <2>. QED
    BY <1>3, <2>1 DEF SettingsType
<1>6. ChannelTyped'
  BY <1>1, <1>3, <1>5 DEF ChannelTyped, Sendable
<1>7. PushTyped'
  <2>1. MaxReplies \in Nat
    BY GatewayAssumption
  <2>2. CASE RoleStops
    BY <1>1, <2>1, <2>2 DEF RoleStops, PushTyped
  <2>3. CASE NotFinal \/ PushEnds
    BY <1>1, <2>1, <2>3 DEF NotFinal, PushEnds, PushTyped, NoPush
  <2>4. CASE PushOriginal
    <3>1. CASE push' = NoPush /\ UNCHANGED <<replies, pushed>>
      BY <1>1, <2>1, <3>1 DEF PushTyped, NoPush
    <3>2. CASE /\ pushed' = [pushed EXCEPT ![push.event] = @ + 1] /\ replies' = replies
               /\ push' = [push EXCEPT !.st = "translating"]
      <4>1. push.event \in 1..MaxReplies
        BY <1>1, <2>4 DEF PushOriginal, PushTyped
      <4>2. push' \in [st : {"none", "waiting", "translating"}, event : 0..MaxReplies]
            /\ push'.st = "translating" /\ push'.event = push.event
        BY <1>1, <3>2 DEF PushTyped
      <4>3. pushed' \in [1..MaxReplies -> Nat]
        BY <1>1, <3>2, <4>1 DEF PushTyped
      <4>. QED
        BY <1>1, <3>2, <4>1, <4>2, <4>3 DEF PushTyped
    <3>. QED
      BY <2>4, <3>1, <3>2 DEF PushOriginal
  <2>. QED
    BY <2>2, <2>3, <2>4 DEF PushStep
<1>. QED
  BY <1>4, <1>6, <1>7 DEF Typed

LEMMA CrashIsTyped ==
  ASSUME Typed, GatewayCrash \/ Restart
  PROVE  Typed'
<1>1. TasksTyped /\ ChannelTyped /\ PushTyped /\ plan \in Plans /\ used \in [DOMAIN plan -> Nat]
  BY DEF Typed, TasksTyped
<1>2. "crashes" \in DOMAIN plan
  BY <1>1, PlanFields
<1>3. CASE Restart
  <2>1. TasksTyped'
    BY <1>1, <1>3 DEF Restart, TasksRestart, TasksTyped, storeVars
  <2>2. ChannelTyped' /\ PushTyped'
    BY <1>1, <1>3 DEF Restart, TasksRestart, gatewayVars, ChannelTyped, PushTyped, Sendable
  <2>. QED
    BY <2>1, <2>2 DEF Typed
<1>4. CASE GatewayCrash
  <2>1. used' \in [DOMAIN plan -> Nat]
    BY <1>1, <1>2, <1>4, SpendCounts DEF GatewayCrash, TasksCrash
  <2>2. orphaned' \in SUBSET Names
    BY <1>1, <1>4 DEF GatewayCrash, TasksCrash, TasksTyped, RequestType
  <2>3. TasksTyped'
    BY <1>1, <1>4, <2>1, <2>2, IdleTyped DEF GatewayCrash, TasksCrash, TasksTyped, Names
  <2>4. loops' \in [Loops -> LoopType] /\ \A l \in Loops : loops'[l] = Off
    BY <1>4, FreshIsTyped DEF GatewayCrash
  <2>5. /\ ChannelTyped
        /\ armed' = FALSE /\ poll' = 0 /\ reset' = 0
        /\ UNCHANGED <<settings, sent, since, ran, replies, pushed, plan>> /\ push' = NoPush
    BY <1>1, <1>4 DEF GatewayCrash, TasksCrash
  <2>6. ChannelTyped'
    <3>1. \A l \in Loops : Len(loops'[l].batch) = 0 /\ loops'[l].st = "off"
      BY <2>4, FreshIsTyped
    <3>2. (\A i \in 1..Len(sent) : Sendable(sent[i]))'
      BY <2>5 DEF ChannelTyped, Sendable
    <3>3. /\ since' \in 0..Len(sent') /\ settings'.cursor \in 0..Len(sent') /\ settings' \in SettingsType
          /\ sent' \in Seq([kind : Kinds, slug : Names]) /\ Len(sent') <= MaxMessages
          /\ ran' \in [Messages -> Nat]
      BY <2>5 DEF ChannelTyped
    <3>4. /\ armed' \in BOOLEAN /\ poll' \in Loops \union {0} /\ reset' \in Loops \union {0}
          /\ loops' \in [Loops -> LoopType]
      BY <2>4, <2>5
    <3>5. \A l \in Loops : /\ \A i \in 1..Len(loops'[l].batch) : loops'[l].batch[i] <= Len(sent')
                           /\ loops'[l].st # "closing"
      BY <3>1
    <3>. QED
      BY <3>2, <3>3, <3>4, <3>5 DEF ChannelTyped
  <2>7. PushTyped'
    BY <1>1, <2>5, GatewayAssumption DEF PushTyped, NoPush
  <2>. QED
    BY <2>3, <2>6, <2>7 DEF Typed
<1>. QED
  BY <1>3, <1>4

LEMMA StartIsTyped ==
  ASSUME Init
  PROVE  Typed
<1>. USE DEF Init, TasksInit
<1>1. TasksTyped
  BY IdleTyped DEF TasksTyped, Names
<1>2. Len(sent) = 0 /\ sent \in Seq([kind : Kinds, slug : Names]) /\ 0 <= MaxMessages
  BY GatewayAssumption
<1>3. settings \in SettingsType /\ settings.cursor = 0
  BY DEF SettingsType, Names
<1>4. loops \in [Loops -> LoopType] /\ \A l \in Loops : loops[l] = Off
  BY FreshIsTyped
<1>5. ChannelTyped
  <2>1. \A l \in Loops : Len(loops[l].batch) = 0 /\ loops[l].st = "off"
    BY <1>4, FreshIsTyped
  <2>2. since \in 0..Len(sent) /\ settings.cursor \in 0..Len(sent) /\ ran \in [Messages -> Nat]
    BY <1>2, <1>3
  <2>3. armed \in BOOLEAN /\ poll \in Loops \union {0} /\ reset \in Loops \union {0}
    OBVIOUS
  <2>. QED
    BY <1>2, <1>3, <1>4, <2>1, <2>2, <2>3 DEF ChannelTyped
<1>6. PushTyped
  BY GatewayAssumption DEF PushTyped, NoPush
<1>. QED
  BY <1>1, <1>5, <1>6 DEF Typed

LEMMA StepIsTyped ==
  ASSUME Typed, [Next]_vars
  PROVE  Typed'
<1>1. CASE TasksNext /\ UNCHANGED gatewayVars
  <2>1. TasksTyped' /\ plan' = plan
    BY <1>1, TaskStepsAreTyped DEF Typed, TasksNext, BeginCreate, BeginClose, BeginLaunch, Connect, Progress,
       AddWorktree, SaveTask, StartRole, StopSessions, RemoveWorktree, DeleteBranch, RemoveRecord,
       Retry, PullFails, SaveFails, StartFails, Tick, EnsureTool, SessionExits
  <2>2. ChannelTyped' /\ PushTyped'
    BY <1>1, <2>1 DEF Typed, gatewayVars, ChannelTyped, PushTyped, Sendable
  <2>. QED
    BY <2>1, <2>2 DEF Typed
<1>2. CASE UNCHANGED vars
  <2>1. TasksTyped'
    BY <1>2 DEF vars, taskVars, storeVars, Typed, TasksTyped
  <2>2. ChannelTyped' /\ PushTyped'
    BY <1>2 DEF vars, taskVars, gatewayVars, Typed, ChannelTyped, PushTyped, Sendable
  <2>. QED
    BY <2>1, <2>2 DEF Typed
<1>3. CASE DeskStep
  BY <1>3, DeskStepsAreTyped
<1>4. CASE \E l \in Loops : LoopStep(l)
  BY <1>4, LoopStepsAreTyped
<1>5. CASE PushStep
  BY <1>5, PushStepsAreTyped
<1>6. CASE GatewayCrash \/ Restart
  BY <1>6, CrashIsTyped
<1>. QED
  BY <1>1, <1>2, <1>3, <1>4, <1>5, <1>6, Zenon DEF Next, DeskStep, LoopStep, PushStep

(***************************************************************************)
(* A branch or worktree always has a request or a record that owns it.     *)
(***************************************************************************)
Owned ==
  /\ OneOwner
  /\ \A c \in Clients : Creating(request[c]) /\ Removing(request[c]) /\ Listed(request[c])
  /\ ResourcesAreOwned

\* The client c alone has a new request.
Sets(c, n) == \A d \in Clients : request'[d] = IF d = c THEN n ELSE request[d]

LEMMA SetSets ==
  ASSUME TasksTyped, NEW c \in Clients, NEW n, Set(c, n)
  PROVE  Sets(c, n)
BY DEF TasksTyped, Set, Sets

LEMMA OpFields ==
  ASSUME TasksTyped, NEW c \in Clients
  PROVE  LET q == request[c]
         IN  /\ q \in RequestType /\ Shape(q)
             /\ q.op \in {"create", "close", "launch"} => q.slug \in Slugs
             /\ q.op = "connect" => /\ q.todo \subseteq Slugs
                                    /\ q.step # "next" => q.slug \in Slugs
                                    /\ q.step = "next" => q.slug = NoSlug
BY ShapeFields DEF TasksTyped

\* A request that owns nothing takes the place of one that leaves nothing.
LEMMA OwnedWhenDropped ==
  ASSUME TasksTyped, Owned, NEW c \in Clients, NEW n, Sets(c, n), n.op \in {"none", "launch"},
         UNCHANGED <<record, worktree, branch>>, orphaned \subseteq orphaned',
         request[c].op = "create" /\ request[c].step # "pulled" => request[c].slug \in orphaned'
  PROVE  Owned'
<1>. USE DEF Owned, Sets
<1>1. OneOwner'
  BY DEF OneOwner, Owns
<1>2. ASSUME NEW d \in Clients
      PROVE  (Creating(request[d]) /\ Removing(request[d]) /\ Listed(request[d]))'
  BY <1>2 DEF Creating, Removing, Listed
<1>3. ResourcesAreOwned'
  BY DEF ResourcesAreOwned, Creating
<1>. QED
  BY <1>1, <1>2, <1>3

LEMMA OwnedWhenCreating ==
  ASSUME TasksTyped, Owned, ~Overlaps, NEW c \in Clients, NEW s \in Slugs, NEW n, Sets(c, n),
         n.op = "create", n.step = "pulled", n.slug = s,
         CanCreate(s), Alone(s), Unlisted(s), request[c] = Idle,
         UNCHANGED <<record, worktree, branch, orphaned>>
  PROVE  Owned'
<1>. USE DEF Owned, Sets
<1>1. Idle.op = "none"
  BY DEF Idle
<1>2. \A d \in Clients : request[d].slug # s \/ request[d].op \in {"launch", "none"}
  BY <1>1, Zenon DEF Alone
<1>3. OneOwner'
  BY <1>1, <1>2 DEF OneOwner, Owns
<1>4. ASSUME NEW d \in Clients
      PROVE  (Creating(request[d]) /\ Removing(request[d]))'
  BY <1>1, <1>4 DEF Creating, Removing, CanCreate
<1>5. ASSUME NEW d \in Clients
      PROVE  Listed(request[d])'
  BY <1>1, <1>5 DEF Listed, Unlisted
<1>6. ResourcesAreOwned'
  BY <1>1 DEF ResourcesAreOwned
<1>. QED
  BY <1>3, <1>4, <1>5, <1>6

LEMMA OwnedWhenClosing ==
  ASSUME TasksTyped, Owned, ~Overlaps, NEW c \in Clients, NEW s \in Slugs, NEW n, Sets(c, n),
         n.op = "close", n.step = "stop", n.slug = s,
         record[s] # "none", Alone(s), request[c] = Idle, record' = [record EXCEPT ![s] = "closed"],
         UNCHANGED <<worktree, branch, orphaned>>
  PROVE  Owned'
<1>. USE DEF Owned, Sets
<1>1. Idle.op = "none" /\ record \in [Slugs -> {"none", "open", "closed"}]
  BY DEF Idle, TasksTyped
<1>2. \A d \in Clients : request[d].slug # s \/ request[d].op \in {"launch", "none"}
  BY <1>1, Zenon DEF Alone
<1>3. OneOwner'
  BY <1>1, <1>2 DEF OneOwner, Owns
<1>4. ASSUME NEW d \in Clients
      PROVE  (Creating(request[d]) /\ Removing(request[d]) /\ Listed(request[d]))'
  <2>1. LET q == request[d]
        IN  /\ q.op \in {"create", "close", "launch"} => q.slug \in Slugs
            /\ q.op = "connect" => q.todo \subseteq Slugs /\ (q.step # "next" => q.slug \in Slugs)
    BY OpFields
  <2>2. Creating(request[d])'
    BY <1>1, <1>2, <2>1 DEF Creating
  <2>3. Removing(request[d])'
    BY <1>1, <1>2, <2>1 DEF Removing
  <2>4. Listed(request[d])'
    BY <1>1, <1>2, <2>1 DEF Listed
  <2>. QED
    BY <2>2, <2>3, <2>4
<1>5. ResourcesAreOwned'
  BY <1>1 DEF ResourcesAreOwned, TasksTyped
<1>. QED
  BY <1>3, <1>4, <1>5

\* The steps of a request that owns a task.
LEMMA OwnedWhenProgressing ==
  ASSUME TasksTyped, Owned, ~Overlaps, NEW c \in Clients, Progress(c)
  PROVE  Owned'
<1>. DEFINE q == request[c]
<1>1. /\ q \in RequestType /\ Shape(q)
      /\ record \in [Slugs -> {"none", "open", "closed"}]
      /\ worktree \in SUBSET Slugs /\ branch \in SUBSET Slugs
  BY DEF TasksTyped
<1>2. \A d \in Clients : LET p == request[d]
        IN  /\ p.op \in {"create", "close", "launch"} => p.slug \in Slugs
            /\ p.op = "connect" => /\ p.todo \subseteq Slugs
                                   /\ p.step # "next" => p.slug \in Slugs
                                   /\ p.step = "next" => p.slug = NoSlug
  BY OpFields
<1>3. OneOwner /\ ResourcesAreOwned
      /\ \A d \in Clients : Creating(request[d]) /\ Removing(request[d]) /\ Listed(request[d])
  BY DEF Owned
<1>4. Idle.op = "none" /\ NoSlug \notin Slugs
  BY PlansAssumption DEF Idle
<1>5. ASSUME OneOwner', ResourcesAreOwned',
             \A d \in Clients : (Creating(request[d]) /\ Removing(request[d]) /\ Listed(request[d]))'
      PROVE  Owned'
  BY <1>5 DEF Owned
<1>6. CASE AddWorktree(c)
  <2>1. q.op = "create" /\ q.step = "pulled" /\ q.slug \in Slugs /\ UNCHANGED <<record, orphaned>>
    BY <1>2, <1>6 DEF AddWorktree, At
  <2>2. q.slug \notin worktree \union branch
    BY <1>3, <2>1 DEF Creating
  <2>. DEFINE n == [q EXCEPT !.step = "added"]
  <2>3. /\ Sets(c, n) /\ worktree' = worktree \union {q.slug} /\ branch' = branch \union {q.slug}
    BY <1>6, <2>2, SetSets DEF AddWorktree
  <2>4. n.op = "create" /\ n.step = "added" /\ n.slug = q.slug
    BY <1>1, <2>1 DEF RequestType
  <2>. HIDE DEF n
  <2>5. OneOwner'
    BY <1>3, <2>1, <2>3, <2>4 DEF Sets, OneOwner, Owns
  <2>6. ResourcesAreOwned'
    BY <1>3, <2>1, <2>3, <2>4 DEF Sets, ResourcesAreOwned
  <2>7. ASSUME NEW d \in Clients
        PROVE  (Creating(request[d]) /\ Removing(request[d]) /\ Listed(request[d]))'
    <3>1. CASE d = c
      BY <1>3, <2>1, <2>3, <2>4, <3>1 DEF Sets, Creating, Removing, Listed
    <3>2. CASE d # c
      <4>1. request'[d] = request[d]
        BY <2>3, <3>2 DEF Sets
      <4>2. request[d].op \in {"create", "close", "connect"} => request[d].slug # q.slug
        BY <1>3, <2>1, <3>2 DEF OneOwner, Owns
      <4>3. Creating(request[d])'
        BY <1>3, <2>1, <2>3, <4>1, <4>2 DEF Creating
      <4>4. Removing(request[d])'
        BY <1>3, <2>1, <2>3, <4>1, <4>2 DEF Removing
      <4>5. Listed(request[d])'
        BY <1>3, <2>1, <2>3, <2>4, <4>1 DEF Sets, Listed
      <4>. QED
        BY <4>3, <4>4, <4>5
    <3>. QED
      BY <3>1, <3>2
  <2>. QED
    BY <1>5, <2>5, <2>6, <2>7
<1>7. CASE SaveTask(c)
  <2>1. /\ q.op = "create" /\ q.step = "added" /\ q.slug \in Slugs
        /\ UNCHANGED <<worktree, branch, orphaned>> /\ record' = [record EXCEPT ![q.slug] = "open"]
    BY <1>2, <1>7 DEF SaveTask, At
  <2>2. PICK n : Sets(c, n) /\ n.op \in {"none", "launch"}
    <3>1. [q EXCEPT !.op = "launch", !.step = "start"].op = "launch"
      BY <1>1 DEF RequestType
    <3>2. Set(c, Idle) \/ Set(c, [q EXCEPT !.op = "launch", !.step = "start"])
      BY <1>7 DEF SaveTask
    <3>. QED
      BY <1>4, <3>1, <3>2, SetSets
  <2>3. OneOwner'
    BY <1>3, <2>2 DEF Sets, OneOwner, Owns
  <2>4. ResourcesAreOwned'
    BY <1>1, <1>3, <2>1, <2>2 DEF Sets, ResourcesAreOwned
  <2>5. ASSUME NEW d \in Clients
        PROVE  (Creating(request[d]) /\ Removing(request[d]) /\ Listed(request[d]))'
    <3>1. CASE d = c
      BY <2>2, <3>1 DEF Sets, Creating, Removing, Listed
    <3>2. CASE d # c
      <4>1. request'[d] = request[d]
        BY <2>2, <3>2 DEF Sets
      <4>2. request[d].op \in {"create", "close", "connect"} => request[d].slug # q.slug
        BY <1>3, <2>1, <3>2 DEF OneOwner, Owns
      <4>3. Creating(request[d])'
        BY <1>2, <1>1, <1>3, <2>1, <4>1, <4>2 DEF Creating
      <4>4. Removing(request[d])'
        BY <1>2, <1>1, <1>3, <2>1, <4>1, <4>2 DEF Removing
      <4>5. Listed(request[d])'
        <5>1. request[d].op = "connect" => q.slug \notin request[d].todo
          BY <1>3, <2>1 DEF Listed
        <5>. QED
          BY <1>1, <1>2, <1>3, <2>1, <2>2, <4>1, <5>1 DEF Sets, Listed
      <4>. QED
        BY <4>3, <4>4, <4>5
    <3>. QED
      BY <3>1, <3>2
  <2>. QED
    BY <1>5, <2>3, <2>4, <2>5
<1>8. CASE StartRole(c)
  <2>1. PICK r \in q.todo : Set(c, Idle) \/ Set(c, [q EXCEPT !.todo = @ \ {r}])
    BY <1>8 DEF StartRole
  <2>2. q.op = "launch" /\ [q EXCEPT !.todo = @ \ {r}].op = "launch" /\ UNCHANGED storeVars
    BY <1>1, <1>8 DEF StartRole, At, RequestType
  <2>. QED
    BY <1>4, <2>1, <2>2, SetSets, OwnedWhenDropped DEF storeVars
\* A cleanup goes on without touching the store.
<1>9. ASSUME NEW n, Sets(c, n), UNCHANGED storeVars, q.op \in {"close", "connect"}, q.step # "next",
             n.op = q.op, n.slug = q.slug, n.todo = q.todo, n.step = "worktree"
      PROVE  Owned'
  <2>1. OneOwner'
    BY <1>3, <1>9 DEF Sets, OneOwner, Owns
  <2>2. ResourcesAreOwned'
    BY <1>3, <1>9 DEF Sets, ResourcesAreOwned, storeVars
  <2>3. ASSUME NEW d \in Clients
        PROVE  (Creating(request[d]) /\ Removing(request[d]) /\ Listed(request[d]))'
    BY <1>3, <1>9 DEF Sets, storeVars, Creating, Removing, Listed
  <2>. QED
    BY <1>5, <2>1, <2>2, <2>3
<1>10. CASE StopSessions(c)
  <2>. DEFINE n == [q EXCEPT !.step = "worktree"]
  <2>1. n.op = q.op /\ n.slug = q.slug /\ n.todo = q.todo /\ n.step = "worktree"
    BY <1>1 DEF RequestType
  <2>2. Sets(c, n) /\ q.op = "close" /\ q.step = "stop" /\ UNCHANGED storeVars
    BY <1>10, SetSets DEF StopSessions, At
  <2>. QED
    BY <1>9, <2>1, <2>2
<1>11. CASE RemoveWorktree(c)
  <2>1. PICK gone \in BOOLEAN : /\ Set(c, [q EXCEPT !.step = "branch", !.gone = gone])
                                /\ gone => worktree' = worktree \ {q.slug}
                                /\ worktree' \in {worktree, worktree \ {q.slug}}
    BY <1>11 DEF RemoveWorktree
  <2>. DEFINE n == [q EXCEPT !.step = "branch", !.gone = gone]
  <2>2. /\ n.op = q.op /\ n.slug = q.slug /\ n.todo = q.todo /\ n.step = "branch" /\ n.gone = gone
        /\ q.op \in {"close", "connect"} /\ q.step = "worktree" /\ Sets(c, n)
        /\ UNCHANGED <<record, branch, orphaned>>
    BY <1>1, <1>11, <2>1, SetSets DEF RemoveWorktree, InCleanup, RequestType
  <2>. HIDE DEF n
  <2>3. OneOwner'
    BY <1>3, <2>2 DEF Sets, OneOwner, Owns
  <2>4. ResourcesAreOwned'
    BY <1>3, <2>1, <2>2 DEF Sets, ResourcesAreOwned
  <2>5. ASSUME NEW d \in Clients
        PROVE  (Creating(request[d]) /\ Removing(request[d]) /\ Listed(request[d]))'
    <3>1. (Creating(request[d]))' /\ Listed(request[d])'
      BY <1>3, <2>1, <2>2 DEF Sets, Creating, Listed
    <3>2. Removing(request[d])'
      BY <1>3, <2>1, <2>2 DEF Sets, Removing
    <3>. QED
      BY <3>1, <3>2
  <2>. QED
    BY <1>5, <2>3, <2>4, <2>5
<1>12. CASE DeleteBranch(c)
  <2>1. PICK n : /\ Set(c, n) /\ n.op = q.op /\ n.slug = q.slug /\ n.todo = q.todo /\ n.step = "record"
                 /\ n.gone => q.gone /\ branch' = branch \ {q.slug}
                 /\ branch' \in {branch, branch \ {q.slug}}
    <3>1. LET n == [q EXCEPT !.step = "record"]
          IN  n.op = q.op /\ n.slug = q.slug /\ n.todo = q.todo /\ n.step = "record" /\ n.gone = q.gone
      BY <1>1 DEF RequestType
    <3>2. LET n == [q EXCEPT !.step = "record", !.gone = FALSE]
          IN  n.op = q.op /\ n.slug = q.slug /\ n.todo = q.todo /\ n.step = "record" /\ ~n.gone
      BY <1>1 DEF RequestType
    <3>3. \/ branch' = branch \ {q.slug} /\ Set(c, [q EXCEPT !.step = "record"])
          \/ branch' = branch /\ Set(c, [q EXCEPT !.step = "record", !.gone = FALSE])
      BY <1>12 DEF DeleteBranch
    <3>. QED
      BY <3>1, <3>2, <3>3
  <2>2. /\ q.op \in {"close", "connect"} /\ q.step = "branch" /\ Sets(c, n)
        /\ UNCHANGED <<record, worktree, orphaned>>
    BY <1>12, <2>1, SetSets DEF DeleteBranch, InCleanup
  <2>3. OneOwner'
    BY <1>3, <2>1, <2>2 DEF Sets, OneOwner, Owns
  <2>4. ResourcesAreOwned'
    BY <1>3, <2>1, <2>2 DEF Sets, ResourcesAreOwned
  <2>5. ASSUME NEW d \in Clients
        PROVE  (Creating(request[d]) /\ Removing(request[d]) /\ Listed(request[d]))'
    <3>1. (Creating(request[d]))' /\ Listed(request[d])'
      BY <1>3, <2>1, <2>2 DEF Sets, Creating, Listed
    <3>2. Removing(request[d])'
      BY <1>3, <2>1, <2>2 DEF Sets, Removing
    <3>. QED
      BY <3>1, <3>2
  <2>. QED
    BY <1>5, <2>3, <2>4, <2>5
<1>13. CASE RemoveRecord(c)
  <2>1. /\ q.op \in {"close", "connect"} /\ q.step = "record" /\ UNCHANGED <<worktree, branch, orphaned>>
        /\ record' = record \/ (q.gone /\ record' = [record EXCEPT ![q.slug] = "none"])
    BY <1>13 DEF RemoveRecord, InCleanup, Removable
  <2>2. PICK n : Sets(c, n) /\ (n.op = "none" \/ (n.op = "connect" /\ n.step = "next" /\ n.slug = NoSlug /\ n.todo = q.todo /\ q.op = "connect"))
    <3>1. LET n == [q EXCEPT !.step = "next", !.slug = NoSlug, !.gone = FALSE]
          IN  n.op = q.op /\ n.step = "next" /\ n.slug = NoSlug /\ n.todo = q.todo
      BY <1>1 DEF RequestType
    <3>2. \/ Set(c, Idle)
          \/ q.op # "close" /\ Set(c, [q EXCEPT !.step = "next", !.slug = NoSlug, !.gone = FALSE])
      BY <1>13 DEF RemoveRecord
    <3>. QED
      BY <1>4, <2>1, <3>1, <3>2, SetSets
  <2>3. q.slug \in Slugs /\ (q.gone => q.slug \notin worktree \union branch) /\ record[q.slug] = "closed"
    <3>1. Removing(q) /\ q.slug \in Slugs
      BY <1>2, <1>3, <2>1
    <3>. QED
      BY <2>1, <3>1 DEF Removing
  <2>4. OneOwner'
    BY <1>3, <1>4, <2>2 DEF Sets, OneOwner, Owns
  <2>5. ResourcesAreOwned'
    BY <1>1, <1>3, <2>1, <2>2, <2>3 DEF Sets, ResourcesAreOwned
  <2>6. ASSUME NEW d \in Clients
        PROVE  (Creating(request[d]) /\ Removing(request[d]) /\ Listed(request[d]))'
    <3>1. CASE d = c
      <4>1. (Creating(request[d]))' /\ Removing(request[d])'
        BY <2>2, <3>1 DEF Sets, Creating, Removing
      <4>2. Listed(request[d])'
        <5>1. Listed(q) /\ \A s \in Slugs : record[s] # "open" => record'[s] # "open"
          BY <1>1, <1>3, <2>1
        <5>2. q.op = "connect" => q.todo \subseteq Slugs
          BY <1>2
        <5>3. \A e \in Clients : request'[e].op = "create" => request'[e] = request[e]
          BY <2>2 DEF Sets
        <5>4. request'[d].op = "connect" => q.op = "connect" /\ request'[d].todo = q.todo
          BY <2>2, <3>1 DEF Sets
        <5>. QED
          BY <5>1, <5>2, <5>3, <5>4 DEF Listed
      <4>. QED
        BY <4>1, <4>2
    <3>2. CASE d # c
      <4>1. request'[d] = request[d]
        BY <2>2, <3>2 DEF Sets
      <4>2. request[d].op \in {"create", "close", "connect"} => request[d].slug # q.slug
        BY <1>3, <2>1, <2>3, <3>2 DEF OneOwner, Owns
      <4>3. Creating(request[d])'
        BY <1>1, <1>2, <1>3, <2>1, <2>3, <4>1, <4>2 DEF Creating
      <4>6. /\ Removing(request[d]) /\ Listed(request[d])
            /\ request[d].op = "close" => request[d].slug \in Slugs
            /\ request[d].op = "connect" => /\ request[d].todo \subseteq Slugs
                                            /\ request[d].step # "next" => request[d].slug \in Slugs
        BY <1>2, <1>3
      <4>4. Removing(request[d])'
        BY <1>1, <2>1, <4>1, <4>2, <4>6 DEF Removing
      <4>5. Listed(request[d])'
        <5>1. \A s \in Slugs : record[s] # "open" => record'[s] # "open"
          BY <1>1, <2>1
        <5>2. \A e \in Clients : request'[e].op = "create" => request'[e] = request[e]
          BY <2>2 DEF Sets
        <5>. QED
          BY <4>1, <4>6, <5>1, <5>2 DEF Listed
      <4>. QED
        BY <4>3, <4>4, <4>5
    <3>. QED
      BY <3>1, <3>2
  <2>. QED
    BY <1>5, <2>4, <2>5, <2>6
<1>14. CASE Retry(c)
  <2>1. q.op = "connect" /\ q.step = "next" /\ UNCHANGED <<worktree, branch, orphaned>> /\ q.slug = NoSlug
    BY <1>2, <1>14 DEF Retry, At
  <2>2. CASE q.todo = {}
    BY <1>4, <1>14, <2>1, <2>2, SetSets, OwnedWhenDropped DEF Retry
  <2>3. CASE q.todo # {}
    <3>1. PICK s \in q.todo :
            IF record[s] = "none" THEN Set(c, [q EXCEPT !.todo = @ \ {s}]) /\ UNCHANGED record
            ELSE /\ Alone(s) /\ record' = [record EXCEPT ![s] = "closed"]
                 /\ Set(c, [q EXCEPT !.step = "worktree", !.slug = s, !.todo = @ \ {s}])
      BY <1>14, <2>3 DEF Retry
    <3>2. s \in Slugs /\ record[s] # "open"
      <4>1. Listed(q) /\ q.todo \subseteq Slugs
        BY <1>2, <1>3, <2>1
      <4>. QED
        BY <2>1, <4>1 DEF Listed
    <3>3. record' = record
      BY <1>1, <3>1, <3>2
    <3>4. CASE record[s] = "none"
      <4>. DEFINE n == [q EXCEPT !.todo = @ \ {s}]
      <4>1. n.op = q.op /\ n.step = q.step /\ n.slug = NoSlug /\ n.todo = q.todo \ {s} /\ Sets(c, n)
        BY <1>1, <2>1, <3>1, <3>4, SetSets DEF RequestType
      <4>. HIDE DEF n
      <4>2. OneOwner'
        BY <1>3, <1>4, <2>1, <4>1 DEF Sets, OneOwner, Owns
      <4>3. ResourcesAreOwned'
        BY <1>3, <2>1, <3>3, <4>1 DEF Sets, ResourcesAreOwned
      <4>4. ASSUME NEW d \in Clients
            PROVE  (Creating(request[d]) /\ Removing(request[d]) /\ Listed(request[d]))'
        BY <1>3, <2>1, <3>3, <4>1 DEF Sets, Creating, Removing, Listed
      <4>. QED
        BY <1>5, <4>2, <4>3, <4>4
    <3>5. CASE record[s] = "closed"
      <4>. DEFINE n == [q EXCEPT !.step = "worktree", !.slug = s, !.todo = @ \ {s}]
      <4>1. /\ n.op = q.op /\ n.step = "worktree" /\ n.slug = s /\ n.todo = q.todo \ {s} /\ Sets(c, n)
            /\ Alone(s)
        BY <1>1, <3>1, <3>5, SetSets DEF RequestType
      <4>. HIDE DEF n
      <4>2. \A d \in Clients : request[d].slug # s \/ request[d].op = "launch"
        BY <4>1, Zenon DEF Alone
      <4>3. OneOwner'
        BY <1>3, <4>1, <4>2 DEF Sets, OneOwner, Owns
      <4>4. ResourcesAreOwned'
        BY <1>3, <2>1, <3>3, <4>1 DEF Sets, ResourcesAreOwned
      <4>5. ASSUME NEW d \in Clients
            PROVE  (Creating(request[d]) /\ Removing(request[d]) /\ Listed(request[d]))'
        BY <1>3, <2>1, <3>3, <3>5, <4>1 DEF Sets, Creating, Removing, Listed
      <4>. QED
        BY <1>5, <4>3, <4>4, <4>5
    <3>. QED
      BY <1>1, <3>2, <3>4, <3>5
  <2>. QED
    BY <2>2, <2>3
<1>. QED
  BY <1>6, <1>7, <1>8, <1>10, <1>11, <1>12, <1>13, <1>14 DEF Progress

\* The steps of the gateway that touch no task.
LEMMA OtherStepsLeaveTasks ==
  ASSUME Next, ~TasksNext, ~GatewayCrash,
         \A l \in Loops : ~TakeCreate(l) /\ ~TakeConfirm(l)
  PROVE  UNCHANGED <<storeVars, live, request>>
BY DEF Next, LoopSteps, Arm, Disarm, GetStatus, ResetBinding, Login, Switch, Send, LoopTop, PollReturns,
   BatchEnds, Dropped, TakePlain, PlainEnds, CreateEnds, TakeClose, CloseEnds, TakeStart, Receive,
   SessionExpires, RoleStops, NotFinal, PushOriginal, PushEnds, Restart, TasksRestart, taskVars

LEMMA OwnedStep ==
  ASSUME Typed, Owned, ~Overlaps, [Next]_vars
  PROVE  Owned'
<1>1. TasksTyped /\ Idle.op = "none" /\ Phone \in Clients
  BY GatewayAssumption DEF Typed, Idle
<1>2. ASSUME UNCHANGED <<storeVars, request>> PROVE Owned'
  BY <1>2 DEF storeVars, Owned, OneOwner, Owns, Creating, Removing, Listed, ResourcesAreOwned
<1>3. UNCHANGED vars => Owned'
  BY <1>2 DEF vars, taskVars
<1>4. /\ plan.desks \subseteq Clients /\ plan.slugs \subseteq Slugs
  BY <1>1, PlanFields DEF TasksTyped
<1>5. ASSUME NEW c \in Clients, NEW s \in Slugs, NEW then, Creates(c, s, then), CanCreate(s), Alone(s),
             Unlisted(s), request[c] = Idle, UNCHANGED storeVars
      PROVE  Owned'
  <2>. DEFINE n == [Idle EXCEPT !.op = "create", !.step = "pulled", !.slug = s, !.todo = then]
  <2>1. n.op = "create" /\ n.step = "pulled" /\ n.slug = s
    BY DEF Idle
  <2>2. Sets(c, n)
    BY <1>1, <1>5, SetSets DEF Creates
  <2>. HIDE DEF n
  <2>. QED
    BY <1>1, <1>5, <2>1, <2>2, OwnedWhenCreating DEF storeVars
<1>6. ASSUME NEW c \in Clients, NEW s \in Slugs, Closes(c, s), Alone(s), record[s] # "none",
             request[c] = Idle, UNCHANGED <<worktree, branch, orphaned>>
      PROVE  Owned'
  <2>. DEFINE n == [Idle EXCEPT !.op = "close", !.step = "stop", !.slug = s]
  <2>1. n.op = "close" /\ n.step = "stop" /\ n.slug = s
    BY DEF Idle
  <2>2. Sets(c, n) /\ record' = [record EXCEPT ![s] = "closed"]
    BY <1>1, <1>6, SetSets DEF Closes
  <2>. HIDE DEF n
  <2>. QED
    BY <1>1, <1>6, <2>1, <2>2, OwnedWhenClosing
<1>7. CASE TasksNext
  <2>1. ASSUME NEW c \in plan.desks, NEW s \in plan.slugs, BeginCreate(c, s) PROVE Owned'
    BY <1>4, <1>5, <2>1 DEF BeginCreate
  <2>2. ASSUME NEW c \in plan.desks, NEW s \in plan.slugs, BeginClose(c, s) PROVE Owned'
    BY <1>4, <1>6, <2>2 DEF BeginClose
  <2>3. ASSUME NEW c \in plan.desks, BeginLaunch(c) PROVE Owned'
    <3>1. PICK s : Set(c, [Idle EXCEPT !.op = "launch", !.step = "start", !.slug = s, !.todo = Roles])
      BY <2>3 DEF BeginLaunch
    <3>. DEFINE n == [Idle EXCEPT !.op = "launch", !.step = "start", !.slug = s, !.todo = Roles]
    <3>2. n.op = "launch" /\ Sets(c, n)
      BY <1>1, <1>4, <3>1, SetSets DEF Idle
    <3>. HIDE DEF n
    <3>. QED
      BY <1>1, <1>4, <2>3, <3>2, OwnedWhenDropped DEF BeginLaunch, storeVars
  <2>4. ASSUME NEW c \in plan.desks, Connect(c) PROVE Owned'
    <3>. DEFINE n == [Idle EXCEPT !.op = "connect", !.step = "next", !.todo = Tombstones]
    <3>1. n.op = "connect" /\ n.step = "next" /\ n.slug = NoSlug /\ n.todo = Tombstones
      BY DEF Idle
    <3>2. Sets(c, n) /\ UNCHANGED storeVars /\ request[c] = Idle /\ c \in Clients
      BY <1>1, <1>4, <2>4, SetSets DEF Connect
    <3>. HIDE DEF n
    <3>3. OneOwner'
      BY <3>1, <3>2, PlansAssumption DEF Owned, OneOwner, Owns, Sets
    <3>4. ResourcesAreOwned'
      BY <1>1, <3>1, <3>2 DEF Owned, ResourcesAreOwned, Sets, storeVars
    <3>5. ASSUME NEW d \in Clients
          PROVE  (Creating(request[d]) /\ Removing(request[d]) /\ Listed(request[d]))'
      <4>1. \A s \in Tombstones : /\ record[s] = "closed"
                                  /\ \A e \in Clients : request[e].op = "create" => request[e].slug # s
        BY DEF Owned, Creating, Tombstones
      <4>2. (Creating(request[d]) /\ Removing(request[d]))'
        BY <3>1, <3>2 DEF Owned, Creating, Removing, Sets, storeVars
      <4>3. Listed(request[d])'
        BY <3>1, <3>2, <4>1 DEF Owned, Listed, Sets, storeVars
      <4>. QED
        BY <4>2, <4>3
    <3>. QED
      BY <3>3, <3>4, <3>5 DEF Owned
  <2>5. ASSUME NEW c \in Clients, Progress(c) PROVE Owned'
    BY <1>1, <2>5, OwnedWhenProgressing
  <2>6. ASSUME NEW c \in Clients, PullFails(c) \/ StartFails(c) \/ SaveFails(c) PROVE Owned'
    <3>1. Set(c, Idle) /\ UNCHANGED <<record, worktree, branch>>
      BY <2>6 DEF PullFails, StartFails, SaveFails, storeVars
    <3>2. \/ request[c].op = "create" /\ request[c].step = "pulled" /\ orphaned' = orphaned
          \/ request[c].op = "launch" /\ orphaned' = orphaned
          \/ orphaned' = orphaned \union {request[c].slug}
      BY <2>6 DEF PullFails, StartFails, SaveFails, At, storeVars
    <3>. QED
      BY <1>1, <3>1, <3>2, SetSets, OwnedWhenDropped
  <2>7. CASE Tick \/ EnsureTool \/ SessionExits
    BY <1>2, <2>7 DEF Tick, EnsureTool, SessionExits
  <2>. QED
    BY <1>7, <2>1, <2>2, <2>3, <2>4, <2>5, <2>6, <2>7 DEF TasksNext
<1>8. CASE GatewayCrash
  <2>1. /\ UNCHANGED <<record, worktree, branch>> /\ request' = [c \in Clients |-> Idle] /\ up
        /\ orphaned' = orphaned \union {request[c].slug : c \in {d \in Clients : At(d, "create", "added")}}
    BY <1>8 DEF GatewayCrash, TasksCrash
  <2>2. OneOwner'
    BY <1>1, <2>1 DEF OneOwner, Owns
  <2>3. \A d \in Clients : (Creating(request[d]) /\ Removing(request[d]) /\ Listed(request[d]))'
    BY <1>1, <2>1 DEF Creating, Removing, Listed
  <2>4. ASSUME NEW s \in worktree \union branch, record[s] = "none" PROVE s \in orphaned'
    <3>1. CASE s \in orphaned
      BY <2>1, <3>1
    <3>2. CASE \E c \in Clients : request[c].slug = s /\ request[c].op = "create"
      <4>1. PICK c \in Clients : request[c].slug = s /\ request[c].op = "create"
        BY <3>2
      <4>2. request[c].step = "added"
        BY <1>1, <2>4, <4>1, ShapeFields DEF TasksTyped, Owned, Creating
      <4>. QED
        BY <2>1, <4>1, <4>2 DEF At
    <3>. QED
      BY <2>4, <3>1, <3>2 DEF Owned, ResourcesAreOwned
  <2>5. ResourcesAreOwned'
    BY <2>1, <2>4 DEF ResourcesAreOwned
  <2>. QED
    BY <2>2, <2>3, <2>5 DEF Owned
<1>9. ASSUME NEW l \in Loops, TakeCreate(l) PROVE Owned'
  <2>1. UNCHANGED storeVars /\ SlugOf(l) \in Slugs
    BY <1>9, TakenIsSent DEF TakeCreate, Takes, Typed, Sendable, SlugOf
  <2>. QED
    BY <1>1, <1>2, <1>5, <1>9, <2>1 DEF TakeCreate
<1>10. ASSUME NEW l \in Loops, TakeConfirm(l) PROVE Owned'
  <2>1. UNCHANGED <<worktree, branch, orphaned>> /\ SlugOf(l) \in Slugs
    BY <1>10, TakenIsSent DEF TakeConfirm, Takes, Typed, Sendable, SlugOf
  <2>. QED
    BY <1>1, <1>2, <1>6, <1>10, <2>1 DEF TakeConfirm, storeVars
<1>. QED
  BY <1>2, <1>3, <1>7, <1>8, <1>9, <1>10, OtherStepsLeaveTasks

LEMMA StartIsOwned ==
  ASSUME Init
  PROVE  Owned
BY DEF Init, TasksInit, Owned, OneOwner, Owns, Creating, Removing, Listed, ResourcesAreOwned, Idle

\* No branch and no worktree is left behind unknown: whatever a task has on
\* disk, a record, a request under way or a failed creation accounts for it,
\* through every interleaving of windows and phone and every crash
\* (createTask and cleanupTask of task-service).  Creations and cleanups of
\* one name do not overlap.
THEOREM DiskIsAccountedFor ==
  ASSUME ~Overlaps
  PROVE  Spec => []ResourcesAreOwned
<1>1. Init => Typed /\ Owned
  BY StartIsTyped, StartIsOwned
<1>2. Typed /\ Owned /\ [Next]_vars => (Typed /\ Owned)'
  BY StepIsTyped, OwnedStep
<1>3. Typed /\ Owned => ResourcesAreOwned
  BY DEF Owned
<1>. QED
  BY <1>1, <1>2, <1>3, PTL DEF Spec

(***************************************************************************)
(* The sessions of a task end with it.                                     *)
(***************************************************************************)
\* A request that is not about to stop sessions is replaced.
LEMMA StillEnded ==
  ASSUME TasksTyped, SessionsEndWithTask, NEW c \in Clients, NEW n, Sets(c, n),
         request[c].step # "stop", live' \subseteq live,
         \A s \in Slugs : record[s] = "open" => record'[s] = "open"
  PROVE  SessionsEndWithTask'
<1>1. \A p \in live : p[1] \in Slugs
  BY DEF TasksTyped
<1>. QED
  BY <1>1 DEF SessionsEndWithTask, Cleaning, Sets

LEMMA SessionsStep ==
  ASSUME Typed, Owned, SessionsEndWithTask, ~Overlaps, ~LateStarts, [Next]_vars
  PROVE  SessionsEndWithTask'
<1>1. /\ TasksTyped /\ Idle.op = "none" /\ Idle.step = "none" /\ Phone \in Clients
      /\ live \in SUBSET (Slugs \X Roles) /\ record \in [Slugs -> {"none", "open", "closed"}]
      /\ \A p \in live : p[1] \in Slugs
  BY GatewayAssumption DEF Typed, TasksTyped, Idle
<1>2. ASSUME UNCHANGED <<record, request>>, live' \subseteq live PROVE SessionsEndWithTask'
  BY <1>2 DEF SessionsEndWithTask, Cleaning
<1>3. UNCHANGED vars => SessionsEndWithTask'
  BY <1>2 DEF vars, taskVars, storeVars
<1>4. /\ plan.desks \subseteq Clients /\ plan.slugs \subseteq Slugs
  BY <1>1, PlanFields DEF TasksTyped
<1>5. ASSUME NEW c \in Clients, request[c] = Idle, UNCHANGED <<record, live>>, NEW n, Set(c, n)
      PROVE  SessionsEndWithTask'
  BY <1>1, <1>5, SetSets, StillEnded
<1>6. ASSUME NEW c \in Clients, NEW s \in Slugs, Closes(c, s), request[c] = Idle, live' = live
      PROVE  SessionsEndWithTask'
  <2>. DEFINE n == [Idle EXCEPT !.op = "close", !.step = "stop", !.slug = s]
  <2>1. n.op = "close" /\ n.step = "stop" /\ n.slug = s
    BY DEF Idle
  <2>2. Sets(c, n) /\ record' = [record EXCEPT ![s] = "closed"]
    BY <1>1, <1>6, SetSets DEF Closes
  <2>. HIDE DEF n
  <2>. SUFFICES ASSUME NEW p \in live, record'[p[1]] # "open"
                PROVE  \E d \in Clients : /\ request'[d].slug = p[1] /\ request'[d].op \in {"close", "connect"}
                                          /\ request'[d].step = "stop"
    BY <1>6 DEF SessionsEndWithTask, Cleaning
  <2>3. CASE p[1] = s
    BY <2>1, <2>2, <2>3 DEF Sets
  <2>4. CASE p[1] # s
    <3>1. record[p[1]] # "open"
      BY <1>1, <2>2, <2>4
    <3>2. PICK d \in Clients : /\ request[d].slug = p[1] /\ request[d].op \in {"close", "connect"}
                               /\ request[d].step = "stop"
      BY <3>1 DEF SessionsEndWithTask, Cleaning
    <3>3. d # c
      BY <1>1, <1>6, <3>2
    <3>. QED
      BY <2>2, <3>2, <3>3 DEF Sets
  <2>. QED
    BY <2>3, <2>4
<1>7. ASSUME NEW c \in Clients, Progress(c) PROVE SessionsEndWithTask'
  <2>. DEFINE q == request[c]
  <2>1. /\ q \in RequestType /\ Shape(q) /\ Creating(q) /\ Removing(q) /\ Listed(q)
        /\ q.op \in {"create", "close", "launch"} => q.slug \in Slugs
        /\ q.op = "connect" => q.todo \subseteq Slugs /\ (q.step # "next" => q.slug \in Slugs)
    BY <1>1, OpFields DEF Owned
  <2>2. CASE AddWorktree(c)
    <3>1. PICK n : Set(c, n)
      BY <2>2 DEF AddWorktree
    <3>2. q.step # "stop" /\ UNCHANGED <<record, live>>
      BY <2>2 DEF AddWorktree, At
    <3>. QED
      BY <1>1, <3>1, <3>2, SetSets, StillEnded
  <2>3. CASE SaveTask(c)
    <3>1. PICK n : Set(c, n)
      BY <2>3 DEF SaveTask
    <3>2. q.step # "stop" /\ live' = live /\ record' = [record EXCEPT ![q.slug] = "open"]
      BY <2>3 DEF SaveTask, At
    <3>. QED
      BY <1>1, <3>1, <3>2, SetSets, StillEnded
  <2>4. CASE StartRole(c)
    <3>1. PICK n : Set(c, n)
      BY <2>4 DEF StartRole
    <3>2. /\ q.step # "stop" /\ record' = record
          /\ \A p \in live' : p \in live \/ (p[1] = q.slug /\ record[q.slug] = "open")
      BY <2>4 DEF StartRole, At, Startable, storeVars
    <3>3. Sets(c, n)
      BY <1>1, <3>1, SetSets
    <3>. QED
      BY <3>2, <3>3 DEF SessionsEndWithTask, Cleaning, Sets
  <2>5. CASE StopSessions(c)
    <3>1. PICK n : Set(c, n)
      BY <2>5 DEF StopSessions
    <3>2. record' = record /\ \A p \in live' : p \in live /\ p[1] # q.slug
      BY <2>5 DEF StopSessions, storeVars, Stopped
    <3>3. Sets(c, n)
      BY <1>1, <3>1, SetSets
    <3>. QED
      BY <3>2, <3>3 DEF SessionsEndWithTask, Cleaning, Sets
  <2>6. CASE RemoveWorktree(c) \/ DeleteBranch(c)
    <3>1. PICK n : Set(c, n)
      BY <2>6 DEF RemoveWorktree, DeleteBranch
    <3>2. q.step # "stop" /\ UNCHANGED <<record, live>>
      BY <2>6 DEF RemoveWorktree, DeleteBranch, InCleanup
    <3>. QED
      BY <1>1, <3>1, <3>2, SetSets, StillEnded
  <2>7. CASE RemoveRecord(c)
    <3>1. PICK n : Set(c, n)
      BY <2>7 DEF RemoveRecord
    <3>2. /\ q.step = "record" /\ q.op \in {"close", "connect"} /\ live' = live
          /\ record' = record \/ record' = [record EXCEPT ![q.slug] = "none"]
      BY <2>7 DEF RemoveRecord, InCleanup
    <3>3. record[q.slug] = "closed"
      BY <2>1, <3>2 DEF Removing
    <3>4. \A s \in Slugs : record[s] = "open" => record'[s] = "open"
      BY <1>1, <3>2, <3>3
    <3>. QED
      BY <1>1, <3>1, <3>2, <3>4, SetSets, StillEnded
  <2>8. CASE Retry(c)
    <3>1. PICK n : Set(c, n)
      BY <2>8 DEF Retry
    <3>2. q.op = "connect" /\ q.step = "next" /\ live' = live
          /\ (record' = record \/ \E s \in q.todo : record' = [record EXCEPT ![s] = "closed"])
      BY <2>8 DEF Retry, At
    <3>3. \A s \in q.todo : record[s] # "open" /\ s \in Slugs
      BY <2>1, <3>2 DEF Listed
    <3>4. \A s \in Slugs : record[s] = "open" => record'[s] = "open"
      BY <1>1, <3>2, <3>3
    <3>. QED
      BY <1>1, <3>1, <3>2, <3>4, SetSets, StillEnded
  <2>. QED
    BY <1>7, <2>2, <2>3, <2>4, <2>5, <2>6, <2>7, <2>8 DEF Progress
<1>8. CASE TasksNext
  <2>1. ASSUME NEW c \in plan.desks, NEW s \in plan.slugs, BeginCreate(c, s) PROVE SessionsEndWithTask'
    BY <1>4, <1>5, <2>1 DEF BeginCreate, Creates, storeVars
  <2>2. ASSUME NEW c \in plan.desks, NEW s \in plan.slugs, BeginClose(c, s) PROVE SessionsEndWithTask'
    BY <1>4, <1>6, <2>2 DEF BeginClose
  <2>3. ASSUME NEW c \in plan.desks, BeginLaunch(c) \/ Connect(c) PROVE SessionsEndWithTask'
    BY <1>4, <1>5, <2>3 DEF BeginLaunch, Connect, storeVars
  <2>4. ASSUME NEW c \in Clients, PullFails(c) \/ StartFails(c) \/ SaveFails(c) PROVE SessionsEndWithTask'
    <3>1. Set(c, Idle) /\ request[c].step # "stop" /\ UNCHANGED <<record, live>>
      BY <2>4 DEF PullFails, StartFails, SaveFails, At, storeVars
    <3>. QED
      BY <1>1, <3>1, SetSets, StillEnded
  <2>5. CASE Tick \/ SessionExits
    BY <1>2, <2>5 DEF Tick, SessionExits, storeVars
  <2>6. CASE EnsureTool
    <3>1. /\ UNCHANGED <<record, request>>
          /\ \A p \in live' : p \in live \/ (p[1] = coordinator /\ record[coordinator] = "open")
      BY <2>6 DEF EnsureTool, Startable, storeVars
    <3>. QED
      BY <3>1 DEF SessionsEndWithTask, Cleaning
  <2>. QED
    BY <1>7, <1>8, <2>1, <2>2, <2>3, <2>4, <2>5, <2>6 DEF TasksNext
<1>9. CASE GatewayCrash
  BY <1>9 DEF GatewayCrash, TasksCrash, SessionsEndWithTask
<1>10. ASSUME NEW l \in Loops, TakeCreate(l) PROVE SessionsEndWithTask'
  <2>1. UNCHANGED <<record, live>>
    BY <1>10 DEF TakeCreate, storeVars
  <2>. QED
    BY <1>1, <1>2, <1>5, <1>10, <2>1 DEF TakeCreate, Creates
<1>11. ASSUME NEW l \in Loops, TakeConfirm(l) PROVE SessionsEndWithTask'
  <2>1. live' = live /\ SlugOf(l) \in Slugs
    BY <1>11, TakenIsSent DEF TakeConfirm, Takes, Typed, Sendable, SlugOf
  <2>. QED
    BY <1>1, <1>2, <1>6, <1>11, <2>1 DEF TakeConfirm
<1>. QED
  BY <1>2, <1>3, <1>8, <1>9, <1>10, <1>11, OtherStepsLeaveTasks DEF storeVars

\* A running session belongs to an open task, or to one whose close is still
\* to stop it: none outlives its task (closeTask, runTaskCleanup).  A start
\* does not overtake the close.
THEOREM SessionsAreStopped ==
  ASSUME ~Overlaps, ~LateStarts
  PROVE  Spec => []SessionsEndWithTask
<1>1. Init => Typed /\ Owned /\ SessionsEndWithTask
  BY StartIsTyped, StartIsOwned DEF Init, TasksInit, SessionsEndWithTask
<1>2. Typed /\ Owned /\ SessionsEndWithTask /\ [Next]_vars => (Typed /\ Owned /\ SessionsEndWithTask)'
  BY StepIsTyped, OwnedStep, SessionsStep
<1>. QED
  BY <1>1, <1>2, PTL DEF Spec

(***************************************************************************)
(* A message of the phone is executed once.                                *)
(***************************************************************************)
\* The loop l alone is replaced, by lp.
Turns(l, lp) == \A k \in Loops : loops'[k] = IF k = l THEN lp ELSE loops[k]

\* What the lemmas below know of the state.
LEMMA ChannelFacts ==
  ASSUME Typed
  PROVE  /\ 0 \notin Loops /\ poll \in Loops \union {0} /\ reset \in Loops \union {0}
         /\ Len(sent) \in Nat /\ since \in Nat /\ since <= Len(sent)
         /\ ran \in [Messages -> Nat] /\ \A m \in Messages : m \in Nat
         /\ settings.seen \subseteq Messages
         /\ \A l \in Loops : loops[l] \in LoopType
<1>1. 0 \notin Loops /\ poll \in Loops \union {0} /\ reset \in Loops \union {0}
  BY GatewayAssumption DEF Typed, ChannelTyped
<1>2. Len(sent) \in Nat /\ since \in Nat /\ since <= Len(sent)
  <2>1. Len(sent) \in Nat /\ since \in 0..Len(sent)
    BY DEF Typed, ChannelTyped
  <2>. QED
    BY <2>1
<1>3. ran \in [Messages -> Nat] /\ \A m \in Messages : m \in Nat
  BY DEF Typed, ChannelTyped, Messages
<1>4. settings.seen \subseteq Messages
  BY DEF Typed, ChannelTyped, SettingsType
<1>5. \A l \in Loops : loops[l] \in LoopType
  BY DEF Typed, ChannelTyped
<1>. QED
  BY <1>1, <1>2, <1>3, <1>4, <1>5

LEMMA OnceWhenQuiet ==
  ASSUME Typed, LoopsInv, UNCHANGED <<loops, poll, reset, since, ran, plan>>,
         settings'.seen = settings.seen, Len(sent') \in Nat, Len(sent) <= Len(sent')
  PROVE  LoopsInv'
<1>1. (OnePolls /\ ResetWaits /\ CopiesAreCurrent /\ BatchIsNew)'
  BY DEF LoopsInv, OnePolls, ResetWaits, CopiesAreCurrent, BatchIsNew, Alive
<1>2. RanIsNoted'
  BY ChannelFacts DEF LoopsInv, RanIsNoted
<1>. QED
  BY <1>1, <1>2 DEF LoopsInv

\* A loop goes on: to another state, or with messages that are new.
LEMMA OnceWhenTurning ==
  ASSUME Typed, LoopsInv, NEW l \in Loops, NEW lp, Turns(l, lp), Alive(l),
         lp.st \notin {"off", "closing"}, lp.aborted = loops[l].aborted,
         ~lp.aborted => \A i \in 1..Len(lp.batch) : since < lp.batch[i],
         UNCHANGED <<poll, reset, since, ran, sent, plan>>, settings'.seen = settings.seen
  PROVE  LoopsInv'
<1>. USE DEF LoopsInv, Turns, Alive
<1>1. OnePolls'
  BY ChannelFacts DEF OnePolls
<1>2. ResetWaits'
  BY DEF ResetWaits
<1>3. CopiesAreCurrent'
  BY DEF CopiesAreCurrent
<1>4. BatchIsNew'
  BY DEF BatchIsNew
<1>5. RanIsNoted'
  BY DEF RanIsNoted
<1>. QED
  BY <1>1, <1>2, <1>3, <1>4, <1>5

\* A loop takes the first message of its batch: it was not executed before.
LEMMA OnceWhenTaking ==
  ASSUME Typed, LoopsInv, NEW l \in Loops, NEW kind, Takes(l, kind), NEW lp, Turns(l, lp),
         lp.st # "off", lp.aborted = loops[l].aborted, lp.batch = Tail(loops[l].batch),
         lp.st = "closing" => "confirm" \in plan.kinds /\ lp.copy.seen = settings'.seen,
         UNCHANGED <<poll, reset, since, sent, plan>>,
         settings'.seen = settings.seen \union {Head(loops[l].batch)}
  PROVE  LoopsInv'
<1>. DEFINE m == Head(loops[l].batch)
<1>1. /\ Alive(l) /\ ~loops[l].aborted /\ loops[l].batch # <<>> /\ m \notin settings.seen
      /\ ran' = [ran EXCEPT ![m] = @ + 1]
  BY DEF Takes, IsDuplicate, Alive
<1>2. /\ m \in Messages /\ m <= Len(sent) /\ m = loops[l].batch[1] /\ 1 \in 1..Len(loops[l].batch)
      /\ \A i \in 1..Len(lp.batch) : /\ i + 1 \in 1..Len(loops[l].batch)
                                     /\ lp.batch[i] = loops[l].batch[i + 1]
  BY <1>1, TakenIsSent, ChannelFacts, LoopFields DEF Typed
<1>. HIDE DEF m
<1>3. since < m
  BY <1>1, <1>2 DEF LoopsInv, BatchIsNew
<1>4. ran[m] = 0
  BY <1>1, <1>2, <1>3, ChannelFacts DEF LoopsInv, RanIsNoted
<1>. USE DEF LoopsInv, Turns
<1>5. OnePolls' /\ ResetWaits'
  BY <1>1 DEF OnePolls, ResetWaits, Alive
<1>6. CopiesAreCurrent'
  <2>1. CASE "confirm" \notin plan.kinds
    BY <2>1 DEF CopiesAreCurrent
  <2>2. CASE "confirm" \in plan.kinds
    <3>1. \A k \in Loops : loops[k].st # "off" => k = l
      BY <1>1, <2>2 DEF CopiesAreCurrent, Alive
    <3>2. \A k \in Loops : loops'[k].st = "closing" => k = l /\ lp.st = "closing"
      BY <3>1
    <3>3. \A k \in Loops : loops'[k].st = "closing" => loops'[k].copy.seen = settings'.seen
      BY <3>2
    <3>4. \A k \in Loops : Alive(k)' => poll' = k /\ (loops'[k].aborted => reset' = k)
      BY <1>1, <2>2, <3>1 DEF CopiesAreCurrent, Alive
    <3>. QED
      BY <2>2, <3>3, <3>4 DEF CopiesAreCurrent
  <2>. QED
    BY <2>1, <2>2
<1>7. BatchIsNew'
  BY <1>1, <1>2 DEF BatchIsNew, Alive
<1>8. RanIsNoted'
  BY <1>2, <1>4, <1>1, ChannelFacts DEF RanIsNoted, m
<1>. QED
  BY <1>5, <1>6, <1>7, <1>8

\* A loop ends, and with it the reset that waits for it.
LEMMA OnceWhenEnding ==
  ASSUME Typed, LoopsInv, NEW l \in Loops, NEW file, Ends(l, file), Alive(l),
         file.seen = settings.seen, UNCHANGED <<sent, ran, plan>>
  PROVE  LoopsInv'
<1>1. /\ \A k \in Loops : loops'[k] = IF k = l THEN Off ELSE loops[k]
      /\ poll' = IF poll = l THEN 0 ELSE poll
  BY DEF Ends, Typed, ChannelTyped
<1>2. \/ reset' = reset /\ since' = since /\ settings'.seen = settings.seen
      \/ reset = l /\ reset' = 0 /\ since' = Len(sent)
  <2>1. CASE reset = l
    BY <2>1, Zenon DEF Ends, Resets
  <2>2. CASE reset # l
    <3>1. settings' = file /\ UNCHANGED <<since, reset>>
      BY <2>2, Zenon DEF Ends
    <3>. QED
      BY <3>1
  <2>. QED
    BY <2>1, <2>2
<1>3. Off.st = "off" /\ 0 \notin Loops
  BY ChannelFacts DEF Off
<1>4. \A k \in Loops : Alive(k)' => Alive(k) /\ loops'[k] = loops[k] /\ k # l
  BY <1>1, <1>3 DEF Alive
<1>. USE DEF LoopsInv
<1>5. OnePolls'
  BY <1>1, <1>3, <1>4, ChannelFacts DEF OnePolls, Alive
<1>6. ResetWaits'
  BY <1>2, <1>4 DEF ResetWaits
<1>7. CopiesAreCurrent'
  <2>1. \A k \in Loops : loops'[k].st = "closing" => loops[k].st = "closing" /\ Alive(k)'
    BY <1>1, <1>3 DEF Alive
  <2>2. CASE "confirm" \notin plan.kinds
    BY <2>1, <2>2 DEF CopiesAreCurrent
  <2>3. CASE "confirm" \in plan.kinds
    <3>1. \A k \in Loops : ~Alive(k)'
      BY <1>4, <2>3 DEF CopiesAreCurrent
    <3>. QED
      BY <2>1, <2>3, <3>1 DEF CopiesAreCurrent
  <2>. QED
    BY <2>2, <2>3
<1>8. BatchIsNew'
  <2>1. reset = l => \A k \in Loops : Alive(k)' => loops'[k].aborted
    BY <1>3, <1>4 DEF ResetWaits
  <2>. QED
    BY <1>2, <1>4, <2>1 DEF BatchIsNew
<1>9. RanIsNoted'
  BY <1>2, ChannelFacts DEF RanIsNoted
<1>. QED
  BY <1>5, <1>6, <1>7, <1>8, <1>9

\* A new loop starts only when none is left that is not aborted.
LEMMA OnceWhenStarting ==
  ASSUME Typed, LoopsInv, ~Overlaps, NEW l \in Loops, Starts(loops, l), ~IsRunning(loops, poll),
         UNCHANGED <<reset, since, sent, ran, plan>>, settings'.seen = settings.seen
  PROVE  LoopsInv'
<1>1. /\ poll' = l /\ loops[l].st = "off" /\ reset = 0
      /\ \A k \in Loops : loops'[k] = IF k = l THEN Fresh ELSE loops[k]
  BY DEF Starts, Typed, ChannelTyped
<1>2. Fresh.st = "top" /\ ~Fresh.aborted /\ Fresh.batch = <<>> /\ 0 \notin Loops /\ Len(Fresh.batch) = 0
  BY FreshIsTyped, ChannelFacts
<1>. USE DEF LoopsInv
<1>3. \A k \in Loops : Alive(k) => loops[k].aborted
  BY ChannelFacts DEF OnePolls, IsRunning
<1>4. (OnePolls /\ ResetWaits)'
  BY <1>1, <1>2, <1>3 DEF OnePolls, ResetWaits, Alive
<1>5. CopiesAreCurrent'
  <2>1. CASE "confirm" \notin plan.kinds
    BY <1>1, <1>2, <2>1 DEF CopiesAreCurrent
  <2>2. CASE "confirm" \in plan.kinds
    <3>1. \A k \in Loops : loops[k].st = "off"
      BY <1>1, <1>2, <1>3, <2>2 DEF CopiesAreCurrent, Alive
    <3>. QED
      BY <1>1, <1>2, <2>2, <3>1 DEF CopiesAreCurrent, Alive
  <2>. QED
    BY <2>1, <2>2
<1>6. BatchIsNew'
  BY <1>1, <1>2, <1>3 DEF BatchIsNew, Alive
<1>7. RanIsNoted'
  BY DEF RanIsNoted
<1>. QED
  BY <1>4, <1>5, <1>6, <1>7

\* The loop that polls is aborted: by a disarm, or by a reset that waits for it.
LEMMA OnceWhenAborting ==
  ASSUME Typed, LoopsInv, loops' = Aborted,
         plan.disarms = 0 \/ "confirm" \notin plan.kinds,
         \/ reset' = reset /\ plan.disarms # 0
         \/ reset' = poll /\ reset = 0,
         UNCHANGED <<poll, since, sent, ran, plan, settings>>
  PROVE  LoopsInv'
<1>1. \A k \in Loops : /\ loops'[k].st = loops[k].st /\ loops'[k].batch = loops[k].batch
                       /\ loops'[k].copy = loops[k].copy
                       /\ loops'[k].aborted = (loops[k].aborted \/ k = poll)
  BY ChannelFacts DEF Aborted, Typed, ChannelTyped, LoopType
<1>. USE DEF LoopsInv
<1>2. \A k \in Loops : Alive(k) => loops'[k].aborted
  BY <1>1, ChannelFacts DEF OnePolls, LoopType
<1>3. (OnePolls /\ ResetWaits)'
  BY <1>1, <1>2, ChannelFacts DEF OnePolls, ResetWaits, Alive
<1>4. CopiesAreCurrent'
  <2>1. CASE "confirm" \notin plan.kinds
    BY <1>1, <2>1 DEF CopiesAreCurrent
  <2>2. CASE "confirm" \in plan.kinds
    <3>1. reset' = poll
      BY <2>2
    <3>2. \A k \in Loops : Alive(k)' => poll' = k /\ reset' = k
      BY <1>1, <2>2, <3>1 DEF CopiesAreCurrent, Alive
    <3>. QED
      BY <1>1, <2>2, <3>2 DEF CopiesAreCurrent
  <2>. QED
    BY <2>1, <2>2
<1>5. BatchIsNew'
  BY <1>1, <1>2 DEF BatchIsNew, Alive
<1>6. RanIsNoted'
  BY DEF RanIsNoted
<1>. QED
  BY <1>3, <1>4, <1>5, <1>6

\* The binding is reset, or everything crashes, with no loop that polls.
LEMMA OnceWhenStopped ==
  ASSUME Typed, LoopsInv, \A l \in Loops : Alive(l)' => Alive(l) /\ loops'[l] = loops[l],
         poll' = 0, reset' = 0, \A l \in Loops : Alive(l)' => loops[l].aborted /\ poll = 0,
         \/ since' = since /\ settings'.seen = settings.seen
         \/ since' = Len(sent),
         UNCHANGED <<sent, ran, plan>>
  PROVE  LoopsInv'
<1>. USE DEF LoopsInv
<1>1. (OnePolls /\ ResetWaits)'
  BY DEF OnePolls, ResetWaits, Alive
<1>2. CopiesAreCurrent'
  <2>1. \A k \in Loops : loops'[k].st = "closing" => loops[k].st = "closing" /\ Alive(k)' /\ Alive(k)
    BY DEF Alive
  <2>2. CASE "confirm" \notin plan.kinds
    BY <2>1, <2>2 DEF CopiesAreCurrent
  <2>3. CASE "confirm" \in plan.kinds
    <3>1. \A k \in Loops : ~Alive(k)'
      BY <2>3, ChannelFacts DEF CopiesAreCurrent
    <3>. QED
      BY <2>1, <2>3, <3>1 DEF CopiesAreCurrent
  <2>. QED
    BY <2>2, <2>3
<1>3. BatchIsNew'
  BY DEF BatchIsNew
<1>4. RanIsNoted'
  BY ChannelFacts DEF RanIsNoted
<1>. QED
  BY <1>1, <1>2, <1>3, <1>4

LEMMA OnceWhenEnsuring ==
  ASSUME Typed, LoopsInv, ~Overlaps, NEW arm, NEW file, EnsurePolling(loops, poll, arm, file),
         UNCHANGED <<reset, since, sent, ran, plan>>, settings'.seen = settings.seen
  PROVE  LoopsInv'
<1>1. CASE loops' = loops /\ poll' = poll
  BY <1>1, OnceWhenQuiet, ChannelFacts
<1>2. CASE ~IsRunning(loops, poll) /\ \E l \in Loops : Starts(loops, l)
  BY <1>2, OnceWhenStarting
<1>. QED
  BY <1>1, <1>2, EnsureEffects

LEMMA DeskStepsKeepOnce ==
  ASSUME Typed, LoopsInv, ~Overlaps, plan.disarms = 0 \/ "confirm" \notin plan.kinds, DeskStep
  PROVE  LoopsInv'
<1>1. plan \in Plans /\ used \in [DOMAIN plan -> Nat] /\ settings \in SettingsType
  BY DEF Typed, TasksTyped, ChannelTyped
<1>2. CASE Arm
  BY <1>2, OnceWhenEnsuring DEF Arm
<1>3. CASE GetStatus
  BY <1>3, OnceWhenEnsuring DEF GetStatus, taskVars
<1>4. CASE Login
  <2>. DEFINE file == [settings EXCEPT !.account = TRUE]
  <2>1. EnsurePolling(loops, poll, armed, file) /\ settings' = file /\ file.seen = settings.seen
    BY <1>1, <1>4 DEF Login, SettingsType
  <2>. HIDE DEF file
  <2>. QED
    BY <1>4, <2>1, OnceWhenEnsuring DEF Login, taskVars
<1>5. CASE Switch
  <2>. DEFINE file == [settings EXCEPT !.on = ~@]
  <2>1. EnsurePolling(loops, poll, armed, file) /\ settings' = file /\ file.seen = settings.seen
    BY <1>1, <1>5 DEF Switch, SettingsType
  <2>. HIDE DEF file
  <2>. QED
    BY <1>5, <2>1, OnceWhenEnsuring DEF Switch
<1>6. CASE Send
  <2>1. Len(sent') \in Nat /\ Len(sent) <= Len(sent')
    BY <1>6 DEF Send, Typed, ChannelTyped
  <2>. QED
    BY <1>6, <2>1, OnceWhenQuiet DEF Send
<1>7. CASE Disarm
  <2>1. "disarms" \in DOMAIN plan /\ plan.disarms \in Nat
    BY <1>1, PlanFields
  <2>2. plan.disarms # 0
    BY <1>1, <1>7, <2>1, SpendCounts DEF Disarm
  <2>. QED
    BY <1>7, <2>2, OnceWhenAborting DEF Disarm
<1>8. CASE ResetBinding
  <2>1. CASE poll = 0
    <3>1. Resets(settings) /\ UNCHANGED <<loops, poll, sent, ran, plan>>
      BY <1>8, <2>1 DEF ResetBinding
    <3>2. reset' = 0 /\ since' = Len(sent)
      BY <3>1 DEF Resets
    <3>3. \A l \in Loops : Alive(l)' => Alive(l) /\ loops'[l] = loops[l] /\ loops[l].aborted /\ poll = 0
      BY <2>1, <3>1, ChannelFacts DEF LoopsInv, OnePolls, Alive
    <3>. QED
      BY <2>1, <3>1, <3>2, <3>3, OnceWhenStopped
  <2>2. CASE poll # 0
    BY <1>8, <2>2, OnceWhenAborting DEF ResetBinding
  <2>. QED
    BY <2>1, <2>2
<1>. QED
  BY <1>2, <1>3, <1>4, <1>5, <1>6, <1>7, <1>8 DEF DeskStep

LEMMA TurnsWhenBecomes ==
  ASSUME Typed, NEW l \in Loops, NEW lp, Becomes(l, lp)
  PROVE  Turns(l, lp)
BY DEF Typed, ChannelTyped, Becomes, Turns

\* The loop l goes to another state of its round.
LEMMA OnceWhenGoing ==
  ASSUME Typed, LoopsInv, NEW l \in Loops, NEW st \in {"top", "polling", "batch"}, Goes(l, st), Alive(l),
         UNCHANGED <<poll, reset, since, sent, ran, settings, plan>>
  PROVE  LoopsInv'
<1>. DEFINE lp == [loops[l] EXCEPT !.st = st]
<1>1. lp.st = st /\ lp.batch = loops[l].batch /\ lp.aborted = loops[l].aborted
  BY ChannelFacts, LoopFields
<1>2. Turns(l, lp)
  BY DEF Goes, Turns, Typed, ChannelTyped
<1>. HIDE DEF lp
<1>3. ~lp.aborted => \A i \in 1..Len(lp.batch) : since < lp.batch[i]
  BY <1>1 DEF LoopsInv, BatchIsNew
<1>. QED
  BY <1>1, <1>2, <1>3, OnceWhenTurning

\* The loop l takes a message and goes on.
LEMMA OnceWhenHandling ==
  ASSUME Typed, LoopsInv, NEW l \in Loops, NEW kind, Takes(l, kind),
         NEW st \in {"batch", "plain", "creating"}, Handled(l, st),
         UNCHANGED <<poll, reset, since, sent, plan>>, settings'.seen = Noted(l).seen
  PROVE  LoopsInv'
<1>. DEFINE lp == [loops[l] EXCEPT !.batch = Tail(@), !.st = st]
<1>1. lp.st = st /\ lp.batch = Tail(loops[l].batch) /\ lp.aborted = loops[l].aborted
  BY ChannelFacts DEF LoopType
<1>2. Turns(l, lp)
  BY DEF Handled, Turns, Typed, ChannelTyped
<1>3. settings'.seen = settings.seen \union {Head(loops[l].batch)}
  BY DEF Noted, Typed, ChannelTyped, SettingsType
<1>. HIDE DEF lp
<1>. QED
  BY <1>1, <1>2, <1>3, OnceWhenTaking

LEMMA LoopStepsKeepOnce ==
  ASSUME Typed, LoopsInv, ~Overlaps, NEW l \in Loops, LoopStep(l)
  PROVE  LoopsInv'
<1>1. /\ settings \in SettingsType /\ loops[l] \in LoopType /\ plan' = plan /\ sent' = sent
      /\ loops \in [Loops -> LoopType]
  BY DEF Typed, ChannelTyped, LoopStep, LoopSteps, LoopTop, PollReturns, BatchEnds, Dropped, TakePlain,
     PlainEnds, TakeCreate, CreateEnds, TakeClose, TakeConfirm, CloseEnds, TakeStart, Receive,
     SessionExpires, taskVars
<1>2. ASSUME Alive(l), UNCHANGED <<poll, reset, since, ran, settings>>,
             NEW st \in {"top", "polling", "batch"}, Goes(l, st)
      PROVE  LoopsInv'
  BY <1>1, <1>2, OnceWhenGoing
<1>3. ASSUME Alive(l), ran' = ran, NEW file, file.seen = settings.seen, Ends(l, file)
      PROVE  LoopsInv'
  BY <1>1, <1>3, OnceWhenEnding
<1>4. CASE LoopTop(l)
  BY <1>2, <1>3, <1>4 DEF LoopTop, Alive
<1>5. CASE PollReturns(l)
  BY <1>2, <1>3, <1>5 DEF PollReturns, Alive
<1>6. CASE BatchEnds(l)
  BY <1>2, <1>3, <1>6 DEF BatchEnds, Alive
<1>7. CASE PlainEnds(l) \/ CreateEnds(l)
  BY <1>2, <1>7 DEF PlainEnds, CreateEnds, Alive
<1>8. CASE SessionExpires(l)
  <2>. DEFINE file == [settings EXCEPT !.on = FALSE, !.account = Lark, !.cursor = 0]
  <2>1. Ends(l, file) /\ Alive(l) /\ ran' = ran
    BY <1>8 DEF SessionExpires, Alive
  <2>2. file.seen = settings.seen
    BY <1>1 DEF SettingsType
  <2>. HIDE DEF file
  <2>. QED
    BY <1>3, <2>1, <2>2
<1>9. CASE Receive(l)
  <2>1. /\ settings'.seen = settings.seen /\ Alive(l) /\ ~loops[l].aborted
        /\ UNCHANGED <<poll, reset, since, ran>>
    BY <1>1, <1>9 DEF Receive, Alive, SettingsType
  <2>2. PICK first \in Nat :
          /\ since <= first /\ first <= Len(sent)
          /\ loops' = [loops EXCEPT ![l].st = "batch", ![l].batch = [i \in 1..(Len(sent) - first) |-> first + i]]
    <3>1. \A a, b \in Nat : LET c == IF a > b THEN a ELSE b IN c \in Nat /\ b <= c
      OBVIOUS
    <3>2. settings.cursor \in Nat /\ since \in Nat /\ since <= Len(sent) /\ settings.cursor <= Len(sent)
      BY ChannelFacts DEF Typed, ChannelTyped
    <3>. DEFINE next == IF settings.cursor > since THEN settings.cursor ELSE since
    <3>3. next \in Nat /\ since <= next /\ next <= Len(sent)
      BY <3>1, <3>2
    <3>. QED
      BY <1>9, <3>2, <3>3 DEF Receive
  <2>. DEFINE batch == [i \in 1..(Len(sent) - first) |-> first + i]
              lp == [loops[l] EXCEPT !.st = "batch", !.batch = batch]
  <2>3. \A i \in 1..Len(batch) : since < batch[i]
    BY <2>2, ChannelFacts
  <2>. HIDE DEF batch
  <2>4. Turns(l, lp)
    BY <1>1, <2>2 DEF Turns, batch
  <2>5. lp.st = "batch" /\ lp.batch = batch /\ lp.aborted = loops[l].aborted
    BY <1>1 DEF LoopType
  <2>. HIDE DEF lp
  <2>. QED
    BY <1>1, <2>1, <2>3, <2>4, <2>5, OnceWhenTurning
<1>10. CASE Dropped(l)
  <2>. DEFINE lp == [loops[l] EXCEPT !.batch = Tail(@)]
  <2>1. /\ Alive(l) /\ ~loops[l].aborted /\ loops[l].st = "batch" /\ loops[l].batch # <<>>
        /\ UNCHANGED <<poll, reset, since, ran, settings>> /\ Turns(l, lp)
    BY <1>1, <1>10 DEF Dropped, Alive, Turns
  <2>2. lp.batch = Tail(loops[l].batch) /\ lp.st = "batch" /\ lp.aborted = loops[l].aborted
    BY <1>1, <2>1 DEF LoopType
  <2>. HIDE DEF lp
  <2>3. \A i \in 1..Len(loops[l].batch) : since < loops[l].batch[i]
    BY <2>1 DEF LoopsInv, BatchIsNew
  <2>4. \A i \in 1..Len(lp.batch) : since < lp.batch[i]
    BY <1>1, <2>1, <2>2, <2>3, LoopFields
  <2>. QED
    BY <1>1, <2>1, <2>2, <2>4, OnceWhenTurning
<1>11. CASE TakePlain(l)
  BY <1>1, <1>11, OnceWhenHandling DEF TakePlain
<1>12. CASE TakeCreate(l)
  <2>1. \E st \in {"creating", "batch"} : Handled(l, st)
    BY <1>12 DEF TakeCreate, Refused
  <2>2. settings' = Noted(l)
    BY <1>12 DEF TakeCreate, Refused
  <2>. QED
    BY <1>1, <1>12, <2>1, <2>2, OnceWhenHandling DEF TakeCreate
<1>13. CASE TakeClose(l)
  <2>1. Handled(l, "batch") /\ Takes(l, "close") /\ UNCHANGED <<poll, reset, since>>
    BY <1>13 DEF TakeClose, Refused
  <2>2. Noted(l) \in SettingsType
    BY <2>1, NotedTyped DEF Takes, Typed
  <2>3. \A s : [Noted(l) EXCEPT !.confirm = s].seen = Noted(l).seen
    BY <2>2 DEF SettingsType
  <2>4. settings'.seen = Noted(l).seen
    BY <1>13, <2>3 DEF TakeClose, Refused
  <2>. QED
    BY <1>1, <2>1, <2>4, OnceWhenHandling
<1>14. CASE TakeConfirm(l)
  <2>1. /\ Takes(l, "confirm") /\ UNCHANGED <<poll, reset, since>> /\ settings' = Noted(l)
    BY <1>14 DEF TakeConfirm, Refused
  <2>2. CASE Handled(l, "batch")
    BY <1>1, <2>1, <2>2, OnceWhenHandling
  <2>3. CASE loops' = [loops EXCEPT ![l].batch = Tail(@), ![l].st = "closing", ![l].copy = Noted(l)]
    <3>. DEFINE lp == [loops[l] EXCEPT !.batch = Tail(@), !.st = "closing", !.copy = Noted(l)]
    <3>1. Turns(l, lp)
      BY <1>1, <2>3 DEF Turns
    <3>2. /\ lp.st = "closing" /\ lp.batch = Tail(loops[l].batch) /\ lp.aborted = loops[l].aborted
          /\ lp.copy = Noted(l)
      BY <1>1 DEF LoopType
    <3>. HIDE DEF lp
    <3>3. "confirm" \in plan.kinds
      BY <2>1, TakenIsSent DEF Takes, Typed, Sendable
    <3>4. settings'.seen = settings.seen \union {Head(loops[l].batch)}
      BY <1>1, <2>1 DEF Noted, SettingsType
    <3>. QED
      BY <1>1, <2>1, <3>1, <3>2, <3>3, <3>4, OnceWhenTaking
  <2>. QED
    BY <1>14, <2>2, <2>3 DEF TakeConfirm, Refused
<1>15. CASE CloseEnds(l)
  <2>. DEFINE lp == [loops[l] EXCEPT !.st = "batch", !.copy = 0]
  <2>1. /\ Turns(l, lp) /\ lp.st = "batch" /\ lp.batch = loops[l].batch /\ lp.aborted = loops[l].aborted
        /\ loops[l].st = "closing" /\ Alive(l) /\ UNCHANGED <<poll, reset, since, ran>>
    BY <1>1, <1>15 DEF CloseEnds, Turns, LoopType, Alive
  <2>. HIDE DEF lp
  <2>2. loops[l].copy.seen = settings.seen
    BY <2>1 DEF LoopsInv, CopiesAreCurrent
  <2>3. settings'.seen = settings.seen
    <3>1. loops[l].copy \in SettingsType
      BY <2>1 DEF Typed, ChannelTyped
    <3>. QED
      BY <1>15, <2>2, <3>1 DEF CloseEnds, SettingsType
  <2>4. ~lp.aborted => \A i \in 1..Len(lp.batch) : since < lp.batch[i]
    BY <2>1 DEF LoopsInv, BatchIsNew
  <2>. QED
    BY <1>1, <2>1, <2>3, <2>4, OnceWhenTurning
<1>16. CASE TakeStart(l)
  <2>. DEFINE lp == [loops[l] EXCEPT !.batch = Tail(@)]
              gone == [loops EXCEPT ![l].batch = Tail(@)]
              file == [Noted(l) EXCEPT !.on = TRUE]
  <2>1. Takes(l, "start") /\ UNCHANGED <<reset, since>>
    BY <1>16 DEF TakeStart
  <2>2. /\ lp.batch = Tail(loops[l].batch) /\ lp.st = "batch" /\ lp.aborted = loops[l].aborted
        /\ ~loops[l].aborted /\ Alive(l)
    BY <1>1, <2>1 DEF LoopType, Takes, Alive
  <2>3. Noted(l) \in SettingsType /\ file.seen = Noted(l).seen
        /\ Noted(l).seen = settings.seen \union {Head(loops[l].batch)}
    BY <1>1, <2>1, NotedTyped DEF Takes, Typed, SettingsType, Noted
  <2>4. gone[l] = lp /\ gone \in [Loops -> LoopType] /\ \A k \in Loops : k # l => gone[k] = loops[k]
    BY <1>1, <2>1, LoopFields DEF LoopType, Takes
  <2>5. \/ settings' = Noted(l) /\ loops' = gone /\ poll' = poll
        \/ settings' = file /\ EnsurePolling(gone, poll, armed, file)
    BY <1>16 DEF TakeStart
  <2>. HIDE DEF lp, file, gone
  <2>6. IsRunning(gone, poll)
    <3>1. poll = l /\ l # 0
      BY <2>2, ChannelFacts DEF LoopsInv, OnePolls
    <3>. QED
      BY <2>2, <2>4, <3>1 DEF IsRunning
  <2>7. loops' = gone /\ poll' = poll /\ settings'.seen = settings.seen \union {Head(loops[l].batch)}
    BY <2>3, <2>5, <2>6, EnsureEffects
  <2>8. Turns(l, lp)
    BY <2>4, <2>7 DEF Turns
  <2>. QED
    BY <1>1, <2>1, <2>2, <2>7, <2>8, OnceWhenTaking
<1>. QED
  BY <1>4, <1>5, <1>6, <1>7, <1>8, <1>9, <1>10, <1>11, <1>12, <1>13, <1>14, <1>15, <1>16
     DEF LoopStep, LoopSteps

LEMMA OnceStep ==
  ASSUME Typed, LoopsInv, ~Overlaps, plan.disarms = 0 \/ "confirm" \notin plan.kinds, [Next]_vars
  PROVE  LoopsInv'
<1>1. ASSUME UNCHANGED <<loops, poll, reset, since, ran, plan, sent>>, settings'.seen = settings.seen
      PROVE  LoopsInv'
  BY <1>1, OnceWhenQuiet, ChannelFacts
<1>2. CASE TasksNext /\ UNCHANGED gatewayVars
  <2>1. plan' = plan
    BY <1>2 DEF TasksNext, BeginCreate, BeginClose, BeginLaunch, Connect, Progress,
       AddWorktree, SaveTask, StartRole, StopSessions, RemoveWorktree, DeleteBranch, RemoveRecord,
       Retry, PullFails, SaveFails, StartFails, Tick, EnsureTool, SessionExits
  <2>. QED
    BY <1>1, <1>2, <2>1 DEF gatewayVars
<1>3. CASE UNCHANGED vars
  BY <1>1, <1>3 DEF vars, taskVars, gatewayVars
<1>4. CASE DeskStep
  BY <1>4, DeskStepsKeepOnce
<1>5. CASE \E l \in Loops : LoopStep(l)
  BY <1>5, LoopStepsKeepOnce
<1>6. CASE PushStep
  <2>1. settings'.seen = settings.seen
    BY <1>6 DEF PushStep, RoleStops, NotFinal, PushOriginal, PushEnds, Typed, ChannelTyped, SettingsType
  <2>. QED
    BY <1>1, <1>6, <2>1 DEF PushStep, RoleStops, NotFinal, PushOriginal, PushEnds, taskVars
<1>7. CASE Restart
  BY <1>1, <1>7 DEF Restart, TasksRestart, gatewayVars
<1>8. CASE GatewayCrash
  <2>1. /\ poll' = 0 /\ reset' = 0 /\ \A l \in Loops : loops'[l] = Off
        /\ UNCHANGED <<settings, sent, since, ran, plan>>
    BY <1>8 DEF GatewayCrash, TasksCrash
  <2>2. \A l \in Loops : ~Alive(l)'
    BY <2>1, FreshIsTyped DEF Alive
  <2>. QED
    BY <2>1, <2>2, OnceWhenStopped
<1>. QED
  BY <1>2, <1>3, <1>4, <1>5, <1>6, <1>7, <1>8, Zenon DEF Next, DeskStep, LoopStep, PushStep

LEMMA StartIsOnce ==
  ASSUME Init, plan.disarms = 0 \/ "confirm" \notin plan.kinds
  PROVE  LoopsInv
<1>1. \A l \in Loops : ~Alive(l) /\ loops[l].st # "closing"
  BY FreshIsTyped DEF Init, Alive
<1>2. OnePolls /\ ResetWaits /\ BatchIsNew /\ RanIsNoted
  BY <1>1 DEF Init, OnePolls, ResetWaits, BatchIsNew, RanIsNoted
<1>. QED
  BY <1>1, <1>2 DEF LoopsInv, CopiesAreCurrent

\* No message of the phone is executed twice, whatever the channel delivers
\* again and however often the switch goes up and down and the binding is
\* reset (handleIncomingMessage, pollLoop).  The switch does not go down in
\* a plan in which the phone closes tasks: the aborted loop that is still
\* closing one saves the settings it read before, and the notes of the next
\* loop with them.
THEOREM MessagesRunOnce ==
  ASSUME ~Overlaps, \A p \in Plans : p.disarms = 0 \/ "confirm" \notin p.kinds
  PROVE  Spec => []HandledOnce
<1>1. Init => Typed /\ LoopsInv
  BY StartIsTyped, StartIsOnce DEF Typed, TasksTyped
<1>2. Typed /\ LoopsInv /\ [Next]_vars => (Typed /\ LoopsInv)'
  BY StepIsTyped, OnceStep DEF Typed, TasksTyped
<1>3. Typed /\ LoopsInv => HandledOnce
  BY DEF LoopsInv, RanIsNoted, HandledOnce
<1>. QED
  BY <1>1, <1>2, <1>3, PTL DEF Spec

(***************************************************************************)
(* A reply is pushed once, but for a crash or a reset.                     *)
(***************************************************************************)
NoNewCloses == \A l \in Loops : loops'[l].st = "closing" => loops[l].st = "closing" \/ "confirm" \in plan.kinds
LEMMA PushFacts ==
  ASSUME Typed
  PROVE  /\ plan \in Plans /\ used \in [DOMAIN plan -> Nat]
         /\ {"crashes", "resets"} \subseteq DOMAIN plan
         /\ Excused \in Nat /\ settings.pushed \in Nat
         /\ pushed \in [1..MaxReplies -> Nat] /\ push.event \in Nat
         /\ push = [st |-> push.st, event |-> push.event]
         /\ push.st # "none" => push.event \in 1..MaxReplies
         /\ NoPush.st = "none" /\ NoPush # [st |-> "translating", event |-> push.event]
<1>1. /\ plan \in Plans /\ used \in [DOMAIN plan -> Nat] /\ settings \in SettingsType
      /\ push \in [st : {"none", "waiting", "translating"}, event : 0..MaxReplies]
  BY DEF Typed, TasksTyped, ChannelTyped, PushTyped
<1>2. {"crashes", "resets"} \subseteq DOMAIN plan
  BY <1>1, PlanFields
<1>3. used["crashes"] \in Nat /\ used["resets"] \in Nat
  BY <1>1, <1>2
<1>. QED
  BY <1>1, <1>2, <1>3, GatewayAssumption DEF Typed, PushTyped, SettingsType, NoPush, Excused

\* A step that pushes nothing, and pays for a cursor that goes back or a push
\* that is lost with a crash, a reset or the reset that was waited for.
LEMMA PushedWhenPaid ==
  ASSUME Typed, PushInv, NoNewCloses, UNCHANGED <<pushed, plan>>,
         push' \in {push, NoPush}, settings'.pushed \in {settings.pushed, 0},
         Excused' \in Nat,
         LET cost == IF push' = push /\ settings'.pushed = settings.pushed THEN 0 ELSE 1
         IN  Waits' + Excused + cost <= Waits + Excused'
  PROVE  PushInv'
<1>1. Waits \in {0, 1} /\ Waits' \in {0, 1}
  BY DEF Waits
<1>2. \A e \in 1..MaxReplies : Told(e) \in {0, 1} /\ Told(e)' \in {0, 1}
  BY DEF Told
<1>3. push' = push /\ settings'.pushed = settings.pushed => \A e \in 1..MaxReplies : Told(e)' = Told(e)
  BY DEF Told
<1>4. ASSUME plan.stops # 0, NEW e \in 1..MaxReplies
      PROVE  (pushed[e] + Waits <= Told(e) + Excused)'
  <2>1. pushed[e] + Waits <= Told(e) + Excused /\ pushed[e] \in Nat
    BY <1>4, PushFacts DEF PushInv
  <2>. HIDE DEF PushInv, Typed
  <2>2. CASE push' = push /\ settings'.pushed = settings.pushed
    <3>1. Waits' + Excused <= Waits + Excused'
      BY <1>1, <2>2, PushFacts
    <3>2. Told(e)' = Told(e) /\ pushed' = pushed
      BY <1>3, <2>2
    <3>. QED
      BY <1>1, <1>2, <2>1, <3>1, <3>2, PushFacts
  <2>3. CASE ~(push' = push /\ settings'.pushed = settings.pushed)
    <3>1. Waits' + Excused + 1 <= Waits + Excused'
      BY <1>1, <2>3, PushFacts
    <3>. QED
      BY <1>1, <1>2, <2>1, <3>1, PushFacts
  <2>. QED
    BY <2>2, <2>3
<1>5. push'.st = "translating" => push'.event > settings'.pushed
  BY PushFacts DEF PushInv
<1>. QED
  BY <1>4, <1>5 DEF PushInv, NoNewCloses

LEMMA PushedWhenQuiet ==
  ASSUME Typed, PushInv, NoNewCloses, UNCHANGED <<push, pushed, reset, plan>>,
         settings'.pushed = settings.pushed, Excused' = Excused
  PROVE  PushInv'
<1>1. Waits' = Waits /\ Waits \in Nat
  BY DEF Waits
<1>. QED
  BY <1>1, PushedWhenPaid, PushFacts

\* What is spent on anything else leaves what crashes and resets have used.
LEMMA OtherSpendings ==
  ASSUME Typed, NEW what \in {"creates", "faults", "exits", "arms", "disarms", "switches", "messages", "stops"},
         Spend(what)
  PROVE  Excused' = Excused
<1>1. what \in DOMAIN plan /\ "crashes" \in DOMAIN plan /\ "resets" \in DOMAIN plan
  BY PushFacts, PlanFields
<1>2. used'["crashes"] = used["crashes"] /\ used'["resets"] = used["resets"]
  BY <1>1, PushFacts DEF Spend
<1>. QED
  BY <1>2 DEF Excused

\* No command starts a close but the confirmation.
LEMMA ClosesAreConfirmed ==
  ASSUME Typed, Typed', [Next]_vars
  PROVE  NoNewCloses
<1>1. /\ loops \in [Loops -> LoopType] /\ loops' \in [Loops -> LoopType]
      /\ \A k \in Loops : loops[k] \in LoopType
      /\ Fresh.st = "top" /\ Off.st = "off"
  BY FreshIsTyped DEF Typed, ChannelTyped
<1>2. loops' = loops => NoNewCloses
  BY DEF NoNewCloses
<1>3. ASSUME NEW l \in Loops, NEW lp, loops' = [loops EXCEPT ![l] = lp], lp.st # "closing" \/ lp.st = loops[l].st
      PROVE  NoNewCloses
  BY <1>1, <1>3 DEF NoNewCloses
<1>4. ASSUME NEW ls, ls \in [Loops -> LoopType], \A k \in Loops : ls[k].st = loops[k].st,
             NEW p, NEW arm, NEW file, EnsurePolling(ls, p, arm, file)
      PROVE  NoNewCloses
  <2>1. CASE loops' = ls
    BY <1>4, <2>1 DEF NoNewCloses
  <2>2. CASE \E l \in Loops : Starts(ls, l)
    BY <1>1, <1>4, <2>2 DEF Starts, NoNewCloses
  <2>. QED
    BY <1>4, <2>1, <2>2, EnsureEffects
<1>5. ASSUME loops' = Aborted PROVE NoNewCloses
  BY <1>1, <1>5, ChannelFacts DEF Aborted, NoNewCloses, LoopType
<1>6. CASE DeskStep
  <2>1. ASSUME NEW arm, NEW file, EnsurePolling(loops, poll, arm, file) PROVE NoNewCloses
    BY <1>1, <1>4, <2>1
  <2>2. CASE Arm \/ GetStatus \/ Login \/ Switch
    BY <2>1, <2>2 DEF Arm, GetStatus, Login, Switch
  <2>3. CASE Disarm \/ ResetBinding
    BY <1>2, <1>5, <2>3 DEF Disarm, ResetBinding
  <2>4. CASE Send
    BY <1>2, <2>4 DEF Send
  <2>. QED
    BY <1>6, <2>2, <2>3, <2>4 DEF DeskStep
<1>7. ASSUME NEW l \in Loops, LoopStep(l) PROVE NoNewCloses
  <2>1. ASSUME NEW st \in {"top", "polling", "batch", "plain", "creating"}, Goes(l, st) \/ Handled(l, st)
        PROVE  NoNewCloses
    BY <1>1, <2>1 DEF Goes, Handled, NoNewCloses, LoopType
  <2>2. ASSUME NEW file, Ends(l, file) PROVE NoNewCloses
    BY <1>1, <2>2 DEF Ends, NoNewCloses
  <2>3. CASE LoopTop(l) \/ PollReturns(l) \/ BatchEnds(l) \/ SessionExpires(l)
    BY <2>1, <2>2, <2>3 DEF LoopTop, PollReturns, BatchEnds, SessionExpires
  <2>4. CASE PlainEnds(l) \/ CreateEnds(l)
    BY <2>1, <2>4 DEF PlainEnds, CreateEnds
  <2>5. CASE TakePlain(l) \/ TakeCreate(l) \/ TakeClose(l)
    BY <2>1, <2>5 DEF TakePlain, TakeCreate, TakeClose, Refused
  <2>6. CASE TakeConfirm(l)
    <3>1. Takes(l, "confirm")
      BY <2>6 DEF TakeConfirm
    <3>2. "confirm" \in plan.kinds
      BY <3>1, TakenIsSent DEF Takes, Typed, Sendable
    <3>. QED
      BY <3>2 DEF NoNewCloses
  <2>7. CASE Receive(l) \/ Dropped(l) \/ CloseEnds(l)
    <3>1. ASSUME NEW batch, loops' = [loops EXCEPT ![l].st = "batch", ![l].batch = batch]
          PROVE  NoNewCloses
      BY <1>1, <3>1 DEF NoNewCloses, LoopType
    <3>2. CASE Receive(l)
      BY <3>1, <3>2 DEF Receive
    <3>3. CASE Dropped(l)
      BY <1>1, <3>3 DEF Dropped, NoNewCloses, LoopType
    <3>4. CASE CloseEnds(l)
      BY <1>1, <3>4 DEF CloseEnds, NoNewCloses, LoopType
    <3>. QED
      BY <2>7, <3>2, <3>3, <3>4
  <2>8. CASE TakeStart(l)
    <3>. DEFINE gone == [loops EXCEPT ![l].batch = Tail(@)]
    <3>1. loops[l].batch # <<>>
      BY <2>8 DEF TakeStart, Takes
    <3>2. gone \in [Loops -> LoopType] /\ \A k \in Loops : gone[k].st = loops[k].st
      BY <1>1, <3>1, LoopFields DEF LoopType
    <3>3. loops' = gone \/ \E file : EnsurePolling(gone, poll, armed, file)
      BY <2>8 DEF TakeStart
    <3>. HIDE DEF gone
    <3>4. ASSUME loops' = gone PROVE NoNewCloses
      BY <3>2, <3>4 DEF NoNewCloses
    <3>. QED
      BY <1>4, <3>2, <3>3, <3>4
  <2>. QED
    BY <1>7, <2>3, <2>4, <2>5, <2>6, <2>7, <2>8 DEF LoopStep, LoopSteps
<1>8. CASE GatewayCrash
  BY <1>1, <1>8 DEF GatewayCrash, NoNewCloses
<1>9. CASE (TasksNext /\ UNCHANGED gatewayVars) \/ PushStep \/ Restart \/ UNCHANGED vars
  BY <1>2, <1>9 DEF gatewayVars, PushStep, RoleStops, NotFinal, PushOriginal, PushEnds, Restart, vars
<1>. QED
  BY <1>6, <1>7, <1>8, <1>9, Zenon DEF Next, DeskStep, LoopStep, PushStep

LEMMA PushStepsKeepCount ==
  ASSUME Typed, PushInv, NoNewCloses, ~Overlaps, PushStep
  PROVE  PushInv'
<1>1. /\ UNCHANGED <<reset, plan>>
      /\ Excused' = Excused
  <2>1. UNCHANGED <<reset, plan>> /\ (used' = used \/ Spend("stops"))
    BY DEF PushStep, RoleStops, NotFinal, PushOriginal, PushEnds, taskVars
  <2>. QED
    BY <2>1, OtherSpendings DEF Excused
<1>2. Waits' = Waits /\ Waits \in Nat
  BY <1>1 DEF Waits
<1>3. ASSUME pushed' = pushed, push'.st # "translating", plan.stops # 0, "confirm" \notin plan.kinds,
             \A e \in 1..MaxReplies : Told(e)' = Told(e)
      PROVE  PushInv'
  BY <1>1, <1>2, <1>3 DEF PushInv, NoNewCloses
<1>4. CASE RoleStops
  <2>1. plan.stops # 0
    <3>1. "stops" \in DOMAIN plan /\ plan.stops \in Nat
      BY PushFacts, PlanFields
    <3>. QED
      BY <1>4, <3>1, PushFacts, SpendCounts DEF RoleStops
  <2>2. push = NoPush /\ push'.st = "waiting" /\ UNCHANGED <<settings, pushed>>
    BY <1>4 DEF RoleStops
  <2>3. \A e \in 1..MaxReplies : Told(e)' = Told(e)
    BY <2>2 DEF Told, NoPush
  <2>4. "confirm" \notin plan.kinds /\ push'.st # "translating"
    BY <2>1, <2>2 DEF PushInv
  <2>. QED
    BY <1>3, <2>1, <2>2, <2>3, <2>4
<1>5. ASSUME push.st # "none"
      PROVE  plan.stops # 0 /\ "confirm" \notin plan.kinds
  <2>1. push # NoPush
    BY <1>5, PushFacts
  <2>. QED
    BY <2>1 DEF PushInv
<1>6. ASSUME push.st = "waiting", push' = NoPush, UNCHANGED <<settings, pushed>> PROVE PushInv'
  <2>1. \A e \in 1..MaxReplies : Told(e)' = Told(e)
    BY <1>6 DEF Told, NoPush
  <2>. QED
    BY <1>3, <1>5, <1>6, <2>1, PushFacts
<1>7. CASE NotFinal
  BY <1>6, <1>7 DEF NotFinal
<1>8. CASE PushEnds
  <2>1. /\ push.st = "translating" /\ settings' = [settings EXCEPT !.pushed = push.event]
        /\ push' = NoPush /\ pushed' = pushed
    BY <1>8 DEF PushEnds
  <2>2. settings'.pushed = push.event
    BY <2>1 DEF Typed, ChannelTyped, SettingsType
  <2>3. push.event > settings.pushed /\ plan.stops # 0 /\ "confirm" \notin plan.kinds
    BY <1>5, <2>1 DEF PushInv
  <2>4. ASSUME NEW e \in 1..MaxReplies PROVE Told(e)' \in {0, 1} /\ Told(e) \in {0, 1} /\ Told(e) <= Told(e)'
    <3>1. e \in Nat /\ push = [st |-> "translating", event |-> push.event] /\ push.event \in Nat
          /\ settings.pushed \in Nat
      BY <2>1, PushFacts, GatewayAssumption
    <3>2. e <= settings.pushed \/ push = [st |-> "translating", event |-> e] => e <= settings'.pushed
      BY <2>2, <2>3, <3>1
    <3>. QED
      BY <3>2 DEF Told
  <2>5. ASSUME NEW e \in 1..MaxReplies
        PROVE  (pushed[e] + Waits <= Told(e) + Excused)'
    <3>1. pushed[e] + Waits <= Told(e) + Excused /\ pushed[e] \in Nat
      BY <2>3, PushFacts DEF PushInv
    <3>. HIDE DEF PushInv
    <3>. QED
      BY <1>1, <1>2, <2>1, <2>4, <3>1, PushFacts
  <2>. QED
    BY <1>1, <2>1, <2>3, <2>5, PushFacts DEF PushInv, NoNewCloses
<1>9. CASE PushOriginal
  <2>1. push.st = "waiting" /\ UNCHANGED settings
    BY <1>9 DEF PushOriginal
  <2>2. CASE push' = NoPush /\ UNCHANGED pushed
    BY <1>6, <2>1, <2>2
  <2>3. CASE /\ pushed' = [pushed EXCEPT ![push.event] = @ + 1] /\ push' = [push EXCEPT !.st = "translating"]
             /\ IsNew(push.event, settings)
    <3>1. /\ push'.st = "translating" /\ push'.event = push.event
          /\ push' = [st |-> "translating", event |-> push.event]
      BY <2>3, PushFacts DEF Typed, PushTyped
    <3>2. push.event > settings.pushed /\ push.event \in 1..MaxReplies
          /\ plan.stops # 0 /\ "confirm" \notin plan.kinds
      BY <1>5, <2>1, <2>3, PushFacts DEF IsNew
    <3>3. ASSUME NEW e \in 1..MaxReplies
          PROVE  (pushed[e] + Waits <= Told(e) + Excused)'
      <4>1. pushed[e] + Waits <= Told(e) + Excused /\ pushed[e] \in Nat
        BY <3>2, PushFacts DEF PushInv
      <4>2. Told(e) \in {0, 1} /\ e \in Nat
        BY GatewayAssumption DEF Told
      <4>. HIDE DEF PushInv
      <4>3. CASE e = push.event
        <5>1. Told(e) = 0
          BY <2>1, <3>2, <4>2, <4>3, PushFacts DEF Told
        <5>2. Told(e)' = 1
          BY <3>1, <4>3 DEF Told
        <5>3. pushed'[e] = pushed[e] + 1
          BY <2>3, <4>3, PushFacts
        <5>. QED
          BY <1>1, <1>2, <4>1, <5>1, <5>2, <5>3, PushFacts
      <4>4. CASE e # push.event
        <5>1. Told(e)' = Told(e)
          BY <2>1, <3>1, <4>4 DEF Told
        <5>2. pushed'[e] = pushed[e]
          BY <2>3, <4>4, PushFacts
        <5>. QED
          BY <1>1, <1>2, <4>1, <5>1, <5>2
      <4>. QED
        BY <4>3, <4>4
    <3>. QED
      BY <1>1, <2>1, <3>1, <3>2, <3>3 DEF PushInv, NoNewCloses
  <2>. QED
    BY <1>9, <2>2, <2>3 DEF PushOriginal
<1>. QED
  BY <1>4, <1>7, <1>8, <1>9 DEF PushStep

LEMMA CountStep ==
  ASSUME Typed, Typed', PushInv, ~Overlaps, [Next]_vars
  PROVE  PushInv'
<1>1. NoNewCloses
  BY ClosesAreConfirmed
<1>2. settings \in SettingsType /\ settings' \in SettingsType
  BY DEF Typed, ChannelTyped
<1>3. ASSUME UNCHANGED <<push, pushed, reset, plan>>, settings'.pushed = settings.pushed,
             \/ used' = used
             \/ \E what \in {"creates", "faults", "exits", "arms", "disarms", "switches", "messages", "stops"} :
                  Spend(what)
      PROVE  PushInv'
  BY <1>1, <1>3, PushedWhenQuiet, OtherSpendings DEF Excused
<1>4. CASE TasksNext /\ UNCHANGED gatewayVars
  <2>1. /\ plan' = plan
        /\ \/ used' = used
           \/ \E what \in {"creates", "faults", "exits", "arms", "disarms", "switches", "messages", "stops"} :
                Spend(what)
    BY <1>4 DEF TasksNext, BeginCreate, BeginClose, BeginLaunch, Connect, Progress,
       AddWorktree, SaveTask, StartRole, StopSessions, RemoveWorktree, DeleteBranch, RemoveRecord,
       Retry, PullFails, SaveFails, StartFails, Tick, EnsureTool, SessionExits
  <2>. QED
    BY <1>3, <1>4, <2>1 DEF gatewayVars
<1>5. CASE UNCHANGED vars
  BY <1>3, <1>5 DEF vars, taskVars, gatewayVars
<1>6. CASE PushStep
  BY <1>1, <1>6, PushStepsKeepCount
<1>7. CASE Restart
  BY <1>3, <1>7 DEF Restart, TasksRestart, gatewayVars
<1>8. CASE GatewayCrash
  <2>1. /\ push' = NoPush /\ reset' = 0 /\ UNCHANGED <<settings, pushed, plan>> /\ Spend("crashes")
    BY <1>8 DEF GatewayCrash, TasksCrash
  <2>2. Excused' = Excused + 1
    <3>1. "crashes" \in DOMAIN plan /\ "resets" \in DOMAIN plan
      BY PushFacts
    <3>2. used'["crashes"] = used["crashes"] + 1 /\ used'["resets"] = used["resets"]
          /\ used["crashes"] \in Nat /\ used["resets"] \in Nat
      BY <2>1, <3>1, PushFacts DEF Spend
    <3>. QED
      BY <3>2 DEF Excused
  <2>3. Waits' = 0 /\ Waits \in Nat /\ Excused \in Nat
    BY <2>1, PushFacts DEF Waits
  <2>. QED
    BY <1>1, <2>1, <2>2, <2>3, PushedWhenPaid
<1>9. CASE DeskStep
  <2>1. CASE Arm \/ Disarm \/ GetStatus \/ Send
    BY <1>3, <2>1 DEF Arm, Disarm, GetStatus, Send, taskVars
  <2>2. CASE Login \/ Switch
    <3>1. settings'.pushed = settings.pushed
      BY <1>2, <2>2 DEF Login, Switch, SettingsType
    <3>. QED
      BY <1>3, <2>2, <3>1 DEF Login, Switch, taskVars
  <2>3. CASE ResetBinding
    <3>1. /\ Spend("resets") /\ reset = 0 /\ UNCHANGED <<push, pushed, plan>>
          /\ \/ settings' = settings
             \/ settings' = ResetFile(settings) /\ reset' = 0
      BY <2>3 DEF ResetBinding, Resets
    <3>2. Excused' = Excused + 1
      <4>1. "crashes" \in DOMAIN plan /\ "resets" \in DOMAIN plan
        BY PushFacts
      <4>2. used'["resets"] = used["resets"] + 1 /\ used'["crashes"] = used["crashes"]
            /\ used["crashes"] \in Nat /\ used["resets"] \in Nat
        BY <3>1, <4>1, PushFacts DEF Spend
      <4>. QED
        BY <4>2 DEF Excused
    <3>3. ResetFile(settings).pushed = 0
      BY <1>2 DEF ResetFile, SettingsType
    <3>4. Waits = 0 /\ Waits' \in {0, 1} /\ Excused \in Nat
      BY <3>1, PushFacts DEF Waits
    <3>5. CASE settings' = settings
      <4>1. Waits' + Excused <= Waits + Excused'
        <5>1. CASE Waits' = 0
          BY <3>2, <3>4, <5>1
        <5>2. CASE Waits' = 1
          BY <3>2, <3>4, <5>2
        <5>. QED
          BY <3>4, <5>1, <5>2
      <4>2. push' = push /\ settings'.pushed = settings.pushed
        BY <3>1, <3>5
      <4>3. Excused' \in Nat /\ Waits' \in Nat
        BY <3>2, <3>4
      <4>. QED
        BY <1>1, <3>1, <4>1, <4>2, <4>3, PushFacts, PushedWhenPaid
    <3>6. CASE settings' = ResetFile(settings) /\ reset' = 0
      <4>1. Waits' = 0 /\ settings'.pushed = 0
        BY <3>3, <3>6 DEF Waits
      <4>. QED
        BY <1>1, <3>1, <3>2, <3>4, <4>1, PushedWhenPaid
    <3>. QED
      BY <3>1, <3>5, <3>6
  <2>. QED
    BY <1>9, <2>1, <2>2, <2>3 DEF DeskStep
<1>10. ASSUME NEW l \in Loops, LoopStep(l) PROVE PushInv'
  <2>1. /\ UNCHANGED <<push, pushed, plan>>
        /\ used' = used \/ Spend("faults")
    BY <1>10 DEF LoopStep, LoopSteps, LoopTop, PollReturns, BatchEnds, Dropped, TakePlain,
       PlainEnds, TakeCreate, CreateEnds, TakeClose, TakeConfirm, CloseEnds, TakeStart, Receive,
       SessionExpires, taskVars
  <2>2. Excused' = Excused /\ Excused \in Nat
    BY <2>1, OtherSpendings, PushFacts DEF Excused
  <2>3. ASSUME reset' = reset, settings'.pushed = settings.pushed PROVE PushInv'
    BY <1>1, <2>1, <2>2, <2>3, PushedWhenQuiet
  <2>4. ASSUME NEW file, Ends(l, file), file.pushed = settings.pushed, file \in SettingsType PROVE PushInv'
    <3>1. CASE reset # l
      <4>1. settings' = file /\ reset' = reset
        BY <2>4, <3>1, Zenon DEF Ends
      <4>. QED
        BY <2>3, <2>4, <4>1
    <3>2. CASE reset = l
      <4>1. settings' = ResetFile(file) /\ reset' = 0
        BY <2>4, <3>2, Zenon DEF Ends, Resets
      <4>2. settings'.pushed = 0
        BY <2>4, <4>1 DEF ResetFile, SettingsType
      <4>3. Waits = 1 /\ Waits' = 0
        BY <3>2, <4>1, ChannelFacts DEF Waits
      <4>. QED
        BY <1>1, <2>1, <2>2, <4>2, <4>3, PushedWhenPaid
    <3>. QED
      BY <3>1, <3>2
  <2>5. CASE LoopTop(l) \/ PollReturns(l) \/ BatchEnds(l)
    BY <1>2, <2>3, <2>4, <2>5 DEF LoopTop, PollReturns, BatchEnds
  <2>6. CASE SessionExpires(l)
    <3>. DEFINE file == [settings EXCEPT !.on = FALSE, !.account = Lark, !.cursor = 0]
    <3>1. file \in SettingsType /\ file.pushed = settings.pushed /\ Ends(l, file)
      BY <1>2, <2>6, GatewayAssumption DEF SessionExpires, SettingsType
    <3>. HIDE DEF file
    <3>. QED
      BY <2>4, <3>1
  <2>7. CASE Dropped(l) \/ PlainEnds(l) \/ CreateEnds(l)
    BY <2>3, <2>7 DEF Dropped, PlainEnds, CreateEnds
  <2>8. CASE Receive(l)
    BY <1>2, <2>3, <2>8 DEF Receive, SettingsType
  <2>9. ASSUME NEW kind, Takes(l, kind)
        PROVE  Noted(l) \in SettingsType /\ Noted(l).pushed = settings.pushed
    <3>1. Noted(l) \in SettingsType
      BY <2>9, NotedTyped DEF Takes, Typed
    <3>2. Noted(l).pushed = settings.pushed
      BY <1>2 DEF Noted, SettingsType
    <3>. QED
      BY <3>1, <3>2
  <2>10. CASE TakePlain(l)
    BY <2>3, <2>9, <2>10 DEF TakePlain
  <2>11. CASE TakeCreate(l)
    BY <2>3, <2>9, <2>11 DEF TakeCreate, Refused
  <2>12. CASE TakeConfirm(l)
    BY <2>3, <2>9, <2>12 DEF TakeConfirm, Refused
  <2>13. CASE TakeClose(l)
    <3>1. \/ settings' = Noted(l)
          \/ \E s : settings' = [Noted(l) EXCEPT !.confirm = s]
      BY <2>13 DEF TakeClose, Refused
    <3>2. Noted(l) \in SettingsType /\ Noted(l).pushed = settings.pushed /\ reset' = reset
      BY <2>9, <2>13 DEF TakeClose
    <3>3. settings'.pushed = settings.pushed
      BY <3>1, <3>2 DEF SettingsType
    <3>. QED
      BY <2>3, <3>2, <3>3
  <2>14. CASE TakeStart(l)
    <3>1. settings' = Noted(l) \/ settings' = [Noted(l) EXCEPT !.on = TRUE]
      BY <2>14 DEF TakeStart
    <3>2. Noted(l) \in SettingsType /\ Noted(l).pushed = settings.pushed /\ reset' = reset
      BY <2>9, <2>14 DEF TakeStart
    <3>3. settings'.pushed = settings.pushed
      BY <3>1, <3>2 DEF SettingsType
    <3>. QED
      BY <2>3, <3>2, <3>3
  <2>15. CASE CloseEnds(l)
    <3>1. "confirm" \in plan.kinds /\ plan.stops = 0 /\ push = NoPush
      BY <2>15 DEF CloseEnds, PushInv
    <3>. QED
      BY <1>1, <2>1, <3>1, PushFacts DEF PushInv, NoNewCloses
  <2>. QED
    BY <1>10, <2>5, <2>6, <2>7, <2>8, <2>10, <2>11, <2>12, <2>13, <2>14, <2>15 DEF LoopStep, LoopSteps
<1>. QED
  BY <1>4, <1>5, <1>6, <1>7, <1>8, <1>9, <1>10, Zenon DEF Next, DeskStep, LoopStep, PushStep

LEMMA StartIsCounted ==
  ASSUME Init, plan.stops = 0 \/ "confirm" \notin plan.kinds
  PROVE  PushInv
<1>1. Typed /\ \A l \in Loops : loops[l].st # "closing"
  BY StartIsTyped, FreshIsTyped DEF Init
<1>2. \A e \in 1..MaxReplies : pushed[e] = 0 /\ Told(e) \in {0, 1}
  BY DEF Init, Told
<1>3. Waits = 0 /\ push = NoPush /\ Excused \in Nat /\ NoPush.st = "none"
  BY <1>1, PushFacts DEF Init, Waits, NoPush
<1>. QED
  BY <1>1, <1>2, <1>3 DEF PushInv

\* A final reply goes to the phone once, however many Stops tell of it and
\* however the switch, the login and the loops change meanwhile; each crash
\* and each reset of the cursors may cost one repetition, and no more
\* (pushFinalReply and its cursor).  No reply ends in a plan in which the
\* phone closes tasks: the close saves the cursor it read before.
THEOREM RepliesArePushedOnce ==
  ASSUME ~Overlaps, \A p \in Plans : p.stops = 0 \/ "confirm" \notin p.kinds
  PROVE  Spec => []PushedOnce
<1>1. Init => Typed /\ PushInv
  BY StartIsTyped, StartIsCounted DEF Typed, TasksTyped
<1>2. Typed /\ PushInv /\ [Next]_vars => (Typed /\ PushInv)'
  BY StepIsTyped, CountStep
<1>3. Typed /\ PushInv => PushedOnce
  <2>. SUFFICES ASSUME Typed, PushInv, NEW e \in 1..MaxReplies
                PROVE  pushed[e] <= 1 + used.crashes + used.resets
    BY DEF PushedOnce
  <2>1. used["crashes"] \in Nat /\ used["resets"] \in Nat
    BY PushFacts
  <2>2. Told(e) \in {0, 1} /\ Waits \in Nat /\ pushed[e] \in Nat /\ Excused \in Nat
    BY PushFacts DEF Told, Waits
  <2>3. pushed[e] <= 1 + Excused
    <3>1. plan.stops = 0 => pushed[e] = 0
      BY DEF PushInv
    <3>2. plan.stops # 0 => pushed[e] + Waits <= Told(e) + Excused
      BY DEF PushInv
    <3>. QED
      BY <2>2, <3>1, <3>2
  <2>. QED
    BY <2>1, <2>2, <2>3 DEF Excused
<1>. QED
  BY <1>1, <1>2, <1>3, PTL DEF Spec
=============================================================================
