------------------------- MODULE RoleSessionsProofs -------------------------
(***************************************************************************)
(* Proofs about RoleSessions, for any roles, any number of terminals,      *)
(* messages and events, with crashes, exits and lost restarts, when the    *)
(* updates of the sessions do not overlap (~Overlaps).  SInv says what the *)
(* process, the record, the stored session, the hooks and the jobs of a    *)
(* role know of each other.  Every action is one of a few kinds of step    *)
(* (Moved, Plans), and the invariants behind IntentSurvives,               *)
(* RestorationSurvives and NoForgottenRestart are kept by each kind.       *)
(***************************************************************************)
EXTENDS RoleSessions, TLAPS

(* Values.                                                                 *)
JobSteps     == {"none", "check", "stop", "exited", "store", "launch", "note", "submit"}
JobKinds     == {"none", "planning", "start", "resume", "stop", "restart", "context"}
PromptSteps  == {"planning", "context", "accept"}
HandlerSteps == PromptSteps \union {"begin", "store", "stopped", "dispatch", "delivered"}
RecordT  == [id : Nat, convo : Nat, token : BOOLEAN, busy : BOOLEAN]
FileT    == [id : Nat, convo : Nat]
HookT    == [kind : {"prompt", "stop", "failure"}, id : Nat, convo : Nat, message : Nat]
TermT    == [id : Nat, convo : Nat, taken : SUBSET Nat, origin : JobKinds,
             end : {"none", "stop", "failure", "interrupt"}]
HandlerT == [step : HandlerSteps, rec : RecordT]
JobT     == [step : JobSteps, kind : JobKinds, role : Roles, rec : RecordT]
PendingT == [status : {"none", "pending", "executing", "blocked"}, source : Nat, convo : Nat,
             stopped : BOOLEAN, delivered : Nat, accepted : Nat, gate : BOOLEAN,
             replacement : Nat]
IntentT  == [status : {"none", "launching", "awaiting", "blocked"}, replacement : Nat]
Callers  == {"planning", "user"}
Life     == {"off", "ready", "working", "stopping"}

Typed ==
  /\ agent \in [Roles -> Life] /\ input \in [Roles -> Nat] /\ term \in [Roles -> TermT]
  /\ written \in Nat /\ route \in Nat /\ delivery \in Nat
  /\ record \in [Roles -> RecordT] /\ file \in [Roles -> FileT]
  /\ hooks \in [Roles -> Seq(HookT)] /\ handler \in [Roles -> HandlerT]
  /\ job \in [Callers -> JobT] /\ pending \in PendingT /\ intent \in [Roles -> IntentT]
  /\ recovering \subseteq Roles /\ up \in BOOLEAN /\ work \in Nat /\ events \in Nat

-----------------------------------------------------------------------------
(* Values of the parts.                                                    *)
LEMMA Constants ==
  /\ Arch \in Roles /\ PM \in Roles /\ Arch # PM /\ UserRoles \subseteq Roles
  /\ NoRecord \in RecordT /\ NoJob \in JobT /\ Begin \in HandlerT /\ NoPending \in PendingT
  /\ NoIntent \in IntentT /\ NotStored \in FileT /\ Text \in Nat /\ MaxMessages \in Nat
  /\ NoRecord.id = 0 /\ NoRecord.convo = 0 /\ NoRecord.token = FALSE /\ NoRecord.busy = FALSE
  /\ NoJob.step = "none" /\ NoJob.kind = "none" /\ NoJob.role = Arch
  /\ Begin.step = "begin"
  /\ NoPending.status = "none" /\ NoIntent.status = "none" /\ NoIntent.replacement = 0
  /\ NotStored.id = 0 /\ NotStored.convo = 0
<1>1. /\ Arch \in Roles /\ PM \in Roles /\ Arch # PM /\ UserRoles \subseteq Roles
      /\ MaxMessages \in Nat
  BY RolesAssumption, BoundsAssumption
<1>2. NoRecord \in RecordT
  BY DEF NoRecord, RecordT
<1>3. NoJob \in JobT
  BY <1>1, <1>2 DEF NoJob, JobT, JobSteps, JobKinds
<1>4. Begin \in HandlerT
  BY <1>2 DEF Begin, HandlerT, HandlerSteps
<1>5. NoPending \in PendingT
  BY DEF NoPending, PendingT
<1>6. NoIntent \in IntentT /\ NotStored \in FileT /\ Text \in Nat
  BY <1>1 DEF NoIntent, IntentT, NotStored, FileT, Text
<1>7. /\ NoRecord.id = 0 /\ NoRecord.convo = 0 /\ NoRecord.token = FALSE /\ NoRecord.busy = FALSE
      /\ Begin.step = "begin"
      /\ NoPending.status = "none" /\ NoIntent.status = "none" /\ NoIntent.replacement = 0
      /\ NotStored.id = 0 /\ NotStored.convo = 0
  BY DEF NoRecord, Begin, NoPending, NoIntent, NotStored
<1>8. NoJob.step = "none" /\ NoJob.kind = "none" /\ NoJob.role = Arch
  BY DEF NoJob
<1>. QED
  BY <1>1, <1>2, <1>3, <1>4, <1>5, <1>6, <1>7, <1>8

(* getRoleSession: the registry, and the file where it has nothing.        *)
LEMMA RegisteredIs ==
  ASSUME Typed, NEW r \in Roles
  PROVE  /\ Registered(r) \in RecordT
         /\ record[r].id # 0 => Registered(r) = record[r]
         /\ record[r].id = 0 =>
              /\ Registered(r).token = FALSE /\ Registered(r).busy = FALSE
              /\ Registered(r).convo = file[r].convo
              /\ Registered(r).id = IF file[r].convo # 0 THEN file[r].id ELSE 0
<1>1. record[r] \in RecordT /\ file[r] \in FileT
  BY DEF Typed
<1>. DEFINE stored == [id |-> file[r].id, convo |-> file[r].convo, token |-> FALSE, busy |-> FALSE]
<1>2. /\ stored \in RecordT /\ stored.id = file[r].id /\ stored.convo = file[r].convo
      /\ stored.token = FALSE /\ stored.busy = FALSE
  BY <1>1 DEF FileT, RecordT
<1>3. Registered(r) = IF record[r].id # 0 THEN record[r]
                      ELSE IF file[r].convo # 0 THEN stored ELSE NoRecord
  BY DEF Registered
<1>. HIDE DEF stored
<1>. QED
  BY <1>1, <1>2, <1>3, Constants

(* A job that begins.                                                      *)
LEMMA NewJob ==
  ASSUME NEW s \in JobSteps, NEW k \in JobKinds, NEW r \in Roles
  PROVE  LET j == [NoJob EXCEPT !.step = s, !.kind = k, !.role = r] IN
         j \in JobT /\ j.step = s /\ j.kind = k /\ j.role = r
BY Constants DEF JobT

LEMMA NewPlanning ==
  LET j == [NoJob EXCEPT !.step = "check", !.kind = "planning"] IN
  j \in JobT /\ j.step = "check" /\ j.kind = "planning" /\ j.role = Arch
BY Constants DEF JobT, JobSteps, JobKinds

-----------------------------------------------------------------------------
(* The restart after planning that an event may set off.                   *)
LEMMA PendingUpdates ==
  ASSUME NEW p \in PendingT, NEW n \in Nat, NEW m \in Nat, NEW b \in BOOLEAN
  PROVE  /\ [p EXCEPT !.status = "blocked"] \in PendingT
         /\ [p EXCEPT !.status = "blocked"].status = "blocked"
         /\ [p EXCEPT !.source = n] \in PendingT
         /\ [p EXCEPT !.gate = b] \in PendingT
         /\ [p EXCEPT !.gate = b].status = p.status
         /\ [p EXCEPT !.delivered = n] \in PendingT
         /\ [p EXCEPT !.delivered = n].status = p.status
         /\ [p EXCEPT !.accepted = n] \in PendingT
         /\ [p EXCEPT !.accepted = n].status = p.status
         /\ [p EXCEPT !.replacement = n] \in PendingT
         /\ [p EXCEPT !.replacement = n].status = p.status
         /\ [p EXCEPT !.stopped = TRUE, !.source = n] \in PendingT
         /\ [p EXCEPT !.stopped = TRUE, !.source = n].status = p.status
         /\ [p EXCEPT !.status = "pending", !.source = n] \in PendingT
         /\ [p EXCEPT !.status = "pending", !.source = n].status = "pending"
         /\ [p EXCEPT !.status = "pending", !.source = n, !.convo = m] \in PendingT
         /\ [p EXCEPT !.status = "pending", !.source = n, !.convo = m].stopped = p.stopped
BY DEF PendingT

PlanningBegins ==
  /\ job' \in [Callers -> JobT] /\ job'["user"] = job["user"]
  /\ job'["planning"].step = "check" /\ job'["planning"].kind = "planning"
  /\ job'["planning"].role = Arch
  /\ pending' \in PendingT /\ pending'.status = "executing"

LEMMA Executes ==
  ASSUME Typed, NEW p \in PendingT, Execute(p)
  PROVE  PlanningBegins
<1>1. [p EXCEPT !.status = "executing"] \in PendingT /\ [p EXCEPT !.status = "executing"].status = "executing"
  BY DEF PendingT
<1>. DEFINE j == [NoJob EXCEPT !.step = "check", !.kind = "planning"]
<1>2. j \in JobT /\ j.step = "check" /\ j.kind = "planning" /\ j.role = Arch
  BY NewPlanning
<1>3. job' = [job EXCEPT !["planning"] = j] /\ job \in [Callers -> JobT]
  BY DEF Execute, Typed
<1>. HIDE DEF j
<1>4. /\ job' \in [Callers -> JobT] /\ job'["user"] = job["user"] /\ job'["planning"] = j
  BY <1>2, <1>3 DEF Callers
<1>. QED
  BY <1>1, <1>2, <1>4 DEF Execute, PlanningBegins

(* tryRestart leaves a restart that is due only with a busy Architect.     *)
Tried(p) ==
  \/ /\ UNCHANGED job /\ pending' = p
     /\ p.status # "pending" \/ ~Met(p) \/ record[Arch].busy
  \/ /\ UNCHANGED job /\ pending' \in PendingT
     /\ p.status = "pending" /\ pending'.status = "blocked"
  \/ PlanningBegins /\ p.status = "pending"

LEMMA TryRestarts ==
  ASSUME Typed, NEW p \in PendingT, TryRestart(p)
  PROVE  Tried(p)
<1>. DEFINE rec == Registered(Arch)
<1>a. rec \in RecordT /\ record[Arch] \in RecordT
  BY RegisteredIs, Constants DEF Typed
<1>1. /\ record[Arch].id # 0 => rec = record[Arch]
      /\ record[Arch].id = 0 => rec.busy = FALSE
  BY RegisteredIs, Constants
<1>. DEFINE blocked == [p EXCEPT !.status = "blocked"]
            begun == [p EXCEPT !.source = rec.id]
<1>2. /\ blocked \in PendingT /\ blocked.status = "blocked"
      /\ begun \in PendingT
  <2>1. rec.id \in Nat
    BY <1>a DEF RecordT
  <2>. HIDE DEF rec
  <2>. QED
    BY <2>1, PendingUpdates
<1>3. IF p.status # "pending" \/ ~Met(p) THEN pending' = p /\ UNCHANGED job
      ELSE IF ~IsSource(p, rec) \/ ~Live(Arch, rec) THEN pending' = blocked /\ UNCHANGED job
      ELSE IF rec.busy THEN pending' = p /\ UNCHANGED job
      ELSE Execute(begun)
  BY Zenon DEF TryRestart
<1>4. rec.busy => record[Arch].busy
  <2>. HIDE DEF rec
  <2>. QED
    BY <1>1, <1>a DEF RecordT
<1>. HIDE DEF rec, blocked, begun
<1>5. Execute(begun) => PlanningBegins
  <2>. HAVE Execute(begun)
  <2>. QED
    BY <1>2, Executes
<1>. QED
  BY <1>2, <1>3, <1>4, <1>5 DEF Tried

LEMMA Tells ==
  ASSUME Typed, NEW p \in PendingT, Tell(p)
  PROVE  /\ PlanningFree
         /\ \/ pending.status = "pending" /\ Tried(p)
            \/ pending.status # "pending" /\ UNCHANGED <<pending, job>>
BY TryRestarts DEF Tell

-----------------------------------------------------------------------------
(* What a role's process, record, file and hooks know of each other.       *)

\* A job that has a role's session in hand: it stopped its terminal, or has
\* a record to store.
InHand(c) == \/ job[c].step \in {"exited", "store"}
             \/ job[c].step = "launch" /\ job[c].kind \notin {"start", "resume"}

\* Terminals and conversations are numbered; what is known of one is of the past.
Numbered(r) ==
  /\ term[r].id > 0 /\ \A x \in term[r].taken : x > 0 /\ x <= term[r].id
  /\ record[r].id <= term[r].id /\ file[r].id <= term[r].id
  /\ intent[r].replacement <= term[r].id
\* A record of nothing says nothing.
Plain(r) == /\ record[r].id = 0 => record[r].convo = 0 /\ ~record[r].token
            /\ file[r].id = 0 => file[r].convo = 0
\* A running process is the registered one; it works on a prompt it took.
Alive(r) == /\ agent[r] # "off" => record[r].id = term[r].id /\ record[r].token
            /\ agent[r] \in {"working", "stopping"} => term[r].id \in term[r].taken
\* A hook request comes from a terminal that took a prompt.
Heard(r) == \A i \in 1..Len(hooks[r]) : hooks[r][i].id \in term[r].taken
\* While hooks are handled, the record has the token of its terminal.
Tokened(r) == hooks[r] # <<>> => \/ record[r].token
                                 \/ record[r].id = 0 /\ file[r].convo = 0
                                 \/ \E c \in Callers : job[c].step = "store" /\ job[c].role = r
\* A handler carries the record it matched, which is of the hook's terminal.
Handled(r) == handler[r].step # "begin" =>
                /\ hooks[r] # <<>> /\ handler[r].rec.id = Hook(r).id
                /\ handler[r].step \in PromptSteps => Hook(r).kind = "prompt"
                /\ handler[r].step = "store" => /\ handler[r].rec.id = record[r].id
                                                /\ handler[r].rec.convo = record[r].convo
RoleOK(r) == Numbered(r) /\ Plain(r) /\ Alive(r) /\ Heard(r) /\ Tokened(r) /\ Handled(r)

\* The places a job may be at.
Shape(c) ==
  /\ job[c].kind = "none" <=> job[c].step = "none"
  /\ c = "planning" => job[c].kind \in {"none", "planning"} /\ job[c].role = Arch
  /\ c = "user" => job[c].kind # "planning"
  /\ job[c].kind \in {"start", "resume"} => job[c].step \in {"launch", "store"}
  /\ job[c].kind = "stop" => job[c].step # "launch"
  /\ job[c].step \in {"note", "submit"} => /\ job[c].kind \in {"planning", "context"}
                                           /\ job[c].rec.id <= term[job[c].role].id
\* What a job has in hand: a stopped role, whose record is gone if it is to
\* be replaced, or a record to store.
Carries(c, r) ==
  /\ job[c].kind # "resume" => agent[r] = "off"
  /\ job[c].step = "exited" => /\ job[c].kind = "stop"
                               /\ job[c].rec.id = Registered(r).id
                               /\ job[c].rec.convo = Registered(r).convo
                               /\ job[c].rec.token = Registered(r).token
  /\ job[c].step = "store" /\ job[c].kind \in {"stop", "resume"} =>
       /\ job[c].rec.id = record[r].id /\ job[c].rec.convo = record[r].convo
       /\ record[r].id = 0 \/ record[r].token \/ hooks[r] = <<>>
  /\ job[c].kind \notin {"stop", "resume"} => record[r].id = 0 /\ handler[r].step # "store"
  /\ job[c].step = "launch" => file[r].convo = 0
JobOK(c) == Shape(c) /\ (InHand(c) => Carries(c, job[c].role))

\* One update of a session at a time.
Exclusive ==
  /\ ~(InHand("planning") /\ InHand("user"))
  /\ \A r \in Roles : handler[r].step = "store" =>
       /\ \A q \in Roles : handler[q].step = "store" => q = r
       /\ \A c \in Callers : job[c].step \notin {"exited", "store"}

SInv == Typed /\ (\A r \in Roles : RoleOK(r)) /\ (\A c \in Callers : JobOK(c)) /\ Exclusive

\* Everything that the restart after planning waits for has happened.
Due == /\ pending.status = "pending" /\ Met(pending) /\ PlanningFree
       /\ IsSource(pending, record[Arch]) /\ ~record[Arch].busy
\* A Stop of the running Architect leaves no restart that is due.
Attended == agent[Arch] # "off" /\ Hook(Arch).id = term[Arch].id => ~Due'

-----------------------------------------------------------------------------
(* Steps that leave every session and conversation as it was: a process    *)
(* may come to rest, a hook may get its answer, a job may begin or end.    *)
SameSession(r) ==
  /\ term'[r].id = term[r].id /\ term'[r].convo = term[r].convo
  /\ term'[r].taken = term[r].taken /\ term'[r].origin = term[r].origin
  /\ record'[r].id = record[r].id /\ record'[r].convo = record[r].convo
  /\ record'[r].token = record[r].token
SameHooks(r) == hooks'[r] = hooks[r] /\ handler'[r] = handler[r]
\* A hook is answered when it has been handled, or is of no session.
Answers(r) == /\ hooks[r] # <<>> /\ hooks'[r] = Tail(hooks[r]) /\ handler'[r] = Begin
              /\ handler[r].step \in PromptSteps \union {"begin", "delivered"}
              /\ handler[r].step = "begin" => ~Matches(Registered(r), Hook(r))
MovesOn(r) ==
  /\ handler[r].step # "begin" /\ hooks'[r] = hooks[r] /\ handler'[r].rec = handler[r].rec
  /\ handler'[r].step # "store"
  /\ handler'[r].step \in PromptSteps => handler[r].step \in PromptSteps
  /\ handler'[r].step \in {"dispatch", "delivered"} =>
       handler[r].step \in {"dispatch", "delivered"} \/ (r = Arch => Attended)
\* What becomes of the process and of the turn it is in or has ended.
Releases(r) == agent[r] = "stopping" /\ Hook(r).id = term[r].id /\ Hook(r).kind = "stop"
Turn(r) ==
  /\ record[r].busy =>
       \/ record'[r].busy
       \/ agent'[r] = "off"
       \/ agent[r] = "working" /\ agent'[r] = "ready" /\ term'[r].end = "interrupt"
  /\ \/ /\ agent'[r] = agent[r] /\ term'[r].end = term[r].end
        /\ SameHooks(r) \/ MovesOn(r) \/ (Answers(r) /\ ~Releases(r))
     \/ agent'[r] = "off" /\ term'[r].end = term[r].end /\ SameHooks(r)
     \/ agent[r] = "working" /\ agent'[r] = "ready" /\ term'[r].end = "interrupt" /\ SameHooks(r)
     \/ agent'[r] = "ready" /\ term'[r].end = term[r].end /\ Answers(r) /\ Releases(r)
SameIntent(r) ==
  \/ intent'[r].replacement \in {0, intent[r].replacement}
  \/ /\ job["user"].step = "note" /\ job["user"].role = r
     /\ intent'[r].replacement = job["user"].rec.id
SameJob(c) == \/ job'[c] = job[c]
              \/ /\ job[c].step # "store" /\ job'[c].step # "note"
                 /\ ~InHand(c)' /\ Shape(c)'
Calm ==
  /\ Typed' /\ file' = file
  /\ \A r \in Roles : SameSession(r) /\ SameIntent(r) /\ Turn(r)
  /\ \A c \in Callers : SameJob(c)

LEMMA CalmTurn ==
  ASSUME Calm, NEW r \in Roles
  PROVE  /\ SameHooks(r) \/ MovesOn(r) \/ Answers(r)
         /\ agent'[r] \in {agent[r], "off"} \/ (agent[r] # "off" /\ agent'[r] = "ready")
BY DEF Calm, Turn, Releases

LEMMA CalmRegistered ==
  ASSUME Typed, Calm, NEW r \in Roles
  PROVE  /\ Registered(r)'.id = Registered(r).id /\ Registered(r)'.convo = Registered(r).convo
         /\ Registered(r)'.token = Registered(r).token
<1>1. Typed' /\ file'[r] = file[r] /\ record'[r].id = record[r].id
      /\ record'[r].convo = record[r].convo /\ record'[r].token = record[r].token
  BY DEF Calm, SameSession
<1>2. /\ record'[r].id # 0 => Registered(r)' = record'[r]
      /\ record'[r].id = 0 =>
              /\ Registered(r)'.token = FALSE
              /\ Registered(r)'.convo = file'[r].convo
              /\ Registered(r)'.id = IF file'[r].convo # 0 THEN file'[r].id ELSE 0
  <2>. DEFINE stored == [id |-> file'[r].id, convo |-> file'[r].convo, token |-> FALSE, busy |-> FALSE]
  <2>1. /\ stored.id = file'[r].id /\ stored.convo = file'[r].convo /\ stored.token = FALSE
    OBVIOUS
  <2>2. Registered(r)' = IF record'[r].id # 0 THEN record'[r]
                         ELSE IF file'[r].convo # 0 THEN stored ELSE NoRecord
    BY DEF Registered, NoRecord
  <2>. HIDE DEF stored
  <2>. QED
    BY <2>1, <2>2, Constants
<1>. QED
  BY <1>1, <1>2, RegisteredIs

(* A session as it was is still in order.                                  *)
LEMMA CalmRoles ==
  ASSUME SInv, Calm, NEW r \in Roles
  PROVE  RoleOK(r)'
<1>1. /\ Typed /\ Typed' /\ RoleOK(r) /\ SameSession(r) /\ SameIntent(r)
      /\ SameHooks(r) \/ MovesOn(r) \/ Answers(r)
      /\ agent'[r] \in {agent[r], "off"} \/ (agent[r] # "off" /\ agent'[r] = "ready")
      /\ file'[r] = file[r]
  BY CalmTurn DEF SInv, Calm
<1>2. /\ record[r] \in RecordT /\ file[r] \in FileT /\ hooks[r] \in Seq(HookT)
      /\ term[r] \in TermT /\ intent[r] \in IntentT /\ intent'[r] \in IntentT
  BY <1>1 DEF Typed
<1>3. Numbered(r)'
  <2>1. job["user"].step = "note" /\ job["user"].role = r => job["user"].rec.id <= term[r].id
    BY DEF SInv, JobOK, Shape, Callers
  <2>2. 0 <= term[r].id
    BY <1>2 DEF TermT
  <2>3. intent'[r].replacement <= term[r].id
    BY <1>1, <2>1, <2>2 DEF RoleOK, Numbered, SameIntent
  <2>. QED
    BY <1>1, <2>3 DEF RoleOK, Numbered, SameSession
<1>4. Plain(r)' /\ Alive(r)'
  BY <1>1 DEF RoleOK, Plain, Alive, SameSession, Life, Typed
<1>5. /\ hooks'[r] # <<>> => hooks[r] # <<>>
      /\ \A i \in 1..Len(hooks'[r]) : \E j \in 1..Len(hooks[r]) : hooks'[r][i] = hooks[r][j]
  <2>1. CASE hooks'[r] = hooks[r]
    BY <2>1
  <2>2. CASE hooks[r] # <<>> /\ hooks'[r] = Tail(hooks[r])
    <3>1. /\ Len(hooks'[r]) = Len(hooks[r]) - 1 /\ Len(hooks[r]) \in Nat
          /\ \A i \in 1..Len(hooks'[r]) : hooks'[r][i] = hooks[r][i+1]
      BY <1>2, <2>2
    <3>. QED
      BY <3>1, <2>2
  <2>. QED
    BY <1>1, <2>1, <2>2 DEF SameHooks, MovesOn, Answers
<1>6. Heard(r)'
  BY <1>1, <1>5 DEF RoleOK, Heard, SameSession
<1>7. Tokened(r)'
  <2>1. ASSUME NEW c \in Callers, job[c].step = "store" PROVE job'[c] = job[c]
    BY <2>1 DEF Calm, SameJob
  <2>. QED
    BY <1>1, <1>5, <2>1 DEF RoleOK, Tokened, SameSession
<1>8. Handled(r)'
  <2>1. CASE SameHooks(r)
    BY <1>1, <2>1 DEF RoleOK, Handled, SameHooks, SameSession, Hook
  <2>2. CASE MovesOn(r)
    BY <1>1, <2>2 DEF RoleOK, Handled, MovesOn, Hook
  <2>3. CASE Answers(r)
    BY <2>3, Constants DEF Handled, Answers
  <2>. QED
    BY <1>1, <2>1, <2>2, <2>3
<1>. QED
  BY <1>3, <1>4, <1>6, <1>7, <1>8 DEF RoleOK

LEMMA Undisturbed ==
  ASSUME SInv, Calm
  PROVE  SInv'
<1>1. \A r \in Roles : RoleOK(r)'
  BY CalmRoles
<1>2. /\ Typed /\ Typed' /\ file' = file
      /\ \A r \in Roles : /\ SameSession(r)
                          /\ SameHooks(r) \/ MovesOn(r) \/ Answers(r)
                          /\ agent'[r] \in {agent[r], "off"} \/ (agent[r] # "off" /\ agent'[r] = "ready")
  BY CalmTurn DEF SInv, Calm
<1>3. \A r \in Roles : /\ handler'[r].step = "store" => SameHooks(r)
                       /\ hooks[r] = <<>> => hooks'[r] = <<>>
  BY <1>2, Constants DEF SameHooks, MovesOn, Answers
<1>4. ASSUME NEW c \in Callers PROVE JobOK(c)'
  <2>1. CASE ~InHand(c)' /\ Shape(c)'
    BY <2>1 DEF JobOK
  <2>2. CASE job'[c] = job[c]
    <3>0. job[c].role \in Roles
      BY <1>2 DEF Typed, JobT
    <3>. PICK r \in Roles : r = job[c].role
      BY <3>0
    <3>1. r = job[c].role /\ r = job'[c].role
      BY <2>2
    <3>2. InHand(c)' => InHand(c)
      BY <2>2 DEF InHand
    <3>3. JobOK(c)
      BY DEF SInv
    <3>4. Shape(c)'
      BY <1>2, <2>2, <3>1, <3>3 DEF JobOK, Shape, SameSession
    <3>5. ASSUME InHand(c) PROVE Carries(c, r)'
      <4>1. Carries(c, r) /\ SameSession(r)
        BY <1>2, <3>1, <3>3, <3>5 DEF JobOK
      <4>2. /\ Registered(r)'.id = Registered(r).id /\ Registered(r)'.convo = Registered(r).convo
            /\ Registered(r)'.token = Registered(r).token
        BY <1>2, <3>1, CalmRegistered
      <4>3. /\ handler'[r].step = "store" => handler'[r] = handler[r]
            /\ hooks[r] = <<>> => hooks'[r] = <<>>
        BY <1>3, <3>1 DEF SameHooks
      <4>. QED
        BY <1>2, <2>2, <4>1, <4>2, <4>3 DEF Carries, SameSession
    <3>. QED
      BY <3>1, <3>2, <3>4, <3>5 DEF JobOK
  <2>. QED
    BY <2>1, <2>2 DEF Calm, SameJob
<1>5. Exclusive'
  <2>1. \A c \in Callers : InHand(c)' => job'[c] = job[c] /\ InHand(c)
    BY DEF Calm, SameJob, InHand
  <2>2. \A c \in Callers : job'[c].step \in {"exited", "store"} => job'[c] = job[c]
    BY <2>1 DEF InHand
  <2>. QED
    BY <1>3, <2>1, <2>2 DEF SInv, Exclusive, SameHooks, Callers
<1>. QED
  BY <1>1, <1>2, <1>4, <1>5 DEF SInv

-----------------------------------------------------------------------------
(* The steps that are calm.                                                *)
LEMMA CalmFrame ==
  ASSUME Typed', file' = file, term' = term, record' = record,
         hooks' = hooks, handler' = handler, intent' = intent, agent' = agent,
         \A c \in Callers : SameJob(c)
  PROVE  Calm
BY DEF Calm, SameSession, SameIntent, SameHooks, Turn

LEMMA CalmPrompts ==
  ASSUME SInv, NEW r \in Roles, UserPrompts(r) \/ AgentRoutes
  PROVE  Calm
<1>1. /\ UNCHANGED <<agent, term, delivery, record, file, hooks, handler, job, pending, intent,
                     recovering, up, events>>
      /\ \/ input' = [input EXCEPT ![r] = Text] /\ work' = work + 1 /\ UNCHANGED <<written, route>>
         \/ written' = written + 1 /\ route' = written' /\ UNCHANGED <<input, work>>
  BY DEF UserPrompts, AgentRoutes, Works, agentVars, messageVars, sessionVars, hookVars, restartVars
<1>2. Typed'
  BY <1>1, Constants DEF SInv, Typed
<1>. QED
  BY <1>1, <1>2, CalmFrame DEF SameJob

LEMMA CalmInterrupt ==
  ASSUME SInv, UserInterrupts
  PROVE  Calm
<1>1. Arch \in Roles /\ Typed /\ record[Arch] \in RecordT /\ term[Arch] \in TermT
  BY Constants DEF SInv, Typed
<1>2. /\ agent' = [agent EXCEPT ![Arch] = "ready"] /\ term' = [term EXCEPT ![Arch].end = "interrupt"]
      /\ record' = [record EXCEPT ![Arch].busy = FALSE] /\ agent[Arch] = "working"
      /\ events' = events + 1
      /\ UNCHANGED <<input, written, route, delivery, file, hooks, handler, job, pending, intent,
                     recovering, up, work>>
  BY DEF UserInterrupts, Outside, messageVars, hookVars, restartVars
<1>3. /\ record' \in [Roles -> RecordT]
      /\ \A r \in Roles : /\ record'[r].id = record[r].id /\ record'[r].convo = record[r].convo
                          /\ record'[r].token = record[r].token
  BY <1>1, <1>2 DEF Typed, RecordT
<1>4. /\ term' \in [Roles -> TermT]
      /\ \A r \in Roles : /\ term'[r].id = term[r].id /\ term'[r].convo = term[r].convo
                          /\ term'[r].taken = term[r].taken /\ term'[r].origin = term[r].origin
  BY <1>1, <1>2 DEF Typed, TermT
<1>5. Typed'
  BY <1>1, <1>2, <1>3, <1>4 DEF Typed, Life
<1>6. \A r \in Roles : Turn(r)
  <2>1. agent'[Arch] = "ready" /\ term'[Arch].end = "interrupt"
    BY <1>1, <1>2 DEF Typed, TermT
  <2>2. \A r \in Roles : r # Arch => agent'[r] = agent[r] /\ term'[r] = term[r] /\ record'[r] = record[r]
    BY <1>1, <1>2 DEF Typed
  <2>. QED
    BY <1>2, <2>1, <2>2 DEF Turn, SameHooks
<1>. QED
  BY <1>2, <1>3, <1>4, <1>5, <1>6 DEF Calm, SameSession, SameIntent, SameJob

LEMMA CalmExit ==
  ASSUME SInv, NEW q \in Roles, ProcessExits(q)
  PROVE  Calm
<1>1. Typed /\ record[q] \in RecordT /\ term[q] \in TermT
  BY DEF SInv, Typed
<1>. DEFINE b == record[q].busy /\ record[q].id # term[q].id
<1>2. /\ agent' = [agent EXCEPT ![q] = "off"] /\ input' = [input EXCEPT ![q] = 0]
      /\ record' = [record EXCEPT ![q].busy = b]
      /\ events' = events + 1
      /\ UNCHANGED <<term, written, route, delivery, file, hooks, handler, job, pending, intent,
                     recovering, up, work>>
  BY DEF ProcessExits, Outside, messageVars, hookVars, restartVars, NoInput
<1>b. b \in BOOLEAN
  OBVIOUS
<1>. HIDE DEF b
<1>3. /\ record' \in [Roles -> RecordT]
      /\ \A r \in Roles : /\ record'[r].id = record[r].id /\ record'[r].convo = record[r].convo
                          /\ record'[r].token = record[r].token
  BY <1>1, <1>2, <1>b DEF Typed, RecordT
<1>5. Typed'
  BY <1>1, <1>2, <1>3 DEF Typed, Life
<1>6. \A r \in Roles : Turn(r)
  <2>1. agent'[q] = "off"
    BY <1>1, <1>2 DEF Typed
  <2>2. \A r \in Roles : r # q => agent'[r] = agent[r] /\ record'[r] = record[r]
    BY <1>1, <1>2 DEF Typed
  <2>. QED
    BY <1>2, <2>1, <2>2 DEF Turn, SameHooks
<1>. QED
  BY <1>2, <1>3, <1>5, <1>6 DEF Calm, SameSession, SameIntent, SameJob

(* A step of the planning restart, which is its own job.                   *)
LEMMA PlanningJob ==
  ASSUME SInv, PlanningFree, UNCHANGED job \/ PlanningBegins
  PROVE  job' \in [Callers -> JobT] /\ \A c \in Callers : SameJob(c)
<1>1. job["planning"].step = "none" /\ job \in [Callers -> JobT]
  BY Constants DEF PlanningFree, SInv, Typed
<1>2. CASE UNCHANGED job
  BY <1>1, <1>2 DEF SameJob
<1>3. CASE PlanningBegins
  <2>1. SameJob("planning")
    BY <1>1, <1>3 DEF PlanningBegins, SameJob, InHand, Shape
  <2>2. SameJob("user")
    BY <1>3 DEF PlanningBegins, SameJob
  <2>. QED
    BY <1>3, <2>1, <2>2 DEF PlanningBegins, Callers
<1>. QED
  BY <1>2, <1>3

LEMMA CalmTold ==
  ASSUME SInv, NEW p \in PendingT, Tell(p) \/ (PlanningFree /\ Tried(p))
  PROVE  /\ job' \in [Callers -> JobT] /\ pending' \in PendingT
         /\ \A c \in Callers : SameJob(c)
<1>1. Typed /\ pending \in PendingT
  BY DEF SInv, Typed
<1>2. PlanningFree /\ (Tried(p) \/ UNCHANGED <<pending, job>>)
  BY <1>1, Tells
<1>3. pending' \in PendingT /\ (UNCHANGED job \/ PlanningBegins)
  BY <1>1, <1>2 DEF Tried, PlanningBegins
<1>. QED
  BY <1>2, <1>3, PlanningJob

LEMMA CalmEvents ==
  ASSUME SInv, (\E accepted \in BOOLEAN : GateDecides(accepted)) \/ DeliveryIsTold
  PROVE  Calm
<1>1. Typed /\ pending \in PendingT /\ delivery \in Nat
  BY DEF SInv, Typed
<1>2. job' \in [Callers -> JobT] /\ pending' \in PendingT /\ \A c \in Callers : SameJob(c)
  <2>1. CASE \E accepted \in BOOLEAN : GateDecides(accepted)
    <3>1. PICK accepted \in BOOLEAN : Tell([pending EXCEPT !.gate = accepted])
      BY <2>1 DEF GateDecides
    <3>2. [pending EXCEPT !.gate = accepted] \in PendingT
      BY <1>1, PendingUpdates
    <3>. QED
      BY <3>1, <3>2, CalmTold
  <2>2. CASE DeliveryIsTold
    <3>1. Tell([pending EXCEPT !.delivered = delivery])
      BY <2>2 DEF DeliveryIsTold
    <3>2. [pending EXCEPT !.delivered = delivery] \in PendingT
      BY <1>1, PendingUpdates
    <3>. QED
      BY <3>1, <3>2, CalmTold
  <2>. QED
    BY <2>1, <2>2
<1>3. /\ UNCHANGED <<agent, term, input, written, route, record, file, hooks, handler, intent,
                     recovering, up, events>>
      /\ delivery' \in {delivery, 0} /\ work' \in {work, work + 1}
  BY DEF GateDecides, DeliveryIsTold, Works, agentVars, messageVars, sessionVars, hookVars
<1>4. Typed'
  BY <1>1, <1>2, <1>3 DEF Typed
<1>. QED
  BY <1>2, <1>3, <1>4, CalmFrame

(* What the handler of a hook does to the hooks of its role.               *)
LEMMA GoesOn ==
  ASSUME Typed, NEW r \in Roles, NEW s \in HandlerSteps, Goes(r, s), handler[r].step # "begin",
         s # "store", s \in PromptSteps => handler[r].step \in PromptSteps,
         s \in {"dispatch", "delivered"} =>
           handler[r].step \in {"dispatch", "delivered"} \/ (r = Arch => Attended)
  PROVE  /\ hooks' = hooks /\ handler' \in [Roles -> HandlerT]
         /\ MovesOn(r) /\ handler'[r].step = s
         /\ \A q \in Roles : q # r => SameHooks(q)
<1>1. /\ handler[r] \in HandlerT /\ handler' = [handler EXCEPT ![r].step = s] /\ hooks' = hooks
  BY DEF Goes, Typed
<1>2. /\ handler' \in [Roles -> HandlerT] /\ handler'[r].step = s /\ handler'[r].rec = handler[r].rec
      /\ \A q \in Roles : q # r => handler'[q] = handler[q]
  BY <1>1 DEF Typed, HandlerT
<1>. QED
  BY <1>1, <1>2 DEF MovesOn, SameHooks

LEMMA AnswersIt ==
  ASSUME Typed, NEW r \in Roles, Answered(r), hooks[r] # <<>>,
         handler[r].step \in PromptSteps \union {"begin", "delivered"},
         handler[r].step = "begin" => ~Matches(Registered(r), Hook(r))
  PROVE  /\ hooks' \in [Roles -> Seq(HookT)] /\ handler' \in [Roles -> HandlerT]
         /\ Answers(r)
         /\ \A q \in Roles : q # r => SameHooks(q)
<1>1. /\ hooks' = [hooks EXCEPT ![r] = Tail(hooks[r])] /\ handler' = [handler EXCEPT ![r] = Begin]
      /\ hooks[r] \in Seq(HookT)
  BY DEF Answered, Typed
<1>2. Tail(hooks[r]) \in Seq(HookT)
  BY <1>1
<1>. QED
  BY <1>1, <1>2, Constants DEF Typed, Answers, SameHooks

LEMMA HookIs ==
  ASSUME Typed, NEW r \in Roles, hooks[r] # <<>>
  PROVE  Hook(r) \in HookT /\ Hook(r) = hooks[r][1] /\ 1 \in 1..Len(hooks[r])
<1>1. hooks[r] \in Seq(HookT)
  BY DEF Typed
<1>. QED
  BY <1>1 DEF Hook

LEMMA ReleasedIs ==
  ASSUME Typed, NEW r \in Roles, Released(r)
  PROVE  /\ agent' \in [Roles -> Life]
         /\ agent'[r] = IF /\ agent[r] = "stopping" /\ Hook(r).id = term[r].id
                           /\ Hook(r).kind = "stop"
                        THEN "ready" ELSE agent[r]
         /\ \A q \in Roles : q # r => agent'[q] = agent[q]
BY DEF Released, Typed, Life

-----------------------------------------------------------------------------
(* The steps of the restart after planning.                                *)
LEMMA Schedules ==
  ASSUME SInv, Schedule
  PROVE  /\ agent[Arch] = "working" /\ PlanningFree
         /\ \/ UNCHANGED <<pending, job>>
            \/ \E p \in PendingT : p.status = "pending" /\ Tried(p)
            \/ pending' \in PendingT /\ pending'.stopped = FALSE /\ UNCHANGED job
<1>. DEFINE rec == Registered(Arch)
            again == [pending EXCEPT !.status = "pending", !.source = rec.id]
            new == [NoPending EXCEPT !.status = "pending", !.source = rec.id, !.convo = rec.convo]
<1>1. /\ agent[Arch] = "working" /\ PlanningFree
      /\ IF pending.status = "executing" THEN UNCHANGED <<pending, job>>
         ELSE IF pending.status # "none" /\ IsSource(pending, rec)
              THEN IF pending.status = "blocked" THEN TryRestart(again)
                   ELSE UNCHANGED <<pending, job>>
         ELSE pending' = new /\ UNCHANGED job
  BY Zenon DEF Schedule
<1>2. /\ again \in PendingT /\ again.status = "pending"
      /\ new \in PendingT /\ new.stopped = FALSE
  <2>1. rec \in RecordT /\ pending \in PendingT
    BY RegisteredIs, Constants DEF SInv, Typed
  <2>2. rec.id \in Nat /\ rec.convo \in Nat
    BY <2>1 DEF RecordT
  <2>3. NoPending \in PendingT /\ NoPending.stopped = FALSE
    BY Constants DEF NoPending
  <2>. HIDE DEF rec
  <2>4. again \in PendingT /\ again.status = "pending"
    BY <2>1, <2>2, PendingUpdates
  <2>5. new \in PendingT /\ new.stopped = NoPending.stopped
    BY <2>2, <2>3 DEF PendingT
  <2>. QED
    BY <2>3, <2>4, <2>5
<1>. HIDE DEF rec, again, new
<1>3. TryRestart(again) => Tried(again)
  <2>. HAVE TryRestart(again)
  <2>. QED
    BY <1>2, TryRestarts DEF SInv
<1>. QED
  BY <1>1, <1>2, <1>3

LEMMA CalmSchedule ==
  ASSUME SInv, Schedule
  PROVE  Calm
<1>1. Typed /\ pending \in PendingT
  BY DEF SInv, Typed
<1>2. job' \in [Callers -> JobT] /\ pending' \in PendingT /\ \A c \in Callers : SameJob(c)
  <2>1. PlanningFree
    BY Schedules
  <2>2. CASE UNCHANGED job /\ pending' \in PendingT
    BY <2>1, <2>2, PlanningJob
  <2>3. CASE \E p \in PendingT : Tried(p)
    BY <2>1, <2>3, CalmTold
  <2>. QED
    BY <1>1, <2>2, <2>3, Schedules
<1>3. /\ UNCHANGED <<agent, term, input, written, route, delivery, record, file, hooks, handler,
                     intent, recovering, up, events>>
      /\ work' = work + 1
  BY DEF Schedule, Works, agentVars, messageVars, sessionVars, hookVars
<1>4. Typed'
  BY <1>1, <1>2, <1>3 DEF Typed
<1>. QED
  BY <1>2, <1>3, <1>4, CalmFrame

LEMMA Recovers ==
  ASSUME SInv, Connect
  PROVE  /\ PlanningFree
         /\ \/ /\ UNCHANGED <<pending, job>> /\ ~(pending.status = "pending" /\ Met(pending))
            \/ /\ pending' = NoPending /\ UNCHANGED job
               /\ pending.status = "executing" /\ IsConfirmed(pending, Registered(Arch))
            \/ PlanningBegins
            \/ pending.status = "pending" /\ Tried(pending)
<1>1. Typed /\ pending \in PendingT
  BY DEF SInv, Typed
<1>2. PlanningFree /\ RecoverPlanning
  BY DEF Connect
<1>3. Execute(pending) => PlanningBegins
  <2>. HAVE Execute(pending)
  <2>. QED
    BY <1>1, Executes
<1>4. TryRestart(pending) => Tried(pending)
  <2>. HAVE TryRestart(pending)
  <2>. QED
    BY <1>1, TryRestarts
<1>. QED
  BY <1>2, <1>3, <1>4 DEF RecoverPlanning

LEMMA CalmConnect ==
  ASSUME SInv, Recover \/ Reconnect
  PROVE  Calm
<1>1. Typed /\ pending \in PendingT
  BY DEF SInv, Typed
<1>2. Connect /\ UNCHANGED work /\ events' \in {events, events + 1}
  BY DEF Recover, Reconnect, Outside
<1>3. job' \in [Callers -> JobT] /\ pending' \in PendingT /\ \A c \in Callers : SameJob(c)
  <2>1. PlanningFree
    BY <1>2, Recovers
  <2>2. \/ UNCHANGED job /\ pending' \in PendingT
        \/ PlanningBegins
        \/ Tried(pending)
    BY <1>1, <1>2, Recovers, Constants
  <2>3. CASE Tried(pending)
    BY <1>1, <2>1, <2>3, CalmTold
  <2>. QED
    BY <2>1, <2>2, <2>3, PlanningJob DEF PlanningBegins
<1>4. /\ UNCHANGED <<agent, term, input, written, route, delivery, record, file, hooks, handler,
                     intent>>
      /\ recovering' \subseteq Roles /\ up' = TRUE
  BY <1>2 DEF Connect, agentVars, messageVars, sessionVars, hookVars
<1>5. Typed'
  BY <1>1, <1>2, <1>3, <1>4 DEF Typed
<1>. QED
  BY <1>3, <1>4, <1>5, CalmFrame

LEMMA CalmPlanning ==
  ASSUME SInv, PlanningChecks \/ PlanningNotes
  PROVE  Calm
<1>. DEFINE j == job["planning"]
<1>1. /\ Typed /\ pending \in PendingT /\ j \in JobT /\ job \in [Callers -> JobT]
      /\ Shape("planning") /\ "planning" \in Callers
  BY DEF SInv, Typed, Callers, JobOK
<1>2. j.rec.id \in Nat
  BY <1>1 DEF JobT, RecordT
<1>3. /\ [pending EXCEPT !.status = "blocked"] \in PendingT
      /\ [pending EXCEPT !.replacement = j.rec.id] \in PendingT
  <2>. HIDE DEF j
  <2>. QED
    BY <1>1, <1>2, PendingUpdates
<1>4. pending' \in PendingT
  BY <1>1, <1>3 DEF PlanningChecks, PlanningNotes
<1>5. \/ job' = [job EXCEPT !["planning"] = NoJob] /\ j.step \in {"check", "note"}
      \/ job' = [job EXCEPT !["planning"].step = "stop"] /\ j.step = "check"
  BY DEF PlanningChecks, PlanningNotes
<1>6. job' \in [Callers -> JobT] /\ SameJob("planning") /\ job'["user"] = job["user"]
  <2>1. CASE job' = [job EXCEPT !["planning"] = NoJob] /\ j.step \in {"check", "note"}
    <3>1. job'["planning"] = NoJob /\ job'["user"] = job["user"] /\ job' \in [Callers -> JobT]
      BY <1>1, <2>1, Constants DEF Callers
    <3>. QED
      BY <2>1, <3>1, Constants DEF SameJob, InHand, Shape
  <2>2. CASE job' = [job EXCEPT !["planning"].step = "stop"] /\ j.step = "check"
    <3>1. /\ job'["user"] = job["user"] /\ job' \in [Callers -> JobT]
          /\ job'["planning"].step = "stop" /\ job'["planning"].kind = j.kind
          /\ job'["planning"].role = j.role
      BY <1>1, <2>2 DEF Callers, JobT, JobSteps
    <3>. QED
      BY <1>1, <2>2, <3>1 DEF SameJob, InHand, Shape
  <2>. QED
    BY <1>5, <2>1, <2>2
<1>7. \A c \in Callers : SameJob(c)
  BY <1>6 DEF Callers, SameJob
<1>8. UNCHANGED <<agent, term, input, written, route, delivery, record, file, hooks, handler,
                  intent, recovering, up, work, events>>
  BY DEF PlanningChecks, PlanningNotes, agentVars, messageVars, sessionVars, hookVars
<1>9. Typed'
  BY <1>1, <1>4, <1>6, <1>8 DEF Typed
<1>. QED
  BY <1>7, <1>8, <1>9, CalmFrame

(* A job of the user that ends, or begins another request.                 *)
LEMMA UserJob ==
  ASSUME SInv, NEW j \in JobT, job["user"].step # "store",
         job' = [job EXCEPT !["user"] = j] \/ job' = job,
         j.step \in {"none", "stop", "launch", "submit"}, j.kind = "none" <=> j.step = "none",
         j.kind # "planning", j.kind \in {"start", "resume"} <=> j.step = "launch",
         j.step = "submit" => /\ job["user"].step = "note" /\ j.kind = job["user"].kind
                              /\ j.role = job["user"].role /\ j.rec = job["user"].rec,
         \A r \in Roles : term'[r].id = term[r].id
  PROVE  job' \in [Callers -> JobT] /\ \A c \in Callers : SameJob(c)
<1>1. /\ job \in [Callers -> JobT] /\ job["user"] \in JobT /\ Shape("user") /\ "user" \in Callers
      /\ job["user"].role \in Roles
  BY DEF SInv, Typed, Callers, JobOK, JobT
<1>2. CASE job' = job
  BY <1>1, <1>2 DEF SameJob
<1>3. CASE job' = [job EXCEPT !["user"] = j]
  <2>1. /\ job'["user"] = j /\ job'["planning"] = job["planning"] /\ job' \in [Callers -> JobT]
    BY <1>1, <1>3 DEF Callers
  <2>2. ~InHand("user")'
    BY <2>1 DEF InHand
  <2>3. Shape("user")'
    BY <1>1, <2>1 DEF Shape
  <2>4. SameJob("user") /\ SameJob("planning")
    BY <2>1, <2>2, <2>3 DEF SameJob
  <2>. QED
    BY <2>1, <2>4 DEF Callers
<1>. QED
  BY <1>2, <1>3

LEMMA CalmRequest ==
  ASSUME SInv, NEW r \in Roles,
         \/ UserStarts(r) \/ UserResumes(r) \/ UserStops(r) \/ UserRestarts(r)
         \/ UserRestartsWithContext(r)
  PROVE  Calm
<1>. DEFINE j(step, kind) == [NoJob EXCEPT !.step = step, !.kind = kind, !.role = r]
<1>1. PICK step \in {"stop", "launch"}, kind \in {"start", "resume", "stop", "restart", "context"} :
        Requests(r, kind, step) /\ (kind \in {"start", "resume"} <=> step = "launch")
  BY DEF UserStarts, UserResumes, UserStops, UserRestarts, UserRestartsWithContext
<1>2. /\ job["user"] = NoJob /\ job' = [job EXCEPT !["user"] = j(step, kind)]
      /\ events' = events + 1
      /\ UNCHANGED <<agent, term, input, written, route, delivery, record, file, hooks, handler,
                     pending, recovering, up, work>>
  BY <1>1 DEF Requests, Outside, agentVars, messageVars, sessionVars, hookVars
<1>3. /\ j(step, kind) \in JobT /\ j(step, kind).step = step /\ j(step, kind).kind = kind
  <2>1. step \in JobSteps /\ kind \in JobKinds
    BY DEF JobSteps, JobKinds
  <2>. QED
    BY <2>1, Constants DEF JobT
<1>. HIDE DEF j
<1>4. job' \in [Callers -> JobT] /\ \A c \in Callers : SameJob(c)
  BY <1>1, <1>2, <1>3, UserJob, Constants
<1>5. intent' = [intent EXCEPT ![r] = NoIntent]
      \/ intent' = [intent EXCEPT ![r] = [status |-> "launching", replacement |-> 0]]
  BY DEF UserStarts, UserResumes, UserStops, UserRestarts, UserRestartsWithContext, GivesUp
<1>6. intent' \in [Roles -> IntentT] /\ \A q \in Roles : SameIntent(q)
  <2>1. intent \in [Roles -> IntentT] /\ [status |-> "launching", replacement |-> 0] \in IntentT
    BY DEF SInv, Typed, IntentT
  <2>. QED
    BY <1>5, <2>1, Constants DEF SameIntent
<1>7. Typed'
  BY <1>2, <1>4, <1>6 DEF SInv, Typed
<1>. QED
  BY <1>2, <1>4, <1>6, <1>7 DEF Calm, SameSession, SameHooks, Turn

LEMMA CalmContext ==
  ASSUME SInv, ContextNotes \/ ContextSubmits
  PROVE  Calm
<1>. DEFINE j == job["user"]
            r == j.role
            s == [job["user"] EXCEPT !.step = "submit"]
<1>1. /\ Typed /\ j \in JobT /\ r \in Roles /\ j.rec.id \in Nat /\ intent \in [Roles -> IntentT]
      /\ Shape("user") /\ intent[r] \in IntentT /\ j.kind \in JobKinds
  BY DEF SInv, Typed, Callers, JobT, RecordT, JobOK
<1>2. /\ s \in JobT /\ s.step = "submit" /\ s.kind = j.kind /\ s.role = r /\ s.rec = j.rec
  BY <1>1 DEF JobT, JobSteps
<1>3. UNCHANGED <<agent, term, written, route, delivery, record, file, hooks, handler, pending,
                  recovering, up, work, events>>
  BY DEF ContextNotes, ContextSubmits, JobFrame, agentVars, messageVars, sessionVars, hookVars
<1>4. CASE ContextNotes
  <2>1. /\ j.step = "note" /\ job' = [job EXCEPT !["user"] = s] /\ UNCHANGED input
        /\ intent' = [intent EXCEPT ![r] = [status |-> "awaiting", replacement |-> j.rec.id]]
    BY <1>4 DEF ContextNotes, At, Step, agentVars
  <2>2. j.kind \in {"planning", "context"} /\ j.kind # "planning"
    BY <1>1, <2>1 DEF Shape
  <2>3. job' \in [Callers -> JobT] /\ \A c \in Callers : SameJob(c)
    <3>. HIDE DEF s
    <3>. QED
      BY <1>2, <1>3, <2>1, <2>2, UserJob
  <2>4. intent' \in [Roles -> IntentT] /\ \A q \in Roles : SameIntent(q)
    <3>1. [status |-> "awaiting", replacement |-> j.rec.id] \in IntentT
      BY <1>1 DEF IntentT
    <3>2. intent'[r].replacement = j.rec.id /\ \A q \in Roles : q # r => intent'[q] = intent[q]
      BY <1>1, <2>1
    <3>. QED
      BY <1>1, <2>1, <3>1, <3>2 DEF SameIntent
  <2>5. Typed'
    BY <1>1, <1>3, <2>1, <2>3, <2>4 DEF Typed
  <2>. QED
    BY <1>3, <2>3, <2>4, <2>5 DEF Calm, SameSession, SameHooks, Turn
<1>5. CASE ContextSubmits
  <2>1. /\ j.step = "submit" /\ job' = [job EXCEPT !["user"] = NoJob]
        /\ \/ input' = [input EXCEPT ![r] = Text] /\ UNCHANGED intent
           \/ intent' = [intent EXCEPT ![r].status = "blocked"] /\ UNCHANGED input
    BY <1>5 DEF ContextSubmits, At, Done
  <2>2. job' \in [Callers -> JobT] /\ \A c \in Callers : SameJob(c)
    BY <1>3, <2>1, UserJob, Constants
  <2>3. intent' \in [Roles -> IntentT] /\ \A q \in Roles : SameIntent(q)
    <3>1. CASE UNCHANGED intent
      BY <1>1, <3>1 DEF SameIntent
    <3>2. CASE intent' = [intent EXCEPT ![r].status = "blocked"]
      <4>1. /\ intent' \in [Roles -> IntentT]
            /\ \A q \in Roles : intent'[q].replacement = intent[q].replacement
        BY <1>1, <3>2 DEF IntentT
      <4>. QED
        BY <4>1 DEF SameIntent
    <3>. QED
      BY <2>1, <3>1, <3>2
  <2>4. input' \in [Roles -> Nat]
    BY <1>1, <2>1, Constants DEF Typed
  <2>5. Typed'
    BY <1>1, <1>3, <2>2, <2>3, <2>4 DEF Typed
  <2>. QED
    BY <1>3, <2>2, <2>3, <2>5 DEF Calm, SameSession, SameHooks, Turn
<1>. QED
  BY <1>4, <1>5

LEMMA CalmFailure ==
  ASSUME SInv, NEW c \in Callers, JobFails(c)
  PROVE  Calm
<1>1. /\ Typed /\ job \in [Callers -> JobT] /\ job[c] \in JobT /\ job[c].role \in Roles
      /\ pending \in PendingT /\ intent \in [Roles -> IntentT]
  BY DEF SInv, Typed, JobT
<1>2. /\ job[c].step = "launch" /\ job' = [job EXCEPT ![c] = NoJob]
      /\ pending' \in {pending, [pending EXCEPT !.status = "blocked"]}
      /\ intent' \in {intent, [intent EXCEPT ![job[c].role].status = "blocked"]}
      /\ UNCHANGED <<agent, term, input, written, route, delivery, record, file, hooks, handler,
                     recovering, up, work, events>>
  BY DEF JobFails, At, Done, JobFrame, agentVars, messageVars, sessionVars, hookVars
<1>3. pending' \in PendingT
  BY <1>1, <1>2, PendingUpdates
<1>4. /\ intent' \in [Roles -> IntentT]
      /\ \A q \in Roles : intent'[q].replacement = intent[q].replacement
  <2>1. CASE intent' = intent
    BY <1>1, <2>1
  <2>2. CASE intent' = [intent EXCEPT ![job[c].role].status = "blocked"]
    <3>1. PICK r \in Roles : r = job[c].role
      BY <1>1
    <3>2. intent[r] \in IntentT /\ intent' = [intent EXCEPT ![r].status = "blocked"]
      BY <1>1, <2>2, <3>1
    <3>. QED
      BY <1>1, <3>2 DEF IntentT
  <2>. QED
    BY <1>2, <2>1, <2>2
<1>5. job' \in [Callers -> JobT] /\ \A d \in Callers : SameJob(d)
  <2>1. job'[c] = NoJob /\ (\A d \in Callers : d # c => job'[d] = job[d]) /\ job' \in [Callers -> JobT]
    BY <1>1, <1>2, Constants
  <2>2. ~InHand(c)' /\ job'[c].step # "note"
    BY <2>1, Constants DEF InHand
  <2>3. Shape(c)'
    BY <2>1, Constants DEF Shape
  <2>. QED
    BY <1>2, <2>1, <2>2, <2>3 DEF SameJob
<1>6. Typed'
  BY <1>1, <1>2, <1>3, <1>4, <1>5 DEF Typed
<1>. QED
  BY <1>2, <1>4, <1>5, <1>6 DEF Calm, SameSession, SameHooks, SameIntent, Turn

LEMMA CalmRecovery ==
  ASSUME SInv, NEW r \in Roles, RecoverContext(r)
  PROVE  Calm
<1>. DEFINE j == [NoJob EXCEPT !.step = "stop", !.kind = "context", !.role = r]
<1>1. /\ Typed /\ intent \in [Roles -> IntentT] /\ intent[r] \in IntentT
  BY DEF SInv, Typed
<1>2. /\ job["user"] = NoJob
      /\ \/ UNCHANGED <<intent, job>>
         \/ intent' = [intent EXCEPT ![r] = NoIntent] /\ UNCHANGED job
         \/ intent' = [intent EXCEPT ![r].status = "launching"] /\ job' = [job EXCEPT !["user"] = j]
      /\ recovering' \subseteq recovering
      /\ UNCHANGED <<agent, term, input, written, route, delivery, record, file, hooks, handler,
                     pending, up, work, events>>
  BY DEF RecoverContext, Launching, agentVars, messageVars, sessionVars, hookVars
<1>3. j \in JobT /\ j.step = "stop" /\ j.kind = "context"
  <2>1. "stop" \in JobSteps /\ "context" \in JobKinds
    BY DEF JobSteps, JobKinds
  <2>. QED
    BY <2>1, NewJob
<1>. HIDE DEF j
<1>4. job' \in [Callers -> JobT] /\ \A c \in Callers : SameJob(c)
  <2>1. job' = [job EXCEPT !["user"] = j] \/ job' = job
    BY <1>2
  <2>. QED
    BY <1>2, <1>3, <2>1, UserJob, Constants
<1>5. intent' \in [Roles -> IntentT] /\ \A q \in Roles : SameIntent(q)
  <2>1. CASE UNCHANGED intent \/ intent' = [intent EXCEPT ![r] = NoIntent]
    BY <1>1, <2>1, Constants DEF SameIntent
  <2>2. CASE intent' = [intent EXCEPT ![r].status = "launching"]
    <3>1. /\ intent' \in [Roles -> IntentT]
          /\ \A q \in Roles : intent'[q].replacement = intent[q].replacement
      BY <1>1, <2>2 DEF IntentT
    <3>. QED
      BY <3>1 DEF SameIntent
  <2>. QED
    BY <1>2, <2>1, <2>2
<1>6. Typed'
  BY <1>1, <1>2, <1>4, <1>5 DEF Typed
<1>. QED
  BY <1>2, <1>4, <1>5, <1>6 DEF Calm, SameSession, SameHooks, Turn

-----------------------------------------------------------------------------
(* The calm steps of the hooks.                                            *)
(* recordArchitectStop tries the restart, unless the Stop is not its.      *)
LEMMA StopIsAttended ==
  ASSUME SInv, HookTellsStop
  PROVE  Attended
<1>. DEFINE rec == Registered(Arch)
            p == [pending EXCEPT !.stopped = TRUE, !.source = rec.id]
            mine == rec.id = handler[Arch].rec.id /\ IsSource(pending, rec)
<1>1. /\ Typed /\ pending \in PendingT /\ Arch \in Roles /\ RoleOK(Arch) /\ rec \in RecordT
  BY Constants, RegisteredIs DEF SInv, Typed
<1>2. /\ handler[Arch].step = "stopped" /\ record' = record
      /\ IF mine THEN Tell(p) ELSE UNCHANGED <<pending, job>>
  BY Zenon DEF HookTellsStop, HookAt, sessionVars
<1>3. SUFFICES ASSUME agent[Arch] # "off", Hook(Arch).id = term[Arch].id
               PROVE  ~Due'
  BY DEF Attended
<1>4. record[Arch].id = term[Arch].id /\ record[Arch].id # 0
  BY <1>1, <1>3 DEF RoleOK, Alive, Numbered, Typed, TermT
<1>5. rec = record[Arch] /\ rec.id = handler[Arch].rec.id
  BY <1>1, <1>2, <1>3, <1>4, RegisteredIs DEF RoleOK, Handled
<1>6. p \in PendingT
  <2>1. rec.id \in Nat
    BY <1>1 DEF RecordT
  <2>. HIDE DEF rec
  <2>. QED
    BY <1>1, <2>1, PendingUpdates
<1>7. CASE ~mine
  BY <1>2, <1>5, <1>7 DEF Due
<1>8. CASE mine
  <2>1. Tell(p)
    BY <1>2, <1>8
  <2>. HIDE DEF p, mine, rec
  <2>2. \/ pending.status = "pending" /\ Tried(p)
        \/ pending.status # "pending" /\ UNCHANGED <<pending, job>>
    BY <1>1, <1>6, <2>1, Tells
  <2>. QED
    BY <1>2, <2>2 DEF Tried, PlanningBegins, Due
<1>. QED
  BY <1>7, <1>8

LEMMA CalmConfirms ==
  ASSUME SInv, HookConfirmsPlanning \/ HookTellsStop \/ HookAccepts
  PROVE  Calm
<1>1. /\ Typed /\ pending \in PendingT /\ Arch \in Roles /\ PM \in Roles
  BY Constants DEF SInv, Typed
<1>2. /\ UNCHANGED <<agent, term, input, written, route, delivery, record, file, intent, recovering,
                     up, work, events>>
      /\ PlanningFree
  BY Tells DEF HookConfirmsPlanning, HookTellsStop, HookAccepts, Tell, agentVars, messageVars, sessionVars
<1>3. /\ job' \in [Callers -> JobT] /\ pending' \in PendingT /\ \A c \in Callers : SameJob(c)
  <2>1. CASE HookConfirmsPlanning
    <3>1. UNCHANGED job /\ pending' \in {NoPending, pending}
      BY <2>1 DEF HookConfirmsPlanning
    <3>. QED
      BY <1>1, <1>2, <3>1, PlanningJob, Constants
  <2>2. CASE HookTellsStop
    <3>. DEFINE rec == Registered(Arch)
                p == [pending EXCEPT !.stopped = TRUE, !.source = rec.id]
    <3>1. Tell(p) \/ UNCHANGED <<pending, job>>
      BY Zenon, <2>2 DEF HookTellsStop
    <3>2. rec.id \in Nat
      BY <1>1, RegisteredIs DEF RecordT
    <3>. HIDE DEF rec
    <3>3. p \in PendingT
      BY <1>1, <3>2, PendingUpdates
    <3>. QED
      BY <1>1, <1>2, <3>1, <3>3, CalmTold, PlanningJob
  <2>3. CASE HookAccepts
    <3>1. hooks[PM] # <<>> /\ Tell([pending EXCEPT !.accepted = Hook(PM).message])
      BY <2>3 DEF HookAccepts, HookAt
    <3>2. Hook(PM).message \in Nat
      BY <1>1, <3>1, HookIs DEF HookT
    <3>3. [pending EXCEPT !.accepted = Hook(PM).message] \in PendingT
      BY <1>1, <3>2, PendingUpdates
    <3>. QED
      BY <3>1, <3>3, CalmTold
  <2>. QED
    BY <2>1, <2>2, <2>3
<1>4. /\ hooks' \in [Roles -> Seq(HookT)] /\ handler' \in [Roles -> HandlerT]
      /\ \A r \in Roles : SameHooks(r) \/ MovesOn(r) \/ (Answers(r) /\ ~Releases(r))
  <2>1. CASE HookConfirmsPlanning
    <3>1. handler[Arch].step = "planning" /\ Goes(Arch, "context")
      BY <2>1 DEF HookConfirmsPlanning, HookAt
    <3>. QED
      BY <1>1, <3>1, GoesOn DEF PromptSteps, HandlerSteps, Typed
  <2>2. CASE HookTellsStop
    <3>1. handler[Arch].step = "stopped" /\ Goes(Arch, "dispatch")
      BY <2>2 DEF HookTellsStop, HookAt
    <3>. QED
      BY <1>1, <2>2, <3>1, GoesOn, StopIsAttended DEF PromptSteps, HandlerSteps, Typed
  <2>3. CASE HookAccepts
    <3>1. hooks[PM] # <<>> /\ handler[PM].step = "accept" /\ Answered(PM) /\ RoleOK(PM)
      BY <1>1, <2>3 DEF HookAccepts, HookAt, SInv
    <3>2. ~Releases(PM) /\ "accept" \in PromptSteps
      BY <3>1 DEF RoleOK, Handled, PromptSteps, Releases
    <3>. QED
      BY <1>1, <3>1, <3>2, AnswersIt
  <2>. QED
    BY <2>1, <2>2, <2>3
<1>5. Typed'
  BY <1>1, <1>2, <1>3, <1>4 DEF Typed
<1>. QED
  BY <1>2, <1>3, <1>4, <1>5 DEF Calm, SameSession, SameIntent, Turn

LEMMA CalmContextHook ==
  ASSUME SInv, NEW r \in Roles, HookConfirmsContext(r)
  PROVE  Calm
<1>1. Typed /\ intent \in [Roles -> IntentT]
  BY DEF SInv, Typed
<1>2. /\ UNCHANGED <<agent, term, input, written, route, delivery, record, file, job, pending,
                     recovering, up, work, events>>
      /\ hooks[r] # <<>> /\ handler[r].step = "context"
      /\ Goes(r, "accept") \/ Answered(r)
      /\ intent' \in {intent, [intent EXCEPT ![r] = NoIntent]}
  BY DEF HookConfirmsContext, HookAt, agentVars, messageVars, sessionVars
<1>3. intent' \in [Roles -> IntentT] /\ \A q \in Roles : SameIntent(q)
  BY <1>1, <1>2, Constants DEF SameIntent
<1>4. /\ hooks' \in [Roles -> Seq(HookT)] /\ handler' \in [Roles -> HandlerT]
      /\ \A q \in Roles : SameHooks(q) \/ MovesOn(q) \/ (Answers(q) /\ ~Releases(q))
  <2>1. CASE Goes(r, "accept")
    <3>1. "accept" \in HandlerSteps /\ handler[r].step \in PromptSteps /\ handler[r].step # "begin"
      BY <1>2 DEF HandlerSteps, PromptSteps
    <3>. QED
      BY <1>1, <2>1, <3>1, GoesOn DEF Typed
  <2>2. CASE Answered(r)
    <3>1. ~Releases(r) /\ "context" \in PromptSteps
      BY <1>2 DEF SInv, RoleOK, Handled, PromptSteps, Releases
    <3>. QED
      BY <1>1, <1>2, <2>2, <3>1, AnswersIt
  <2>. QED
    BY <1>2, <2>1, <2>2
<1>5. Typed'
  BY <1>1, <1>2, <1>3, <1>4 DEF Typed
<1>. QED
  BY <1>2, <1>3, <1>4, <1>5 DEF Calm, SameSession, SameJob, Turn

(* A message is delivered to a live terminal, and only busy changes.       *)
LEMMA Delivers ==
  ASSUME SInv, Deliverable, Deliver
  PROVE  /\ record' \in [Roles -> RecordT]
         /\ \A r \in Roles : /\ record'[r].id = record[r].id /\ record'[r].convo = record[r].convo
                             /\ record'[r].token = record[r].token
                             /\ r # PM => record'[r] = record[r]
                             /\ record[r].busy => record'[r].busy
         /\ input' \in [Roles -> Nat] /\ delivery' \in Nat /\ route' \in Nat /\ written' = written
<1>1. /\ Typed /\ PM \in Roles /\ RoleOK(PM) /\ record[PM] \in RecordT /\ route \in Nat
      /\ agent[PM] # "off"
  BY Constants DEF SInv, Typed, Deliverable, Live
<1>2. record[PM].id # 0
  BY <1>1 DEF RoleOK, Alive, Numbered, Typed, TermT, RecordT
<1>3. Registered(PM) = record[PM]
  BY <1>1, <1>2, RegisteredIs
<1>. DEFINE rec == [record[PM] EXCEPT !.busy = TRUE]
<1>4. record' = [record EXCEPT ![PM] = rec]
  BY <1>3 DEF Deliver
<1>5. rec \in RecordT /\ rec.id = record[PM].id /\ rec.convo = record[PM].convo
      /\ rec.token = record[PM].token /\ rec.busy
  BY <1>1 DEF RecordT
<1>. HIDE DEF rec
<1>6. /\ record' \in [Roles -> RecordT] /\ record'[PM] = rec
      /\ \A r \in Roles : r # PM => record'[r] = record[r]
  BY <1>1, <1>4, <1>5 DEF Typed
<1>7. input' \in [Roles -> Nat] /\ delivery' \in Nat /\ route' \in Nat /\ written' = written
  BY <1>1 DEF Deliver, Typed
<1>. QED
  BY <1>5, <1>6, <1>7

LEMMA CalmDispatch ==
  ASSUME SInv, NEW r \in Roles, HookDispatches(r)
  PROVE  Calm
<1>1. Typed /\ intent \in [Roles -> IntentT]
  BY DEF SInv, Typed
<1>2. /\ UNCHANGED <<agent, term, file, job, pending, intent, recovering, up, work, events>>
      /\ handler[r].step = "dispatch" /\ Goes(r, "delivered")
      /\ (Deliverable /\ Deliver) \/ UNCHANGED <<input, record, written, route, delivery>>
  BY DEF HookDispatches, HookAt, messageVars, restartVars
<1>3. /\ record' \in [Roles -> RecordT]
      /\ \A q \in Roles : /\ record'[q].id = record[q].id /\ record'[q].convo = record[q].convo
                          /\ record'[q].token = record[q].token
                          /\ record[q].busy => record'[q].busy
      /\ input' \in [Roles -> Nat] /\ delivery' \in Nat /\ route' \in Nat /\ written' \in Nat
  BY <1>1, <1>2, Delivers DEF Typed
<1>4. /\ hooks' = hooks /\ handler' \in [Roles -> HandlerT]
      /\ \A q \in Roles : SameHooks(q) \/ MovesOn(q)
  <2>1. "delivered" \in HandlerSteps /\ "delivered" \notin PromptSteps /\ handler[r].step # "begin"
    BY <1>2 DEF HandlerSteps, PromptSteps
  <2>. QED
    BY <1>1, <1>2, <2>1, GoesOn
<1>5. Typed'
  BY <1>1, <1>2, <1>3, <1>4 DEF Typed
<1>. QED
  BY <1>2, <1>3, <1>4, <1>5 DEF Calm, SameSession, SameJob, SameIntent, Turn

LEMMA CalmSettle ==
  ASSUME SInv, SettleDispatches
  PROVE  Calm
<1>1. Typed
  BY DEF SInv
<1>2. /\ UNCHANGED <<agent, term, file, hooks, handler, job, pending, intent, recovering, up, work, events>>
      /\ Deliverable /\ Deliver
  BY DEF SettleDispatches, hookVars, restartVars
<1>3. /\ record' \in [Roles -> RecordT]
      /\ \A q \in Roles : /\ record'[q].id = record[q].id /\ record'[q].convo = record[q].convo
                          /\ record'[q].token = record[q].token
                          /\ record[q].busy => record'[q].busy
      /\ input' \in [Roles -> Nat] /\ delivery' \in Nat /\ route' \in Nat /\ written' \in Nat
  BY <1>1, <1>2, Delivers DEF Typed
<1>5. Typed'
  BY <1>1, <1>2, <1>3 DEF Typed
<1>. QED
  BY <1>2, <1>3, <1>5 DEF Calm, SameSession, SameJob, SameIntent, SameHooks, Turn

(* A hook that ends, or that no longer belongs to the role's session.      *)
Declines(r) == /\ HookRecords(r) /\ ~Matches(Registered(r), Hook(r))
LEMMA CalmEnds ==
  ASSUME SInv, NEW r \in Roles, HookEnds(r) \/ Declines(r)
  PROVE  Calm
<1>1. Typed
  BY DEF SInv
<1>2. /\ UNCHANGED <<term, input, written, route, delivery, record, file, job, pending, intent,
                     recovering, up, work, events>>
      /\ hooks[r] # <<>> /\ Answered(r) /\ Released(r)
      /\ handler[r].step \in {"begin", "delivered"}
      /\ handler[r].step = "begin" => ~Matches(Registered(r), Hook(r))
  BY DEF HookEnds, Declines, HookRecords, HookAt, messageVars, sessionVars, restartVars
<1>3. /\ hooks' \in [Roles -> Seq(HookT)] /\ handler' \in [Roles -> HandlerT]
      /\ Answers(r) /\ \A q \in Roles : q # r => SameHooks(q)
  BY <1>1, <1>2, AnswersIt
<1>4. /\ agent' \in [Roles -> Life]
      /\ agent'[r] = (IF Releases(r) THEN "ready" ELSE agent[r])
      /\ \A q \in Roles : q # r => agent'[q] = agent[q]
  BY <1>1, <1>2, ReleasedIs DEF Releases
<1>5. Typed'
  BY <1>1, <1>2, <1>3, <1>4 DEF Typed
<1>6. \A q \in Roles : Turn(q)
  BY <1>2, <1>3, <1>4 DEF Turn
<1>. QED
  BY <1>2, <1>5, <1>6 DEF Calm, SameSession, SameJob, SameIntent

-----------------------------------------------------------------------------
(* The steps that change what is known of a session: a process takes a     *)
(* prompt or ends its turn, and a hook says so.                            *)
Speaks(r, kind) ==
  /\ Typed'
  /\ UNCHANGED <<record, file, handler, job, pending, intent>>
  /\ agent[r] = (IF kind = "prompt" THEN "ready" ELSE "working")
  /\ agent'[r] = (IF kind = "prompt" THEN "working" ELSE IF kind = "stop" THEN "stopping" ELSE "ready")
  /\ term'[r].id = term[r].id /\ term'[r].convo = term[r].convo /\ term'[r].origin = term[r].origin
  /\ term'[r].taken = (IF kind = "prompt" THEN term[r].taken \union {term[r].id} ELSE term[r].taken)
  /\ term'[r].end = (IF kind = "prompt" THEN "none" ELSE kind)
  /\ Len(hooks'[r]) = Len(hooks[r]) + 1 /\ Len(hooks[r]) \in Nat
  /\ \A i \in 1..Len(hooks[r]) : hooks'[r][i] = hooks[r][i]
  /\ hooks'[r][Len(hooks[r]) + 1].kind = kind
  /\ hooks'[r][Len(hooks[r]) + 1].id = term[r].id
  /\ hooks'[r][Len(hooks[r]) + 1].convo = term[r].convo
  /\ \A q \in Roles : q # r => /\ agent'[q] = agent[q] /\ term'[q] = term[q] /\ hooks'[q] = hooks[q]

LEMMA Enqueued ==
  ASSUME Typed, NEW r \in Roles, NEW kind \in {"prompt", "stop", "failure"}, Enqueue(r, kind)
  PROVE  /\ hooks' \in [Roles -> Seq(HookT)]
         /\ Len(hooks'[r]) = Len(hooks[r]) + 1 /\ Len(hooks[r]) \in Nat
         /\ \A i \in 1..Len(hooks[r]) : hooks'[r][i] = hooks[r][i]
         /\ hooks'[r][Len(hooks[r]) + 1].kind = kind
         /\ hooks'[r][Len(hooks[r]) + 1].id = term[r].id
         /\ hooks'[r][Len(hooks[r]) + 1].convo = term[r].convo
         /\ \A q \in Roles : q # r => hooks'[q] = hooks[q]
<1>. DEFINE h == [kind |-> kind, id |-> term[r].id, convo |-> term[r].convo,
                  message |-> IF kind = "prompt" THEN input[r] ELSE 0]
<1>1. term[r] \in TermT /\ input[r] \in Nat /\ hooks[r] \in Seq(HookT)
  BY DEF Typed
<1>2. /\ h \in HookT /\ h.kind = kind /\ h.id = term[r].id /\ h.convo = term[r].convo
  BY <1>1 DEF HookT, TermT
<1>3. hooks' = [hooks EXCEPT ![r] = Append(hooks[r], h)]
  BY DEF Enqueue
<1>. HIDE DEF h
<1>4. /\ Append(hooks[r], h) \in Seq(HookT) /\ Len(Append(hooks[r], h)) = Len(hooks[r]) + 1
      /\ Len(hooks[r]) \in Nat
      /\ \A i \in 1..Len(hooks[r]) : Append(hooks[r], h)[i] = hooks[r][i]
      /\ Append(hooks[r], h)[Len(hooks[r]) + 1] = h
  BY <1>1, <1>2
<1>5. /\ hooks'[r] = Append(hooks[r], h) /\ \A q \in Roles : q # r => hooks'[q] = hooks[q]
      /\ hooks' \in [Roles -> Seq(HookT)]
  BY <1>3, <1>4 DEF Typed
<1>. QED
  BY <1>2, <1>4, <1>5

LEMMA AcceptSpeaks ==
  ASSUME Typed, NEW r \in Roles, AgentAccepts(r)
  PROVE  Speaks(r, "prompt")
<1>. DEFINE S == term[r].taken \union {term[r].id}
<1>1. /\ agent[r] = "ready" /\ agent' = [agent EXCEPT ![r] = "working"] /\ Enqueue(r, "prompt")
      /\ input' = [input EXCEPT ![r] = 0]
      /\ term' = [term EXCEPT ![r].taken = S, ![r].end = "none"]
      /\ UNCHANGED <<written, route, delivery, record, file, handler, job, pending, intent,
                     recovering, up, work, events>>
  BY DEF AgentAccepts, messageVars, sessionVars, restartVars, NoInput
<1>2. term[r] \in TermT
  BY DEF Typed
<1>3. S \in SUBSET Nat
  BY <1>2 DEF TermT
<1>4. /\ term' \in [Roles -> TermT]
      /\ term'[r].id = term[r].id /\ term'[r].convo = term[r].convo /\ term'[r].origin = term[r].origin
      /\ term'[r].taken = S /\ term'[r].end = "none"
      /\ \A q \in Roles : q # r => term'[q] = term[q]
  <2>. HIDE DEF S
  <2>. QED
    BY <1>1, <1>2, <1>3 DEF Typed, TermT
<1>5. /\ agent' \in [Roles -> Life] /\ agent'[r] = "working" /\ input' \in [Roles -> Nat]
      /\ \A q \in Roles : q # r => agent'[q] = agent[q]
  BY <1>1 DEF Typed, Life
<1>6. Typed'
  BY <1>1, <1>4, <1>5, Enqueued DEF Typed
<1>. QED
  BY <1>1, <1>4, <1>5, <1>6, Enqueued DEF Speaks

LEMMA EndSpeaks ==
  ASSUME Typed, NEW r \in Roles, NEW kind \in {"stop", "failure"}, AgentEnds(r, kind),
         UNCHANGED work, events' \in {events, events + 1}
  PROVE  Speaks(r, kind)
<1>1. /\ agent[r] = "working"
      /\ agent' = [agent EXCEPT ![r] = IF kind = "stop" THEN "stopping" ELSE "ready"]
      /\ Enqueue(r, kind)
      /\ term' = [term EXCEPT ![r].end = kind]
      /\ UNCHANGED <<input, written, route, delivery, record, file, handler, job, pending, intent,
                     recovering, up>>
  BY DEF AgentEnds, messageVars, sessionVars, restartVars
<1>2. term[r] \in TermT
  BY DEF Typed
<1>4. /\ term' \in [Roles -> TermT]
      /\ term'[r].id = term[r].id /\ term'[r].convo = term[r].convo /\ term'[r].origin = term[r].origin
      /\ term'[r].taken = term[r].taken /\ term'[r].end = kind
      /\ \A q \in Roles : q # r => term'[q] = term[q]
  BY <1>1, <1>2 DEF Typed, TermT
<1>5. /\ agent' \in [Roles -> Life]
      /\ agent'[r] = (IF kind = "stop" THEN "stopping" ELSE "ready")
      /\ \A q \in Roles : q # r => agent'[q] = agent[q]
  BY <1>1 DEF Typed, Life
<1>6. Typed'
  BY <1>1, <1>4, <1>5, Enqueued DEF Typed
<1>. QED
  BY <1>1, <1>4, <1>5, <1>6, Enqueued DEF Speaks

LEMMA SpeaksKeeps ==
  ASSUME SInv, NEW r \in Roles, NEW kind \in {"prompt", "stop", "failure"}, Speaks(r, kind)
  PROVE  SInv'
<1>1. /\ Typed /\ Typed' /\ RoleOK(r) /\ term[r] \in TermT /\ hooks[r] \in Seq(HookT)
      /\ UNCHANGED <<record, file, handler, job, pending, intent>>
      /\ agent[r] # "off"
  BY DEF SInv, Speaks, Typed
<1>2. term[r].id \in term'[r].taken /\ \A x \in term[r].taken : x \in term'[r].taken
  BY <1>1 DEF Speaks, RoleOK, Alive
<1>3. RoleOK(r)'
  <2>1. Numbered(r)'
    BY <1>1 DEF Speaks, RoleOK, Numbered, TermT
  <2>2. Plain(r)' /\ Alive(r)'
    BY <1>1, <1>2 DEF Speaks, RoleOK, Plain, Alive
  <2>3. Heard(r)'
    <3>1. ASSUME NEW i \in 1..Len(hooks'[r]) PROVE hooks'[r][i].id \in term'[r].taken
      <4>1. CASE i \in 1..Len(hooks[r])
        BY <1>1, <1>2, <4>1 DEF Speaks, RoleOK, Heard
      <4>2. CASE i = Len(hooks[r]) + 1
        BY <1>2, <4>2 DEF Speaks
      <4>. QED
        BY <4>1, <4>2 DEF Speaks
    <3>. QED
      BY <3>1 DEF Heard
  <2>4. Tokened(r)'
    BY <1>1 DEF RoleOK, Alive, Tokened
  <2>5. Handled(r)'
    <3>1. hooks[r] # <<>> => hooks'[r] # <<>> /\ hooks'[r][1] = hooks[r][1]
      BY <1>1 DEF Speaks
    <3>2. hooks[r] # <<>> => Hook(r)' = Hook(r)
      <4>1. hooks'[r] \in Seq(HookT)
        BY <1>1 DEF Typed
      <4>. QED
        BY <1>1, <3>1, <4>1 DEF Hook
    <3>. QED
      BY <1>1, <3>1, <3>2 DEF RoleOK, Handled
  <2>. QED
    BY <2>1, <2>2, <2>3, <2>4, <2>5 DEF RoleOK
<1>4. ASSUME NEW q \in Roles, q # r PROVE RoleOK(q)'
  <2>1. /\ RoleOK(q) /\ UNCHANGED <<record, file, handler, job, pending, intent>>
        /\ agent'[q] = agent[q] /\ term'[q] = term[q] /\ hooks'[q] = hooks[q]
    BY <1>1, <1>4 DEF SInv, Speaks
  <2>. QED
    BY <2>1 DEF RoleOK, Numbered, Plain, Alive, Heard, Tokened, Handled, Hook
<1>5. ASSUME NEW c \in Callers PROVE JobOK(c)'
  <2>1. job[c].role \in Roles /\ JobOK(c)
    BY DEF SInv, Typed, JobT
  <2>. PICK q \in Roles : q = job[c].role
    BY <2>1
  <2>2. UNCHANGED <<record, file, handler, job>> /\ term'[q].id = term[q].id
    BY <1>1 DEF Speaks
  <2>3. Shape(c)'
    BY <2>1, <2>2 DEF JobOK, Shape
  <2>4. ASSUME InHand(c) PROVE Carries(c, q)'
    <3>1. Carries(c, q)
      BY <2>1, <2>4 DEF JobOK
    <3>2. Registered(q)' = Registered(q)
      BY <2>2 DEF Registered
    <3>3. CASE q # r
      <4>1. agent'[q] = agent[q] /\ hooks'[q] = hooks[q]
        BY <3>3 DEF Speaks
      <4>. QED
        BY <2>2, <3>1, <3>2, <4>1 DEF Carries
    <3>4. CASE q = r
      <4>1. job[c].kind = "resume" /\ record[q].token /\ job[c].step = "store"
        BY <1>1, <2>1, <2>4, <3>1, <3>4 DEF Carries, RoleOK, Alive, InHand, JobOK, Shape
      <4>. QED
        BY <2>2, <3>1, <3>2, <4>1 DEF Carries
    <3>. QED
      BY <3>3, <3>4
  <2>. QED
    BY <2>2, <2>3, <2>4 DEF JobOK, InHand
<1>6. Exclusive'
  BY <1>1 DEF SInv, Exclusive, InHand
<1>. QED
  BY <1>1, <1>3, <1>4, <1>5, <1>6 DEF SInv

-----------------------------------------------------------------------------
(* A hook of the role's session, which its record takes and then the file. *)
Recognizes(r) == HookRecords(r) /\ Matches(Registered(r), Hook(r))
Nobodys == /\ \A q \in Roles : handler[q].step # "store"
           /\ \A c \in Callers : job[c].step \notin {"exited", "store"}
Recorded(r) ==
  /\ Typed'
  /\ UNCHANGED <<agent, term, hooks, file, job, pending, intent>>
  /\ Nobodys /\ hooks[r] # <<>> /\ handler[r].step = "begin"
  /\ record[r].id # 0 /\ record[r].token /\ Hook(r).id = record[r].id
  /\ record[r].convo = 0 => Hook(r).kind = "prompt"
  /\ record[r].convo # 0 => Hook(r).convo = record[r].convo
  /\ record'[r].id = record[r].id /\ record'[r].token = record[r].token
  /\ record'[r].convo = (IF record[r].convo = 0 THEN Hook(r).convo ELSE record[r].convo)
  /\ record'[r].busy = (Hook(r).kind = "prompt")
  /\ handler'[r].step = "store" /\ handler'[r].rec = record'[r]
  /\ \A q \in Roles : q # r => record'[q] = record[q] /\ handler'[q] = handler[q]

LEMMA Recognized ==
  ASSUME SInv, ~Overlaps, NEW r \in Roles, Recognizes(r)
  PROVE  Recorded(r)
<1>. DEFINE h == Hook(r)
            rec == Registered(r)
            next == [rec EXCEPT !.convo = IF rec.convo = 0 THEN h.convo ELSE @,
                                !.busy = h.kind = "prompt"]
<1>1. /\ Typed /\ record[r] \in RecordT /\ handler[r] \in HandlerT /\ RoleOK(r)
      /\ DOMAIN job = Callers
  BY DEF SInv, Typed
<1>2. /\ hooks[r] # <<>> /\ handler[r].step = "begin" /\ Alone /\ Matches(rec, h)
      /\ record' = [record EXCEPT ![r] = next]
      /\ handler' = [handler EXCEPT ![r].step = "store", ![r].rec = next]
      /\ UNCHANGED <<agent, term, input, written, route, delivery, hooks, file, job, pending, intent,
                     recovering, up, work, events>>
  BY DEF Recognizes, HookRecords, HookAt, messageVars, restartVars
<1>3. Nobodys
  BY <1>1, <1>2 DEF Alone, Nobodys
<1>4. h \in HookT
  BY <1>1, <1>2, HookIs
<1>5. record[r].id # 0 /\ record[r].token
  <2>1. Matches(rec, h) => rec.id # 0
    BY DEF Matches
  <2>2. ~(record[r].id = 0 /\ file[r].convo = 0)
    BY <1>1, <1>2, <2>1, RegisteredIs
  <2>. QED
    BY <1>1, <1>2, <1>3, <2>2 DEF RoleOK, Tokened, Plain, Nobodys
<1>6. rec = record[r]
  BY <1>1, <1>5, RegisteredIs
<1>7. /\ h.id = record[r].id /\ (record[r].convo = 0 => h.kind = "prompt")
      /\ record[r].convo # 0 => h.convo = record[r].convo
  BY <1>2, <1>5, <1>6 DEF Matches
<1>8. next = [record[r] EXCEPT !.convo = IF record[r].convo = 0 THEN h.convo ELSE record[r].convo,
                               !.busy = (h.kind = "prompt")]
  BY Zenon, <1>6
<1>. HIDE DEF next, rec, h
<1>9. /\ next \in RecordT /\ next.id = record[r].id /\ next.token = record[r].token
      /\ next.convo = (IF record[r].convo = 0 THEN h.convo ELSE record[r].convo)
      /\ next.busy = (h.kind = "prompt")
  <2>1. h.convo \in Nat /\ record[r].convo \in Nat
    BY <1>1, <1>4 DEF HookT, RecordT
  <2>. DEFINE convo == IF record[r].convo = 0 THEN h.convo ELSE record[r].convo
              busy == h.kind = "prompt"
  <2>2. convo \in Nat /\ busy \in BOOLEAN /\ next = [record[r] EXCEPT !.convo = convo, !.busy = busy]
    BY <1>8, <2>1
  <2>. HIDE DEF convo, busy
  <2>3. /\ next \in RecordT /\ next.id = record[r].id /\ next.token = record[r].token
        /\ next.convo = convo /\ next.busy = busy
    BY <1>1, <2>2 DEF RecordT
  <2>. QED
    BY <2>3 DEF convo, busy
<1>10. /\ record' \in [Roles -> RecordT] /\ record'[r] = next
       /\ \A q \in Roles : q # r => record'[q] = record[q]
  BY <1>1, <1>2, <1>9 DEF Typed
<1>11. /\ handler' \in [Roles -> HandlerT] /\ handler'[r].step = "store" /\ handler'[r].rec = next
       /\ \A q \in Roles : q # r => handler'[q] = handler[q]
  BY <1>1, <1>2, <1>9 DEF Typed, HandlerT, HandlerSteps
<1>12. Typed'
  BY <1>1, <1>2, <1>10, <1>11 DEF Typed
<1>. QED
  BY <1>2, <1>3, <1>5, <1>7, <1>9, <1>10, <1>11, <1>12 DEF Recorded, h

LEMMA RecordedKeeps ==
  ASSUME SInv, NEW r \in Roles, Recorded(r)
  PROVE  SInv'
<1>1. /\ Typed /\ Typed' /\ record[r] \in RecordT
      /\ UNCHANGED <<agent, term, hooks, file, job, pending, intent>>
  BY DEF SInv, Recorded, Typed
<1>2. RoleOK(r)'
  <2>1. RoleOK(r)
    BY DEF SInv
  <2>2. Numbered(r)' /\ Plain(r)' /\ Alive(r)' /\ Heard(r)' /\ Tokened(r)'
    BY <1>1, <2>1 DEF Recorded, RoleOK, Numbered, Plain, Alive, Heard, Tokened
  <2>3. Handled(r)'
    BY <1>1 DEF Recorded, Handled, Hook, PromptSteps
  <2>. QED
    BY <2>2, <2>3 DEF RoleOK
<1>3. ASSUME NEW q \in Roles, q # r PROVE RoleOK(q)'
  <2>1. RoleOK(q) /\ record'[q] = record[q] /\ handler'[q] = handler[q]
    BY <1>3 DEF SInv, Recorded
  <2>. QED
    BY <1>1, <2>1 DEF RoleOK, Numbered, Plain, Alive, Heard, Tokened, Handled, Hook
<1>4. ASSUME NEW c \in Callers PROVE JobOK(c)'
  <2>1. job[c].role \in Roles /\ JobOK(c)
    BY <1>1 DEF SInv, Typed, JobT
  <2>. PICK q \in Roles : q = job[c].role
    BY <2>1
  <2>2. Shape(c)'
    BY <1>1, <2>1 DEF JobOK, Shape
  <2>3. ASSUME InHand(c) PROVE Carries(c, q)'
    <3>1. Carries(c, q) /\ job[c].step = "launch" /\ job[c].kind \notin {"start", "resume"}
      BY <2>1, <2>3 DEF JobOK, InHand, Recorded, Nobodys
    <3>2. CASE job[c].kind = "stop"
      BY <1>1, <3>1, <3>2 DEF Carries
    <3>3. CASE job[c].kind # "stop"
      <4>1. q # r
        BY <3>1, <3>3 DEF Carries, Recorded
      <4>2. record'[q] = record[q] /\ handler'[q] = handler[q]
        BY <4>1 DEF Recorded
      <4>. QED
        BY <1>1, <3>1, <4>2 DEF Carries
    <3>. QED
      BY <3>2, <3>3
  <2>. QED
    BY <1>1, <2>2, <2>3 DEF JobOK, InHand
<1>5. Exclusive'
  BY <1>1 DEF SInv, Exclusive, InHand, Recorded, Nobodys
<1>. QED
  BY <1>1, <1>2, <1>3, <1>4, <1>5 DEF SInv

Filed(r) ==
  /\ Typed'
  /\ UNCHANGED <<agent, term, hooks, record, job, pending, intent>>
  /\ hooks[r] # <<>> /\ handler[r].step = "store"
  /\ file'[r].id = record[r].id /\ file'[r].convo = record[r].convo /\ record[r].id # 0
  /\ handler'[r].rec = handler[r].rec /\ handler'[r].step \notin {"begin", "store"}
  /\ handler'[r].step \in PromptSteps <=> Hook(r).kind = "prompt"
  /\ handler'[r].step \in {"dispatch", "delivered"} => r # Arch \/ Hook(r).kind # "stop"
  /\ \A q \in Roles : q # r => file'[q] = file[q] /\ handler'[q] = handler[q]

LEMMA StoreFiles ==
  ASSUME SInv, NEW r \in Roles, HookStores(r)
  PROVE  Filed(r)
<1>. DEFINE s == IF Hook(r).kind = "prompt" THEN IF r = Arch THEN "planning" ELSE "context"
                 ELSE IF Hook(r).kind = "stop" /\ r = Arch THEN "stopped" ELSE "dispatch"
<1>1. /\ Typed /\ record[r] \in RecordT /\ handler[r] \in HandlerT /\ RoleOK(r)
      /\ handler[r].rec \in RecordT
  BY DEF SInv, Typed, HandlerT
<1>2. /\ hooks[r] # <<>> /\ handler[r].step = "store"
      /\ file' = [file EXCEPT ![r] = Stored(handler[r].rec)]
      /\ handler' = [handler EXCEPT ![r].step = s]
      /\ UNCHANGED <<agent, term, input, written, route, delivery, hooks, record, job, pending, intent,
                     recovering, up, work, events>>
  BY DEF HookStores, HookAt, Goes, agentVars, messageVars, restartVars
<1>3. handler[r].rec.id = record[r].id /\ handler[r].rec.convo = record[r].convo
      /\ record[r].id = Hook(r).id
  BY <1>1, <1>2 DEF RoleOK, Handled
<1>4. record[r].id # 0
  <2>1. Hook(r).id \in term[r].taken
    BY <1>1, <1>2, HookIs DEF RoleOK, Heard
  <2>. QED
    BY <1>1, <1>3, <2>1 DEF RoleOK, Numbered
<1>5. /\ Stored(handler[r].rec) \in FileT /\ Stored(handler[r].rec).id = handler[r].rec.id
      /\ Stored(handler[r].rec).convo = handler[r].rec.convo
  BY <1>1 DEF Stored, FileT, RecordT
<1>6. /\ file' \in [Roles -> FileT] /\ file'[r].id = record[r].id /\ file'[r].convo = record[r].convo
      /\ \A q \in Roles : q # r => file'[q] = file[q]
  BY <1>1, <1>2, <1>3, <1>5 DEF Typed
<1>7. /\ s \in HandlerSteps /\ s \notin {"begin", "store"}
      /\ s \in PromptSteps <=> Hook(r).kind = "prompt"
      /\ s \in {"dispatch", "delivered"} => r # Arch \/ Hook(r).kind # "stop"
  BY DEF HandlerSteps, PromptSteps
<1>. HIDE DEF s
<1>8. /\ handler' \in [Roles -> HandlerT] /\ handler'[r].step = s /\ handler'[r].rec = handler[r].rec
      /\ \A q \in Roles : q # r => handler'[q] = handler[q]
  BY <1>1, <1>2, <1>7 DEF Typed, HandlerT
<1>9. Typed'
  BY <1>1, <1>2, <1>6, <1>8 DEF Typed
<1>. QED
  BY <1>2, <1>4, <1>6, <1>7, <1>8, <1>9 DEF Filed

LEMMA FiledKeeps ==
  ASSUME SInv, NEW r \in Roles, Filed(r)
  PROVE  SInv'
<1>1. /\ Typed /\ Typed' /\ record[r] \in RecordT
      /\ UNCHANGED <<agent, term, hooks, record, job, pending, intent>>
      /\ \A c \in Callers : job[c].step \notin {"exited", "store"}
  BY DEF SInv, Filed, Typed, Exclusive
<1>2. RoleOK(r)'
  <2>1. RoleOK(r)
    BY DEF SInv
  <2>2. Numbered(r)' /\ Plain(r)' /\ Alive(r)' /\ Heard(r)'
    BY <1>1, <2>1 DEF Filed, RoleOK, Numbered, Plain, Alive, Heard
  <2>3. Tokened(r)'
    BY <1>1, <2>1 DEF Filed, RoleOK, Tokened
  <2>4. Handled(r)'
    BY <1>1, <2>1 DEF Filed, RoleOK, Handled, Hook
  <2>. QED
    BY <2>2, <2>3, <2>4 DEF RoleOK
<1>3. ASSUME NEW q \in Roles, q # r PROVE RoleOK(q)'
  <2>1. RoleOK(q) /\ file'[q] = file[q] /\ handler'[q] = handler[q]
    BY <1>3 DEF SInv, Filed
  <2>. QED
    BY <1>1, <2>1 DEF RoleOK, Numbered, Plain, Alive, Heard, Tokened, Handled, Hook
<1>4. ASSUME NEW c \in Callers PROVE JobOK(c)'
  <2>1. job[c].role \in Roles /\ JobOK(c)
    BY <1>1 DEF SInv, Typed, JobT
  <2>. PICK q \in Roles : q = job[c].role
    BY <2>1
  <2>2. Shape(c)'
    BY <1>1, <2>1 DEF JobOK, Shape
  <2>3. ASSUME InHand(c) PROVE Carries(c, q)'
    <3>1. Carries(c, q) /\ job[c].step = "launch" /\ job[c].kind \notin {"start", "resume"}
      BY <1>1, <2>1, <2>3 DEF JobOK, InHand
    <3>2. job[c].kind # "stop"
      BY <2>1, <3>1 DEF JobOK, Shape
    <3>3. q # r
      BY <3>1, <3>2 DEF Carries, Filed
    <3>4. file'[q] = file[q] /\ handler'[q] = handler[q]
      BY <3>3 DEF Filed
    <3>. QED
      BY <1>1, <3>1, <3>4 DEF Carries
  <2>. QED
    BY <1>1, <2>2, <2>3 DEF JobOK, InHand
<1>5. Exclusive'
  <2>1. \A q \in Roles : handler'[q].step = "store" => handler[q].step = "store"
    BY DEF Filed
  <2>. QED
    BY <1>1, <2>1 DEF SInv, Exclusive, InHand
<1>. QED
  BY <1>1, <1>2, <1>3, <1>4, <1>5 DEF SInv

-----------------------------------------------------------------------------
(* The steps of a job that has a session in hand.                          *)
Stopped(c, r) ==
  /\ Typed' /\ Nobodys /\ \A d \in Callers : job[d].step # "launch"
  /\ UNCHANGED <<term, file, hooks, handler, pending, intent>>
  /\ job[c].step = "stop" /\ r = job[c].role
  /\ agent'[r] = "off" /\ \A q \in Roles : q # r => agent'[q] = agent[q]
  /\ job'[c].kind = job[c].kind /\ job'[c].role = r
  /\ \A d \in Callers : d # c => job'[d] = job[d]
  /\ \/ /\ job[c].kind = "stop" /\ job'[c].step = "exited" /\ record' = record
        /\ job'[c].rec.id = Registered(r).id /\ job'[c].rec.convo = Registered(r).convo
        /\ job'[c].rec.token = Registered(r).token
     \/ /\ job[c].kind # "stop"
        /\ job'[c].step = (IF Registered(r).id = 0 THEN "launch" ELSE "store")
        /\ record'[r] = NoRecord \/ (record'[r] = record[r] /\ record[r].id = 0)
        /\ \A q \in Roles : q # r => record'[q] = record[q]

LEMMA JobIsStopped ==
  ASSUME SInv, ~Overlaps, NEW c \in Callers, NEW r \in Roles, r = job[c].role, JobStops(c)
  PROVE  Stopped(c, r)
<1>. DEFINE existing == Registered(r)
            rec == [existing EXCEPT !.busy = FALSE]
            s == IF existing.id = 0 THEN "launch" ELSE "store"
            cleared == IF record[r].id = existing.id THEN NoRecord ELSE record[r]
<1>1. /\ Typed /\ job[c] \in JobT /\ record[r] \in RecordT /\ RoleOK(r) /\ DOMAIN job = Callers
      /\ existing \in RecordT /\ file[r] \in FileT /\ agent[r] \in Life
  BY RegisteredIs DEF SInv, Typed
<1>2. /\ job[c].step = "stop" /\ Alone /\ \A d \in Callers : job[d].step # "launch"
      /\ IF Live(r, existing) THEN Ends(r) ELSE UNCHANGED <<agent, input>>
      /\ IF job[c].kind = "stop"
         THEN /\ job' = [job EXCEPT ![c].step = "exited", ![c].rec = rec]
              /\ UNCHANGED record
         ELSE /\ job' = [job EXCEPT ![c].step = s]
              /\ record' = [record EXCEPT ![r] = cleared]
      /\ UNCHANGED <<term, file, written, route, delivery, hooks, handler, pending, intent,
                     recovering, up, work, events>>
  BY <1>1 DEF JobStops, At, Step, JobFrame, messageVars, hookVars
<1>3. Nobodys
  BY <1>1, <1>2 DEF Alone, Nobodys
<1>4. /\ agent' \in [Roles -> Life] /\ input' \in [Roles -> Nat]
      /\ agent'[r] = "off" /\ \A q \in Roles : q # r => agent'[q] = agent[q]
  <2>1. CASE Live(r, existing)
    <3>1. agent' = [agent EXCEPT ![r] = "off"] /\ input' = [input EXCEPT ![r] = 0]
      BY Zenon, <1>2, <2>1 DEF Ends, NoInput
    <3>. QED
      BY <1>1, <3>1 DEF Typed, Life
  <2>2. CASE ~Live(r, existing)
    <3>1. agent[r] # "off" => record[r].id # 0 /\ record[r].id = term[r].id
      BY <1>1 DEF RoleOK, Alive, Numbered, Typed, TermT
    <3>2. agent[r] = "off"
      BY <1>1, <2>2, <3>1, RegisteredIs DEF Live
    <3>. QED
      BY <1>1, <1>2, <2>2, <3>2 DEF Typed
  <2>. QED
    BY <2>1, <2>2
<1>5. /\ rec \in RecordT /\ rec.id = existing.id /\ rec.convo = existing.convo
      /\ rec.token = existing.token
  <2>. HIDE DEF existing
  <2>. QED
    BY <1>1 DEF RecordT
<1>6. s \in JobSteps
  BY DEF JobSteps
<1>7. /\ cleared \in RecordT
      /\ cleared = NoRecord \/ (cleared = record[r] /\ record[r].id = 0)
  BY <1>1, RegisteredIs, Constants
<1>. HIDE DEF rec, s, cleared, existing
<1>8. CASE job[c].kind = "stop"
  <2>0. job' = [job EXCEPT ![c].step = "exited", ![c].rec = rec] /\ "exited" \in JobSteps
    BY Zenon, <1>2, <1>8 DEF JobSteps
  <2>1. /\ job' \in [Callers -> JobT] /\ job'[c].step = "exited" /\ job'[c].rec = rec
        /\ job'[c].kind = job[c].kind /\ job'[c].role = job[c].role
        /\ \A d \in Callers : d # c => job'[d] = job[d]
    BY <1>1, <1>5, <2>0 DEF Typed, JobT
  <2>2. Typed'
    BY <1>1, <1>2, <1>4, <1>8, <2>1 DEF Typed
  <2>. QED
    BY <1>2, <1>3, <1>4, <1>5, <1>8, <2>1, <2>2 DEF Stopped, existing
<1>9. CASE job[c].kind # "stop"
  <2>0. job' = [job EXCEPT ![c].step = s] /\ record' = [record EXCEPT ![r] = cleared]
    BY Zenon, <1>2, <1>9
  <2>1. /\ job' \in [Callers -> JobT] /\ job'[c].step = s
        /\ job'[c].kind = job[c].kind /\ job'[c].role = job[c].role
        /\ \A d \in Callers : d # c => job'[d] = job[d]
    BY <1>1, <1>6, <2>0 DEF Typed, JobT
  <2>2. /\ record' \in [Roles -> RecordT] /\ record'[r] = cleared
        /\ \A q \in Roles : q # r => record'[q] = record[q]
    BY <1>1, <1>7, <2>0 DEF Typed
  <2>3. Typed'
    BY <1>1, <1>2, <1>4, <2>1, <2>2 DEF Typed
  <2>. QED
    BY <1>2, <1>3, <1>4, <1>7, <1>9, <2>1, <2>2, <2>3 DEF Stopped, existing, s
<1>. QED
  BY <1>8, <1>9

LEMMA StoppedKeeps ==
  ASSUME SInv, NEW c \in Callers, NEW r \in Roles, Stopped(c, r)
  PROVE  SInv'
<1>1. /\ Typed /\ Typed' /\ record[r] \in RecordT /\ file[r] \in FileT
      /\ UNCHANGED <<term, file, hooks, handler, pending, intent>>
      /\ RoleOK(r) /\ JobOK(c) /\ Nobodys
  BY DEF SInv, Stopped, Typed
<1>2. /\ record'[r].id # 0 => record' = record
      /\ record'[r].id = record[r].id \/ record'[r].id = 0
      /\ record'[r].id = 0 => record'[r].convo = 0 /\ ~record'[r].token
  BY <1>1, Constants DEF Stopped, RoleOK, Plain
<1>3. RoleOK(r)'
  <2>1. Numbered(r)'
    <3>1. record[r].id <= term[r].id /\ 0 <= term[r].id
      BY <1>1 DEF RoleOK, Numbered, Typed, TermT
    <3>2. record'[r].id <= term[r].id
      BY <1>2, <3>1
    <3>. QED
      BY <1>1, <3>2 DEF RoleOK, Numbered
  <2>2. Plain(r)' /\ Alive(r)' /\ Heard(r)'
    BY <1>1, <1>2 DEF Stopped, RoleOK, Plain, Alive, Heard
  <2>3. Tokened(r)'
    <3>1. CASE record' = record
      BY <1>1, <3>1 DEF RoleOK, Tokened, Nobodys
    <3>2. CASE job'[c].step = "store"
      BY <3>2 DEF Stopped, Tokened
    <3>3. CASE job'[c].step = "launch"
      <4>1. Registered(r).id = 0 /\ job[c].kind # "stop"
        BY <3>3 DEF Stopped
      <4>2. record[r].id = 0 /\ file[r].convo = 0
        BY <1>1, <4>1, RegisteredIs DEF RoleOK, Plain
      <4>3. record'[r].id = 0
        BY <1>2, <4>2
      <4>. QED
        BY <1>1, <4>2, <4>3 DEF Tokened
    <3>. QED
      BY <3>1, <3>2, <3>3 DEF Stopped
  <2>4. Handled(r)'
    BY <1>1 DEF RoleOK, Handled, Hook, Nobodys
  <2>. QED
    BY <2>1, <2>2, <2>3, <2>4 DEF RoleOK
<1>4. ASSUME NEW q \in Roles, q # r PROVE RoleOK(q)'
  <2>1. RoleOK(q) /\ record'[q] = record[q] /\ agent'[q] = agent[q]
    BY <1>4 DEF SInv, Stopped
  <2>2. Tokened(q)'
    BY <1>1, <2>1 DEF RoleOK, Tokened, Nobodys
  <2>. QED
    BY <1>1, <2>1, <2>2 DEF RoleOK, Numbered, Plain, Alive, Heard, Handled, Hook
<1>5. ASSUME NEW d \in Callers, d # c PROVE JobOK(d)' /\ ~InHand(d)'
  <2>1. JobOK(d) /\ job'[d] = job[d] /\ ~InHand(d)
    BY <1>1, <1>5 DEF SInv, Stopped, InHand, Nobodys
  <2>. QED
    BY <1>1, <2>1 DEF JobOK, Shape, InHand
<1>6. JobOK(c)'
  <2>1. Shape(c)'
    BY <1>1 DEF JobOK, Shape, Stopped
  <2>2. Carries(c, r)'
    <3>1. CASE job[c].kind = "stop"
      <4>1. Registered(r)' = Registered(r)
        BY <1>1, <3>1 DEF Registered, Stopped
      <4>. QED
        BY <1>1, <3>1, <4>1 DEF Carries, Stopped
    <3>2. CASE job[c].kind # "stop"
      <4>1. job[c].kind \notin {"resume", "start"}
        BY <1>1 DEF JobOK, Shape, Stopped
      <4>2. record'[r].id = 0 /\ handler'[r].step # "store" /\ agent'[r] = "off"
        BY <1>1, <1>2, <3>2, Constants DEF Stopped, Nobodys
      <4>3. job'[c].step = "launch" => file[r].convo = 0
        <5>1. job'[c].step = "launch" => Registered(r).id = 0
          BY <3>2 DEF Stopped
        <5>. QED
          BY <1>1, <5>1, RegisteredIs DEF RoleOK, Plain
      <4>. QED
        BY <1>1, <3>2, <4>1, <4>2, <4>3 DEF Carries, Stopped
    <3>. QED
      BY <3>1, <3>2
  <2>. QED
    BY <2>1, <2>2 DEF JobOK, Stopped
<1>7. Exclusive'
  <2>1. \A q \in Roles : handler'[q].step # "store"
    BY <1>1 DEF Nobodys
  <2>2. ~InHand("planning")' \/ ~InHand("user")'
    BY <1>5 DEF Callers
  <2>. QED
    BY <2>1, <2>2 DEF Exclusive
<1>. QED
  BY <1>1, <1>3, <1>4, <1>5, <1>6, <1>7 DEF SInv

Exited(c, r) ==
  /\ Typed' /\ UNCHANGED <<agent, term, file, hooks, handler, pending, intent>>
  /\ job[c].step = "exited" /\ r = job[c].role
  /\ record'[r] = job[c].rec /\ \A q \in Roles : q # r => record'[q] = record[q]
  /\ \A d \in Callers : d # c => job'[d] = job[d]
  /\ \/ /\ job[c].rec.convo # 0 /\ job'[c].step = "store" /\ job'[c].kind = job[c].kind
        /\ job'[c].role = job[c].role /\ job'[c].rec = job[c].rec
     \/ job'[c] = NoJob

LEMMA JobIsExited ==
  ASSUME SInv, NEW c \in Callers, NEW r \in Roles, r = job[c].role, JobExits(c)
  PROVE  Exited(c, r)
<1>. DEFINE rec == job[c].rec
<1>1. Typed /\ job[c] \in JobT /\ rec \in RecordT
  BY DEF SInv, Typed, JobT
<1>2. /\ job[c].step = "exited" /\ record' = [record EXCEPT ![r] = rec]
      /\ \/ rec.convo # 0 /\ job' = [job EXCEPT ![c].step = "store"]
         \/ job' = [job EXCEPT ![c] = NoJob]
      /\ UNCHANGED <<agent, term, input, file, written, route, delivery, hooks, handler, pending, intent,
                     recovering, up, work, events>>
  BY Zenon DEF JobExits, At, Step, Done, JobFrame, agentVars, messageVars, hookVars
<1>3. /\ record' \in [Roles -> RecordT] /\ record'[r] = rec
      /\ \A q \in Roles : q # r => record'[q] = record[q]
  BY <1>1, <1>2 DEF Typed
<1>4. ASSUME job' = [job EXCEPT ![c].step = "store"]
      PROVE  /\ job' \in [Callers -> JobT] /\ job'[c].step = "store" /\ job'[c].kind = job[c].kind
             /\ job'[c].role = job[c].role /\ job'[c].rec = job[c].rec
             /\ \A d \in Callers : d # c => job'[d] = job[d]
  BY <1>1, <1>4 DEF Typed, JobT, JobSteps
<1>5. ASSUME job' = [job EXCEPT ![c] = NoJob]
      PROVE  /\ job' \in [Callers -> JobT] /\ job'[c] = NoJob
             /\ \A d \in Callers : d # c => job'[d] = job[d]
  BY <1>1, <1>5, Constants DEF Typed
<1>6. Typed'
  BY <1>1, <1>2, <1>3, <1>4, <1>5 DEF Typed
<1>. QED
  BY <1>2, <1>3, <1>4, <1>5, <1>6 DEF Exited

LEMMA ExitedKeeps ==
  ASSUME SInv, NEW c \in Callers, NEW r \in Roles, Exited(c, r)
  PROVE  SInv'
<1>1. /\ Typed /\ Typed' /\ record[r] \in RecordT /\ file[r] \in FileT
      /\ UNCHANGED <<agent, term, file, hooks, handler, pending, intent>>
      /\ RoleOK(r) /\ JobOK(c) /\ job[c].step = "exited" /\ r = job[c].role
  BY DEF SInv, Exited, Typed
<1>2. Carries(c, r) /\ InHand(c)
  BY <1>1 DEF JobOK, InHand
<1>3. /\ job[c].kind = "stop" /\ agent[r] = "off"
      /\ record'[r].id = Registered(r).id /\ record'[r].convo = Registered(r).convo
      /\ record'[r].token = Registered(r).token
  BY <1>1, <1>2 DEF Carries, Exited
<1>4. \A d \in Callers : d # c => ~InHand(d)
  BY <1>2 DEF SInv, Exclusive, Callers
<1>5. \A q \in Roles : handler[q].step # "store"
  BY <1>1 DEF SInv, Exclusive
<1>6. /\ record'[r].id = 0 => record'[r].convo = 0 /\ ~record'[r].token
      /\ record'[r].id = record[r].id \/ record'[r].id = file[r].id \/ record'[r].id = 0
  BY <1>1, <1>3, RegisteredIs DEF RoleOK, Plain
<1>7. hooks[r] # <<>> => record'[r].token \/ (record'[r].id = 0 /\ file[r].convo = 0)
  <2>1. hooks[r] # <<>> => record[r].token \/ (record[r].id = 0 /\ file[r].convo = 0)
    BY <1>1, <1>4 DEF RoleOK, Tokened, InHand
  <2>2. record[r].token => record[r].id # 0
    BY <1>1 DEF RoleOK, Plain
  <2>. QED
    BY <1>1, <1>3, <2>1, <2>2, RegisteredIs
<1>8. RoleOK(r)'
  <2>1. record'[r].id <= term[r].id
    BY <1>1, <1>6 DEF RoleOK, Numbered, Typed, TermT
  <2>2. Numbered(r)' /\ Plain(r)' /\ Alive(r)' /\ Heard(r)'
    BY <1>1, <1>3, <1>6, <2>1 DEF RoleOK, Numbered, Plain, Alive, Heard
  <2>3. Tokened(r)' /\ Handled(r)'
    BY <1>1, <1>5, <1>7 DEF RoleOK, Tokened, Handled, Hook
  <2>. QED
    BY <2>2, <2>3 DEF RoleOK
<1>9. ASSUME NEW q \in Roles, q # r PROVE RoleOK(q)'
  <2>1. RoleOK(q) /\ record'[q] = record[q]
    BY <1>9 DEF SInv, Exited
  <2>2. Tokened(q)'
    <3>1. \A d \in Callers : job[d].step # "store"
      BY <1>1, <1>4 DEF InHand
    <3>. QED
      BY <1>1, <2>1, <3>1 DEF RoleOK, Tokened
  <2>. QED
    BY <1>1, <2>1, <2>2 DEF RoleOK, Numbered, Plain, Alive, Heard, Handled, Hook
<1>10. ASSUME NEW d \in Callers, d # c PROVE JobOK(d)' /\ ~InHand(d)'
  <2>1. JobOK(d) /\ job'[d] = job[d] /\ ~InHand(d)
    BY <1>4, <1>10 DEF SInv, Exited
  <2>. QED
    BY <1>1, <2>1 DEF JobOK, Shape, InHand
<1>11. JobOK(c)'
  <2>1. CASE job'[c] = NoJob
    <3>1. Shape(c)
      BY <1>1 DEF JobOK
    <3>. QED
      BY <1>3, <2>1, <3>1, Constants DEF JobOK, Shape, InHand, Callers
  <2>2. CASE job'[c].step = "store"
    <3>1. /\ job'[c].kind = "stop" /\ job'[c].role = r /\ job'[c].rec = record'[r]
          /\ Shape(c)
      BY <1>1, <1>3, <2>2, Constants DEF JobOK, Exited
    <3>2. Shape(c)'
      BY <1>3, <2>2, <3>1 DEF Shape
    <3>3. Carries(c, r)'
      BY <1>1, <1>3, <1>7, <2>2, <3>1 DEF Carries
    <3>. QED
      BY <3>1, <3>2, <3>3 DEF JobOK
  <2>. QED
    BY <2>1, <2>2 DEF Exited
<1>12. Exclusive'
  BY <1>1, <1>5, <1>10 DEF Exclusive, Callers
<1>. QED
  BY <1>1, <1>8, <1>9, <1>10, <1>11, <1>12 DEF SInv

Kept(c, r) ==
  /\ Typed' /\ UNCHANGED <<agent, term, record, hooks, handler, pending, intent>>
  /\ job[c].step = "store" /\ r = job[c].role
  /\ \A q \in Roles : q # r => file'[q] = file[q]
  /\ \A d \in Callers : d # c => job'[d] = job[d]
  /\ \/ /\ job[c].kind \in {"stop", "resume"} /\ job'[c] = NoJob
        /\ file'[r].id = record[r].id /\ file'[r].convo = record[r].convo
     \/ /\ job[c].kind \notin {"stop", "resume"} /\ job'[c].step = "launch"
        /\ job'[c].kind = job[c].kind /\ job'[c].role = r
        /\ file'[r].id = 0 /\ file'[r].convo = 0

LEMMA JobIsKept ==
  ASSUME SInv, NEW c \in Callers, NEW r \in Roles, r = job[c].role, JobStores(c)
  PROVE  Kept(c, r)
<1>. DEFINE value == IF job[c].kind \in {"stop", "resume"} THEN Stored(job[c].rec) ELSE NotStored
<1>1. Typed /\ job[c] \in JobT /\ job[c].rec \in RecordT /\ JobOK(c)
  BY DEF SInv, Typed, JobT
<1>2. /\ job[c].step = "store" /\ file' = [file EXCEPT ![r] = value]
      /\ IF job[c].kind \in {"stop", "resume"} THEN job' = [job EXCEPT ![c] = NoJob]
         ELSE job' = [job EXCEPT ![c].step = "launch"]
      /\ UNCHANGED <<agent, term, input, record, written, route, delivery, hooks, handler, pending, intent,
                     recovering, up, work, events>>
  BY Zenon DEF JobStores, Stores, At, Step, Done, JobFrame, agentVars, messageVars, hookVars
<1>3. /\ value \in FileT
      /\ job[c].kind \in {"stop", "resume"} =>
           value.id = job[c].rec.id /\ value.convo = job[c].rec.convo
      /\ job[c].kind \notin {"stop", "resume"} => value.id = 0 /\ value.convo = 0
  <2>1. /\ Stored(job[c].rec) \in FileT /\ Stored(job[c].rec).id = job[c].rec.id
        /\ Stored(job[c].rec).convo = job[c].rec.convo
    BY <1>1 DEF Stored, FileT, RecordT
  <2>. QED
    BY <2>1, Constants
<1>4. job[c].kind \in {"stop", "resume"} =>
        job[c].rec.id = record[r].id /\ job[c].rec.convo = record[r].convo
  BY <1>1, <1>2 DEF JobOK, InHand, Carries
<1>. HIDE DEF value
<1>5. /\ file' \in [Roles -> FileT] /\ file'[r] = value
      /\ \A q \in Roles : q # r => file'[q] = file[q]
  BY <1>1, <1>2, <1>3 DEF Typed
<1>6. ASSUME job' = [job EXCEPT ![c].step = "launch"]
      PROVE  /\ job' \in [Callers -> JobT] /\ job'[c].step = "launch" /\ job'[c].kind = job[c].kind
             /\ job'[c].role = job[c].role
             /\ \A d \in Callers : d # c => job'[d] = job[d]
  BY <1>1, <1>6 DEF Typed, JobT, JobSteps
<1>7. ASSUME job' = [job EXCEPT ![c] = NoJob]
      PROVE  /\ job' \in [Callers -> JobT] /\ job'[c] = NoJob
             /\ \A d \in Callers : d # c => job'[d] = job[d]
  BY <1>1, <1>7, Constants DEF Typed
<1>8. Typed'
  BY <1>1, <1>2, <1>5, <1>6, <1>7 DEF Typed
<1>. QED
  BY <1>2, <1>3, <1>4, <1>5, <1>6, <1>7, <1>8 DEF Kept

LEMMA KeptKeeps ==
  ASSUME SInv, NEW c \in Callers, NEW r \in Roles, Kept(c, r)
  PROVE  SInv'
<1>1. /\ Typed /\ Typed' /\ record[r] \in RecordT
      /\ UNCHANGED <<agent, term, record, hooks, handler, pending, intent>>
      /\ RoleOK(r) /\ JobOK(c) /\ job[c].step = "store" /\ r = job[c].role
  BY DEF SInv, Kept, Typed
<1>2. Carries(c, r) /\ InHand(c)
  BY <1>1 DEF JobOK, InHand
<1>3. \A d \in Callers : d # c => ~InHand(d)
  BY <1>2 DEF SInv, Exclusive, Callers
<1>4. \A q \in Roles : handler[q].step # "store"
  BY <1>1 DEF SInv, Exclusive
<1>5. \/ /\ job[c].kind \in {"stop", "resume"} /\ job'[c] = NoJob
         /\ file'[r].id = record[r].id /\ file'[r].convo = record[r].convo
         /\ record[r].id = 0 \/ record[r].token \/ hooks[r] = <<>>
      \/ /\ job[c].kind \notin {"stop", "resume"} /\ job'[c].step = "launch"
         /\ job'[c].kind = job[c].kind /\ job'[c].role = r
         /\ file'[r].id = 0 /\ file'[r].convo = 0 /\ record[r].id = 0 /\ agent[r] = "off"
  BY <1>1, <1>2 DEF Carries, Kept
<1>6. RoleOK(r)'
  <2>1. file'[r].id <= term[r].id
    BY <1>1, <1>5 DEF RoleOK, Numbered, Typed, TermT
  <2>2. Numbered(r)' /\ Plain(r)' /\ Alive(r)' /\ Heard(r)'
    BY <1>1, <1>5, <2>1 DEF RoleOK, Numbered, Plain, Alive, Heard
  <2>3. Tokened(r)' /\ Handled(r)'
    BY <1>1, <1>4, <1>5 DEF RoleOK, Plain, Tokened, Handled, Hook
  <2>. QED
    BY <2>2, <2>3 DEF RoleOK
<1>7. ASSUME NEW q \in Roles, q # r PROVE RoleOK(q)'
  <2>1. RoleOK(q) /\ file'[q] = file[q]
    BY <1>7 DEF SInv, Kept
  <2>2. Tokened(q)'
    <3>1. \A d \in Callers : job[d].step = "store" => job[d].role = r
      BY <1>1, <1>3 DEF InHand
    <3>. QED
      BY <1>1, <1>7, <2>1, <3>1 DEF RoleOK, Tokened
  <2>. QED
    BY <1>1, <2>1, <2>2 DEF RoleOK, Numbered, Plain, Alive, Heard, Handled, Hook
<1>8. ASSUME NEW d \in Callers, d # c PROVE JobOK(d)' /\ ~InHand(d)'
  <2>1. JobOK(d) /\ job'[d] = job[d] /\ ~InHand(d)
    BY <1>3, <1>8 DEF SInv, Kept
  <2>. QED
    BY <1>1, <2>1 DEF JobOK, Shape, InHand
<1>9. JobOK(c)'
  <2>1. CASE job'[c] = NoJob
    BY <2>1, Constants DEF JobOK, Shape, InHand, Callers
  <2>2. CASE job'[c].step = "launch"
    <3>1. /\ job[c].kind \notin {"stop", "resume"} /\ job'[c].kind = job[c].kind
          /\ job'[c].role = r /\ file'[r].convo = 0 /\ record[r].id = 0 /\ agent[r] = "off"
      BY <1>5, <2>2, Constants
    <3>2. Shape(c)'
      BY <1>1, <2>2, <3>1 DEF JobOK, Shape
    <3>3. Carries(c, r)'
      BY <1>1, <1>4, <2>2, <3>1 DEF Carries
    <3>. QED
      BY <3>1, <3>2, <3>3 DEF JobOK
  <2>. QED
    BY <1>5, <2>1, <2>2
<1>10. Exclusive'
  BY <1>1, <1>4, <1>8 DEF Exclusive, Callers
<1>. QED
  BY <1>1, <1>6, <1>7, <1>8, <1>9, <1>10 DEF SInv

(* A terminal that is still there is kept; otherwise a new one is the      *)
(* registered one.                                                         *)
Launched(c, r) ==
  /\ Typed' /\ UNCHANGED <<file, hooks, handler, pending, intent>>
  /\ Nobodys /\ \A d \in Callers : d # c => ~InHand(d)
  /\ job[c].step = "launch" /\ r = job[c].role
  /\ agent[r] = "off" /\ agent'[r] = "ready"
  /\ term'[r].id = term[r].id + 1 /\ term'[r].taken = term[r].taken
  /\ term'[r].origin = job[c].kind /\ term'[r].end = "none"
  /\ term'[r].convo > 0 /\ record'[r].convo \in {0, term'[r].convo}
  /\ record'[r].id = term[r].id + 1 /\ record'[r].token /\ ~record'[r].busy
  /\ \/ job[c].kind = "resume" /\ file[r].convo # 0 /\ record'[r].convo = file[r].convo
     \/ job[c].kind # "resume" /\ record'[r].convo = 0
  /\ \A q \in Roles : q # r => agent'[q] = agent[q] /\ term'[q] = term[q] /\ record'[q] = record[q]
  /\ \A d \in Callers : d # c => job'[d] = job[d]
  /\ \/ /\ job[c].kind \in {"planning", "context"} /\ job'[c].step = "note"
        /\ job'[c].kind = job[c].kind /\ job'[c].role = r /\ job'[c].rec = record'[r]
     \/ /\ job[c].kind = "resume" /\ job'[c].step = "store"
        /\ job'[c].kind = job[c].kind /\ job'[c].role = r /\ job'[c].rec = record'[r]
     \/ job[c].kind \notin {"planning", "context", "resume"} /\ job'[c] = NoJob

LEMMA JobIsLaunched ==
  ASSUME SInv, ~Overlaps, NEW c \in Callers, NEW r \in Roles, r = job[c].role, JobLaunches(c)
  PROVE  \/ Launched(c, r)
         \/ Calm /\ pending' = pending /\ job' = [job EXCEPT ![c] = NoJob]
<1>. DEFINE kind == job[c].kind
            resumed == IF kind = "resume" THEN file[r].convo ELSE 0
            live == Live(r, Registered(r))
            id == term[r].id + 1
            new == [id |-> id, convo |-> resumed, token |-> TRUE, busy |-> FALSE]
            rec == IF live THEN Registered(r) ELSE new
            next == [id |-> id, convo |-> IF resumed # 0 THEN resumed ELSE id,
                     taken |-> term[r].taken, origin |-> kind, end |-> "none"]
<1>1. /\ Typed /\ job[c] \in JobT /\ JobOK(c) /\ RoleOK(r) /\ DOMAIN job = Callers
      /\ record[r] \in RecordT /\ file[r] \in FileT /\ term[r] \in TermT /\ agent[r] \in Life
  BY DEF SInv, Typed
<1>2. /\ job[c].step = "launch" /\ Alone /\ NoneReplaces(c) /\ (kind = "resume" => live \/ resumed # 0)
      /\ IF live THEN UNCHANGED <<agent, term, record>>
         ELSE /\ agent' = [agent EXCEPT ![r] = "ready"]
              /\ term' = [term EXCEPT ![r] = next]
              /\ record' = [record EXCEPT ![r] = rec]
      /\ IF kind \in {"planning", "context"} THEN job' = [job EXCEPT ![c].step = "note", ![c].rec = rec]
         ELSE IF kind = "resume" /\ ~live THEN job' = [job EXCEPT ![c].step = "store", ![c].rec = rec]
         ELSE job' = [job EXCEPT ![c] = NoJob]
      /\ UNCHANGED <<input, file, pending, intent, written, route, delivery, hooks, handler,
                     recovering, up, work, events>>
  BY Zenon DEF JobLaunches, At, Done, JobFrame, messageVars, hookVars
<1>3. Nobodys /\ \A d \in Callers : d # c => ~InHand(d)
  BY <1>1, <1>2 DEF Alone, NoneReplaces, Nobodys, InHand
<1>4. live <=> agent[r] # "off"
  <2>1. agent[r] # "off" => record[r].id # 0 /\ record[r].id = term[r].id
    BY <1>1 DEF RoleOK, Alive, Numbered, TermT
  <2>. QED
    BY <1>1, <2>1, RegisteredIs DEF Live
<1>5. ASSUME job' = [job EXCEPT ![c] = NoJob]
      PROVE  /\ job' \in [Callers -> JobT] /\ job'[c] = NoJob
             /\ \A d \in Callers : d # c => job'[d] = job[d]
  BY <1>1, <1>5, Constants DEF Typed
<1>6. CASE live
  <2>1. kind \in {"start", "resume"}
    BY <1>1, <1>2, <1>4, <1>6 DEF JobOK, InHand, Carries
  <2>2. job' = [job EXCEPT ![c] = NoJob]
    BY <1>2, <1>6, <2>1
  <2>3. \A d \in Callers : SameJob(d)
    <3>1. ~InHand(c)' /\ Shape(c)' /\ job'[c].step # "note"
      BY <1>5, <2>2, Constants DEF InHand, Shape
    <3>. QED
      BY <1>2, <1>5, <2>2, <3>1 DEF SameJob
  <2>4. Typed'
    BY <1>1, <1>2, <1>5, <1>6, <2>2 DEF Typed
  <2>. QED
    BY <1>2, <1>6, <2>2, <2>3, <2>4, CalmFrame
<1>7. CASE ~live
  <2>1. /\ kind \in JobKinds /\ resumed \in Nat /\ id \in Nat /\ id = term[r].id + 1 /\ id > 0
         /\ term[r].taken \in SUBSET Nat
    BY <1>1 DEF JobT, FileT, TermT
  <2>2. \/ kind = "resume" /\ file[r].convo # 0 /\ resumed = file[r].convo
        \/ kind # "resume" /\ resumed = 0
    BY <1>2, <1>7
  <2>3. new \in RecordT /\ new.id = id /\ new.convo = resumed /\ new.token = TRUE /\ new.busy = FALSE
    <3>. HIDE DEF resumed, id
    <3>. QED
      BY <2>1 DEF RecordT
  <2>4. /\ next \in TermT /\ next.id = id /\ next.taken = term[r].taken /\ next.origin = kind
        /\ next.end = "none" /\ next.convo > 0 /\ resumed \in {0, next.convo}
    <3>. HIDE DEF resumed, id, kind
    <3>. QED
      BY <2>1 DEF TermT
  <2>5. rec = new
    BY <1>7
  <2>6. /\ agent' = [agent EXCEPT ![r] = "ready"] /\ term' = [term EXCEPT ![r] = next]
        /\ record' = [record EXCEPT ![r] = new]
        /\ \/ kind \in {"planning", "context"} /\ job' = [job EXCEPT ![c].step = "note", ![c].rec = new]
           \/ kind = "resume" /\ job' = [job EXCEPT ![c].step = "store", ![c].rec = new]
           \/ kind \notin {"planning", "context", "resume"} /\ job' = [job EXCEPT ![c] = NoJob]
    BY Zenon, <1>2, <1>7, <2>5
  <2>. HIDE DEF new, next, rec, id, resumed, live
  <2>7. /\ agent' \in [Roles -> Life] /\ agent'[r] = "ready"
        /\ \A q \in Roles : q # r => agent'[q] = agent[q]
    BY <1>1, <2>6 DEF Typed, Life
  <2>8. /\ term' \in [Roles -> TermT] /\ term'[r] = next
        /\ \A q \in Roles : q # r => term'[q] = term[q]
    BY <1>1, <2>4, <2>6 DEF Typed
  <2>9. /\ record' \in [Roles -> RecordT] /\ record'[r] = new
        /\ \A q \in Roles : q # r => record'[q] = record[q]
    BY <1>1, <2>3, <2>6 DEF Typed
  <2>10. ASSUME NEW s \in JobSteps, job' = [job EXCEPT ![c].step = s, ![c].rec = new]
         PROVE  /\ job' \in [Callers -> JobT] /\ job'[c].step = s /\ job'[c].rec = new
                /\ job'[c].kind = job[c].kind /\ job'[c].role = job[c].role
                /\ \A d \in Callers : d # c => job'[d] = job[d]
    BY <1>1, <2>3, <2>10 DEF Typed, JobT
  <2>11. "note" \in JobSteps /\ "store" \in JobSteps
    BY DEF JobSteps
  <2>12. /\ job' \in [Callers -> JobT] /\ \A d \in Callers : d # c => job'[d] = job[d]
         /\ \/ /\ kind \in {"planning", "context"} /\ job'[c].step = "note"
               /\ job'[c].kind = kind /\ job'[c].role = r /\ job'[c].rec = new
            \/ /\ kind = "resume" /\ job'[c].step = "store"
               /\ job'[c].kind = kind /\ job'[c].role = r /\ job'[c].rec = new
            \/ kind \notin {"planning", "context", "resume"} /\ job'[c] = NoJob
    <3>. HIDE DEF kind
    <3>1. ASSUME kind \in {"planning", "context"}, job' = [job EXCEPT ![c].step = "note", ![c].rec = new]
          PROVE  /\ job' \in [Callers -> JobT] /\ \A d \in Callers : d # c => job'[d] = job[d]
                 /\ job'[c].step = "note" /\ job'[c].rec = new
                 /\ job'[c].kind = kind /\ job'[c].role = r
      BY <2>10, <2>11, <3>1 DEF kind
    <3>2. ASSUME kind = "resume", job' = [job EXCEPT ![c].step = "store", ![c].rec = new]
          PROVE  /\ job' \in [Callers -> JobT] /\ \A d \in Callers : d # c => job'[d] = job[d]
                 /\ job'[c].step = "store" /\ job'[c].rec = new
                 /\ job'[c].kind = kind /\ job'[c].role = r
      BY <2>10, <2>11, <3>2 DEF kind
    <3>. QED
      BY <1>5, <2>6, <3>1, <3>2
  <2>13. Typed'
    BY <1>1, <1>2, <2>7, <2>8, <2>9, <2>12 DEF Typed
  <2>14. agent[r] = "off" /\ UNCHANGED <<file, hooks, handler, pending, intent>>
    BY <1>2, <1>4, <1>7
  <2>. QED
    BY <1>2, <1>3, <2>1, <2>2, <2>3, <2>4, <2>7, <2>8, <2>9, <2>12, <2>13, <2>14 DEF Launched
<1>. QED
  BY <1>6, <1>7

LEMMA LaunchedKeeps ==
  ASSUME SInv, NEW c \in Callers, NEW r \in Roles, Launched(c, r)
  PROVE  SInv'
<1>1. /\ Typed /\ Typed' /\ record[r] \in RecordT /\ term[r] \in TermT /\ term[r].id \in Nat
      /\ UNCHANGED <<file, hooks, handler, pending, intent>>
      /\ RoleOK(r) /\ JobOK(c) /\ job[c].step = "launch" /\ r = job[c].role /\ Nobodys
  BY DEF SInv, Launched, Typed, TermT
<1>2. RoleOK(r)'
  <2>1. Numbered(r)'
    <3>1. \A x \in term[r].taken : x \in Nat
      BY <1>1 DEF TermT
    <3>2. file[r].id \in Nat /\ intent[r].replacement \in Nat
      BY <1>1 DEF Typed, FileT, IntentT
    <3>. QED
      BY <1>1, <3>1, <3>2 DEF Launched, RoleOK, Numbered
  <2>2. Plain(r)' /\ Alive(r)' /\ Heard(r)' /\ Tokened(r)'
    BY <1>1 DEF Launched, RoleOK, Plain, Alive, Heard, Tokened
  <2>3. Handled(r)'
    BY <1>1 DEF RoleOK, Handled, Hook, Nobodys
  <2>. QED
    BY <2>1, <2>2, <2>3 DEF RoleOK
<1>3. ASSUME NEW q \in Roles, q # r PROVE RoleOK(q)'
  <2>1. RoleOK(q) /\ record'[q] = record[q] /\ agent'[q] = agent[q] /\ term'[q] = term[q]
    BY <1>3 DEF SInv, Launched
  <2>2. Tokened(q)'
    BY <1>1, <2>1 DEF RoleOK, Tokened, Nobodys
  <2>. QED
    BY <1>1, <2>1, <2>2 DEF RoleOK, Numbered, Plain, Alive, Heard, Handled, Hook
<1>4. ASSUME NEW d \in Callers, d # c PROVE JobOK(d)' /\ ~InHand(d)'
  <2>1. JobOK(d) /\ job'[d] = job[d] /\ ~InHand(d) /\ job[d] \in JobT
    BY <1>4 DEF SInv, Launched, Typed
  <2>2. PICK q \in Roles : q = job[d].role
    BY <2>1 DEF JobT
  <2>3. term[q].id <= term'[q].id /\ term[q].id \in Nat /\ term'[q].id \in Nat
    <3>1. term[q] \in TermT /\ term'[q] \in TermT
      BY <1>1 DEF Typed
    <3>. QED
      BY <1>1, <3>1 DEF Launched, TermT
  <2>4. job[d].rec.id \in Nat
    BY <2>1 DEF JobT, RecordT
  <2>5. Shape(d)'
    BY <2>1, <2>2, <2>3, <2>4 DEF JobOK, Shape
  <2>. QED
    BY <2>1, <2>5 DEF JobOK, InHand
<1>5. JobOK(c)'
  <2>1. Shape(c) /\ Callers = {"planning", "user"}
    BY <1>1 DEF JobOK, Callers
  <2>2. CASE job'[c].step = "note"
    <3>1. /\ job'[c].kind = job[c].kind /\ job[c].kind \in {"planning", "context"}
          /\ job'[c].role = r /\ job'[c].rec.id = term'[r].id
      BY <1>1, <2>2, Constants DEF Launched
    <3>2. term'[r].id \in Nat
      BY <1>1 DEF Launched
    <3>3. Shape(c)'
      BY <1>1, <2>1, <2>2, <3>1, <3>2 DEF Shape
    <3>. QED
      BY <2>2, <3>3 DEF JobOK, InHand
  <2>3. CASE job'[c].step = "store"
    <3>1. /\ job'[c].kind = "resume" /\ job[c].kind = "resume" /\ job'[c].role = r
          /\ job'[c].rec = record'[r] /\ record'[r].token
      BY <1>1, <2>3, Constants DEF Launched
    <3>2. Shape(c)'
      BY <1>1, <2>1, <2>3, <3>1 DEF Shape
    <3>3. Carries(c, r)'
      BY <2>3, <3>1 DEF Carries
    <3>. QED
      BY <3>1, <3>2, <3>3 DEF JobOK
  <2>4. CASE job'[c] = NoJob
    BY <2>1, <2>4, Constants DEF JobOK, Shape, InHand
  <2>. QED
    BY <2>2, <2>3, <2>4 DEF Launched
<1>6. Exclusive'
  BY <1>1, <1>4 DEF Exclusive, Callers, Nobodys
<1>. QED
  BY <1>1, <1>2, <1>3, <1>4, <1>5, <1>6 DEF SInv

-----------------------------------------------------------------------------
(* A crash, and the start.                                                 *)
Crashed ==
  /\ Typed' /\ UNCHANGED <<term, file, pending, intent>>
  /\ \A r \in Roles : /\ agent'[r] = "off" /\ record'[r] = NoRecord
                      /\ hooks'[r] = <<>> /\ handler'[r] = Begin
  /\ \A c \in Callers : job'[c] = NoJob

LEMMA Crashes ==
  ASSUME SInv, Crash
  PROVE  Crashed
<1>1. Typed /\ DOMAIN job = Callers
  BY DEF SInv, Typed
<1>2. /\ agent' = [r \in Roles |-> "off"] /\ input' = [r \in Roles |-> 0]
      /\ record' = [r \in Roles |-> NoRecord] /\ hooks' = [r \in Roles |-> <<>>]
      /\ handler' = [r \in Roles |-> Begin] /\ job' = [c \in Callers |-> NoJob]
      /\ delivery' = 0 /\ recovering' = {} /\ up' = FALSE /\ work' = work /\ events' = events + 1
      /\ UNCHANGED <<term, written, route, file, pending, intent>>
  BY <1>1 DEF Crash, Outside, Nobody, NoInput
<1>3. /\ agent' \in [Roles -> Life] /\ input' \in [Roles -> Nat] /\ record' \in [Roles -> RecordT]
      /\ hooks' \in [Roles -> Seq(HookT)] /\ handler' \in [Roles -> HandlerT]
      /\ job' \in [Callers -> JobT]
  BY <1>2, Constants DEF Life
<1>4. /\ delivery' = 0 /\ recovering' = {} /\ up' = FALSE /\ work' = work /\ events' = events + 1
      /\ UNCHANGED <<term, written, route, file, pending, intent>>
  BY <1>2
<1>5. Typed'
  <2>1. /\ written' \in Nat /\ route' \in Nat /\ delivery' \in Nat /\ work' \in Nat /\ events' \in Nat
        /\ term' \in [Roles -> TermT] /\ file' \in [Roles -> FileT]
        /\ pending' \in PendingT /\ intent' \in [Roles -> IntentT]
    BY <1>1, <1>4 DEF Typed
  <2>2. up' \in BOOLEAN /\ recovering' \subseteq Roles
    BY <1>4
  <2>. QED
    BY <1>3, <2>1, <2>2 DEF Typed
<1>. QED
  BY <1>2, <1>5 DEF Crashed

LEMMA CrashedKeeps ==
  ASSUME SInv, Crashed
  PROVE  SInv'
<1>1. Typed /\ Typed'
  BY DEF SInv, Crashed
<1>2. ASSUME NEW r \in Roles PROVE RoleOK(r)'
  <2>1. /\ RoleOK(r) /\ term[r] \in TermT
        /\ agent'[r] = "off" /\ record'[r] = NoRecord /\ hooks'[r] = <<>> /\ handler'[r] = Begin
        /\ UNCHANGED <<term, file, intent>>
    BY <1>1 DEF SInv, Crashed, Typed
  <2>2. record'[r].id <= term[r].id
    BY <2>1, Constants DEF TermT
  <2>. QED
    BY <2>1, <2>2, Constants DEF RoleOK, Numbered, Plain, Alive, Heard, Tokened, Handled
<1>3. ASSUME NEW c \in Callers PROVE JobOK(c)' /\ ~InHand(c)'
  BY <1>3, Constants DEF Crashed, JobOK, Shape, InHand
<1>4. Exclusive'
  BY <1>3, Constants DEF Exclusive, Crashed, Callers
<1>. QED
  BY <1>1, <1>2, <1>3, <1>4 DEF SInv

LEMMA StartsConsistent ==
  Init => SInv
<1>. SUFFICES ASSUME Init PROVE SInv
  OBVIOUS
<1>. DEFINE T == [id |-> 1, convo |-> 1, taken |-> {}, origin |-> "start", end |-> "none"]
            R == [id |-> 1, convo |-> 0, token |-> TRUE, busy |-> FALSE]
<1>1. /\ agent = [r \in Roles |-> "ready"] /\ input = [r \in Roles |-> 0] /\ term = [r \in Roles |-> T]
      /\ written = 0 /\ route = 0 /\ delivery = 0
      /\ record = [r \in Roles |-> R] /\ file = [r \in Roles |-> NotStored]
      /\ hooks = [r \in Roles |-> <<>>] /\ handler = [r \in Roles |-> Begin]
      /\ job = [c \in Callers |-> NoJob]
      /\ pending = NoPending /\ intent = [r \in Roles |-> NoIntent] /\ recovering = {}
      /\ up = TRUE /\ work = 0 /\ events = 0
  BY DEF Init, Nobody, NoInput, Callers
<1>2. /\ T \in TermT /\ T.id = 1 /\ T.taken = {} /\ R \in RecordT /\ R.id = 1 /\ R.convo = 0 /\ R.token
  BY DEF TermT, RecordT, JobKinds
<1>. HIDE DEF T, R
<1>3. /\ agent \in [Roles -> Life] /\ input \in [Roles -> Nat] /\ term \in [Roles -> TermT]
      /\ record \in [Roles -> RecordT] /\ file \in [Roles -> FileT]
      /\ hooks \in [Roles -> Seq(HookT)] /\ handler \in [Roles -> HandlerT]
      /\ job \in [Callers -> JobT] /\ intent \in [Roles -> IntentT]
  BY <1>1, <1>2, Constants DEF Life
<1>4. Typed
  BY <1>1, <1>3, Constants DEF Typed
<1>5. ASSUME NEW r \in Roles PROVE RoleOK(r)
  BY <1>1, <1>2, Constants DEF RoleOK, Numbered, Plain, Alive, Heard, Tokened, Handled
<1>6. ASSUME NEW c \in Callers PROVE JobOK(c) /\ ~InHand(c)
  BY <1>1, Constants DEF JobOK, Shape, InHand
<1>7. Exclusive
  BY <1>1, <1>6, Constants DEF Exclusive, Callers
<1>. QED
  BY <1>4, <1>5, <1>6, <1>7 DEF SInv

-----------------------------------------------------------------------------
(* Every step is one of these, and keeps what SInv says.                   *)
Moved == \/ Calm \/ Crashed
         \/ \E r \in Roles : Recorded(r) \/ Filed(r)
         \/ \E r \in Roles, kind \in {"prompt", "stop", "failure"} : Speaks(r, kind)
         \/ \E c \in Callers, r \in Roles :
              Stopped(c, r) \/ Exited(c, r) \/ Kept(c, r) \/ Launched(c, r)

LEMMA RolesMove ==
  ASSUME SInv, ~Overlaps, NEW r \in Roles,
         AgentStep(r) \/ UserStep(r) \/ HookStep(r) \/ RecoverContext(r)
  PROVE  Moved
<1>2. CASE AgentStep(r)
  <2>1. CASE AgentAccepts(r)
    BY <2>1, AcceptSpeaks DEF SInv, Moved
  <2>2. CASE AgentStops(r)
    <3>1. AgentEnds(r, "stop") /\ UNCHANGED work /\ events' = events
      BY <2>2 DEF AgentStops
    <3>. QED
      BY <3>1, EndSpeaks DEF SInv, Moved
  <2>. QED
    BY <1>2, <2>1, <2>2 DEF AgentStep
<1>3. CASE UserStep(r)
  BY <1>3, CalmPrompts, CalmExit, CalmRequest DEF UserStep, Moved
<1>4. CASE HookStep(r)
  <2>1. CASE HookRecords(r)
    <3>1. CASE Matches(Registered(r), Hook(r))
      BY <2>1, <3>1, Recognized DEF Recognizes, Moved
    <3>2. CASE ~Matches(Registered(r), Hook(r))
      BY <2>1, <3>2, CalmEnds DEF Declines, Moved
    <3>. QED
      BY <3>1, <3>2
  <2>2. CASE HookStores(r)
    BY <2>2, StoreFiles DEF Moved
  <2>3. CASE HookConfirmsContext(r) \/ HookDispatches(r) \/ HookEnds(r)
    BY <2>3, CalmContextHook, CalmDispatch, CalmEnds DEF Moved
  <2>. QED
    BY <1>4, <2>1, <2>2, <2>3 DEF HookStep
<1>5. CASE RecoverContext(r)
  BY <1>5, CalmRecovery DEF Moved
<1>. QED
  BY <1>2, <1>3, <1>4, <1>5

LEMMA JobsMove ==
  ASSUME SInv, ~Overlaps, NEW c \in Callers, JobStep(c)
  PROVE  Moved
<1>1. job[c].role \in Roles
  BY DEF SInv, Typed, JobT
<1>2. PICK r \in Roles : r = job[c].role
  BY <1>1
<1>3. CASE JobStops(c)
  BY <1>2, <1>3, JobIsStopped DEF Moved
<1>4. CASE JobExits(c)
  BY <1>2, <1>4, JobIsExited DEF Moved
<1>5. CASE JobStores(c)
  BY <1>2, <1>5, JobIsKept DEF Moved
<1>6. CASE JobLaunches(c)
  BY <1>2, <1>6, JobIsLaunched DEF Moved
<1>7. CASE JobFails(c)
  BY <1>7, CalmFailure DEF Moved
<1>. QED
  BY <1>3, <1>4, <1>5, <1>6, <1>7 DEF JobStep

LEMMA Steps ==
  ASSUME SInv, ~Overlaps, [Next]_vars
  PROVE  Moved
<1>1. CASE UNCHANGED vars
  <2>1. /\ UNCHANGED <<agent, term, input, written, route, delivery, record, file, hooks, handler, job,
                       pending, intent, recovering, up, work, events>>
    BY <1>1 DEF vars, agentVars, messageVars, sessionVars, hookVars, restartVars
  <2>2. Typed'
    BY <2>1 DEF SInv, Typed
  <2>. QED
    BY <2>1, <2>2, CalmFrame DEF SameJob, Moved
<1>2. ASSUME NEW r \in Roles, AgentStep(r) \/ UserStep(r) \/ HookStep(r) \/ RecoverContext(r)
      PROVE  Moved
  BY <1>2, RolesMove
<1>3. CASE AgentFails
  <2>1. AgentEnds(Arch, "failure") /\ UNCHANGED work /\ events' = events + 1 /\ Arch \in Roles
    BY <1>3, Constants DEF AgentFails, Outside
  <2>. QED
    BY <2>1, EndSpeaks DEF SInv, Moved
<1>4. CASE AgentRoutes \/ UserInterrupts \/ Schedule
  BY <1>4, Constants, CalmPrompts, CalmInterrupt, CalmSchedule DEF Moved
<1>5. CASE \/ \E accepted \in BOOLEAN : GateDecides(accepted)
           \/ HookConfirmsPlanning \/ HookAccepts \/ HookTellsStop \/ DeliveryIsTold \/ SettleDispatches
  BY <1>5, CalmEvents, CalmConfirms, CalmSettle DEF Moved
<1>6. ASSUME NEW c \in Callers, JobStep(c) PROVE Moved
  BY <1>6, JobsMove
<1>7. CASE PlanningChecks \/ PlanningNotes \/ ContextNotes \/ ContextSubmits
  BY <1>7, CalmPlanning, CalmContext DEF Moved
<1>8. CASE Crash \/ Recover \/ Reconnect
  BY <1>8, Crashes, CalmConnect DEF Moved
<1>. QED
  BY <1>1, <1>2, <1>3, <1>4, <1>5, <1>6, <1>7, <1>8 DEF Next, Callers

LEMMA SessionsStay ==
  ASSUME SInv, Moved
  PROVE  SInv'
BY Undisturbed, CrashedKeeps, RecordedKeeps, FiledKeeps, SpeaksKeeps, StoppedKeeps, ExitedKeeps,
   KeptKeeps, LaunchedKeeps DEF Moved

\* What session-service knows of a role is consistent, whatever hooks, jobs,
\* exits and crashes interleave: a running process is the registered one and
\* its record has the token of its terminal, a hook request comes from a
\* terminal that took a prompt, the record a handler stores is the one in the
\* registry, and one update of a session is under way at a time.
THEOREM SessionsAreConsistent == ASSUME ~Overlaps PROVE Spec => []SInv
<1>1. SInv /\ [Next]_vars => SInv'
  BY Steps, SessionsStay
<1>. QED
  BY <1>1, StartsConsistent, PTL DEF Spec

-----------------------------------------------------------------------------
(* A terminal with a conversation has taken a prompt.                      *)
Said(r, x) ==
  x # 0 => \/ x \in term[r].taken
           \/ /\ record[r].id = x => record[r].convo = 0
              /\ file[r].id = x => file[r].convo = 0

LEMMA SaidStays ==
  ASSUME SInv, Moved, NEW r \in Roles, NEW x \in Nat, x <= term[r].id, Said(r, x)
  PROVE  Said(r, x)'
<1>1. /\ Typed /\ RoleOK(r) /\ record[r] \in RecordT /\ file[r] \in FileT /\ term[r] \in TermT
      /\ term[r].id \in Nat
  BY DEF SInv, Typed, TermT
<1>2. CASE Calm
  BY <1>2 DEF Calm, SameSession, Said
<1>3. CASE Crashed
  BY <1>3, Constants DEF Crashed, Said
<1>4. ASSUME NEW q \in Roles, Recorded(q) PROVE Said(r, x)'
  <2>1. CASE q # r
    BY <1>4, <2>1 DEF Recorded, Said
  <2>2. CASE q = r
    <3>1. Hook(r).id \in term[r].taken
      BY <1>1, <1>4, <2>2, HookIs DEF Recorded, RoleOK, Heard
    <3>. QED
      BY <1>4, <2>2, <3>1 DEF Recorded, Said
  <2>. QED
    BY <2>1, <2>2
<1>5. ASSUME NEW q \in Roles, Filed(q) PROVE Said(r, x)'
  BY <1>5 DEF Filed, Said
<1>6. ASSUME NEW q \in Roles, NEW kind \in {"prompt", "stop", "failure"}, Speaks(q, kind)
      PROVE  Said(r, x)'
  BY <1>6 DEF Speaks, Said
<1>7. ASSUME NEW c \in Callers, NEW q \in Roles, Stopped(c, q) PROVE Said(r, x)'
  BY <1>7, Constants DEF Stopped, Said
<1>8. ASSUME NEW c \in Callers, NEW q \in Roles, Exited(c, q) PROVE Said(r, x)'
  <2>1. CASE q # r
    BY <1>8, <2>1 DEF Exited, Said
  <2>2. CASE q = r
    <3>1. job[c].step = "exited" /\ job[c].role = r /\ record'[r] = job[c].rec
      BY <1>8, <2>2 DEF Exited
    <3>2. Carries(c, job[c].role)
      BY <3>1 DEF SInv, JobOK, InHand
    <3>3. /\ record'[r].id = Registered(r).id /\ record'[r].convo = Registered(r).convo
      BY <3>1, <3>2 DEF Carries
    <3>. QED
      BY <1>1, <1>8, <3>3, RegisteredIs DEF Exited, Said
  <2>. QED
    BY <2>1, <2>2
<1>9. ASSUME NEW c \in Callers, NEW q \in Roles, Kept(c, q) PROVE Said(r, x)'
  BY <1>9 DEF Kept, Said
<1>10. ASSUME NEW c \in Callers, NEW q \in Roles, Launched(c, q) PROVE Said(r, x)'
  BY <1>1, <1>10 DEF Launched, Said
<1>. QED
  BY <1>2, <1>3, <1>4, <1>5, <1>6, <1>7, <1>8, <1>9, <1>10 DEF Moved

(* The replacement that a restart with context waits for, or is about to   *)
(* write down.                                                             *)
Remembered ==
  /\ \A r \in Roles : Said(r, intent[r].replacement)
  /\ \A r \in Roles : job["user"].step = "note" /\ job["user"].role = r =>
       Said(r, job["user"].rec.id)

LEMMA NotedStays ==
  ASSUME SInv, Moved, Remembered, NEW r \in Roles, job'["user"].step = "note", job'["user"].role = r
  PROVE  Said(r, job["user"].rec.id)'
<1>. DEFINE j == job["user"]
<1>1. /\ Typed /\ j \in JobT /\ "user" \in Callers /\ JobOK("user") /\ RoleOK(r)
      /\ term[r] \in TermT /\ file[r] \in FileT
  BY DEF SInv, Typed, Callers
<1>2. CASE job'["user"] = j
  <2>1. PICK x \in Nat : x = j.rec.id
    BY <1>1 DEF JobT, RecordT
  <2>2. x <= term[r].id /\ Said(r, x)
    BY <1>1, <1>2, <2>1 DEF JobOK, Shape, Remembered
  <2>3. Said(r, x)'
    BY <2>2, SaidStays
  <2>. QED
    BY <1>2, <2>1, <2>3 DEF Said
<1>3. CASE job'["user"] # j
  <2>1. ~Calm /\ ~Crashed
    BY <1>1, <1>3, Constants DEF Calm, SameJob, Crashed
  <2>2. PICK c \in Callers, q \in Roles : Stopped(c, q) \/ Exited(c, q) \/ Kept(c, q) \/ Launched(c, q)
    BY <1>3, <2>1 DEF Moved, Recorded, Filed, Speaks
  <2>3. c = "user" /\ Launched(c, q)
    BY <1>3, <2>2, Constants DEF Stopped, Exited, Kept, Launched, Callers
  <2>4. /\ q = r /\ job'["user"].rec = record'[r] /\ record'[r].convo = 0
        /\ record'[r].id = term[r].id + 1 /\ file' = file
    BY <2>3, Constants DEF Launched
  <2>5. file[r].id # term[r].id + 1
    BY <1>1 DEF RoleOK, Numbered, TermT, FileT
  <2>. QED
    BY <2>4, <2>5 DEF Said
<1>. QED
  BY <1>2, <1>3

LEMMA IntentsStay ==
  ASSUME SInv, Moved, Remembered
  PROVE  Remembered'
<1>1. ASSUME NEW r \in Roles PROVE Said(r, intent[r].replacement)'
  <2>1. /\ Typed /\ intent[r] \in IntentT /\ RoleOK(r) /\ Shape("user") /\ job["user"] \in JobT
    BY DEF SInv, Typed, JobOK, Callers
  <2>2. SameIntent(r)
    <3>1. CASE Calm
      BY <3>1 DEF Calm
    <3>2. CASE intent' = intent
      BY <3>2 DEF SameIntent
    <3>3. \A q \in Roles : Recorded(q) \/ Filed(q) => intent' = intent
      BY DEF Recorded, Filed
    <3>4. \A q \in Roles, kind \in {"prompt", "stop", "failure"} : Speaks(q, kind) => intent' = intent
      BY DEF Speaks
    <3>5. \A c \in Callers, q \in Roles :
            Stopped(c, q) \/ Exited(c, q) \/ Kept(c, q) \/ Launched(c, q) => intent' = intent
      BY DEF Stopped, Exited, Kept, Launched
    <3>. QED
      BY <3>1, <3>2, <3>3, <3>4, <3>5 DEF Moved, Crashed
  <2>3. CASE intent'[r].replacement = 0
    BY <2>3 DEF Said
  <2>4. ASSUME NEW x \in Nat, x <= term[r].id, Said(r, x), intent'[r].replacement = x
        PROVE  Said(r, intent[r].replacement)'
    <3>1. Said(r, x)'
      BY <2>4, SaidStays
    <3>. QED
      BY <2>4, <3>1 DEF Said
  <2>5. CASE intent'[r].replacement = intent[r].replacement
    <3>1. intent[r].replacement \in Nat /\ intent[r].replacement <= term[r].id
      BY <2>1 DEF IntentT, RoleOK, Numbered
    <3>. QED
      BY <2>4, <2>5, <3>1 DEF Remembered
  <2>6. CASE /\ job["user"].step = "note" /\ job["user"].role = r
             /\ intent'[r].replacement = job["user"].rec.id
    <3>1. job["user"].rec.id \in Nat /\ job["user"].rec.id <= term[r].id
      BY <2>1, <2>6 DEF JobT, RecordT, Shape
    <3>. QED
      BY <2>4, <2>6, <3>1 DEF Remembered
  <2>. QED
    BY <2>2, <2>3, <2>5, <2>6 DEF SameIntent
<1>. QED
  BY <1>1, NotedStays DEF Remembered

LEMMA StartsRemembered ==
  Init => Remembered
<1>. SUFFICES ASSUME Init PROVE Remembered
  OBVIOUS
<1>1. /\ job = [c \in {"planning", "user"} |-> NoJob] /\ intent = [r \in Roles |-> NoIntent]
  BY DEF Init, Nobody
<1>. QED
  BY <1>1, Constants DEF Remembered, Said

(* The steps that take a restart with context off the record.              *)
Dropped(r) ==
  \/ intent[r].replacement \in term[r].taken
  \/ job["user"] = NoJob /\ job'["user"].role = r /\ job'["user"] # NoJob
DropsRightly == \A r \in Roles :
  intent[r].status # "none" /\ intent'[r].status = "none" => Dropped(r)

LEMMA RequestDrops ==
  ASSUME SInv, NEW r \in Roles,
         \/ UserStarts(r) \/ UserResumes(r) \/ UserStops(r) \/ UserRestarts(r)
         \/ UserRestartsWithContext(r)
  PROVE  DropsRightly
<1>. DEFINE j(step, kind) == [NoJob EXCEPT !.step = step, !.kind = kind, !.role = r]
<1>1. PICK step \in {"stop", "launch"}, kind \in {"start", "resume", "stop", "restart", "context"} :
        Requests(r, kind, step)
  BY DEF UserStarts, UserResumes, UserStops, UserRestarts, UserRestartsWithContext
<1>2. /\ job["user"] = NoJob /\ job' = [job EXCEPT !["user"] = j(step, kind)]
      /\ job \in [Callers -> JobT] /\ intent \in [Roles -> IntentT]
  BY <1>1 DEF Requests, SInv, Typed
<1>3. step \in JobSteps /\ kind \in JobKinds
  BY DEF JobSteps, JobKinds
<1>4. j(step, kind).step = step /\ j(step, kind).role = r
  BY <1>3, Constants DEF JobT
<1>. HIDE DEF j
<1>5. job'["user"].step = step /\ job'["user"].role = r
  BY <1>2, <1>4 DEF Callers
<1>6. job'["user"] # NoJob
  BY <1>5, Constants
<1>7. \A q \in Roles : q # r => intent'[q] = intent[q]
  BY <1>2 DEF UserStarts, UserResumes, UserStops, UserRestarts, UserRestartsWithContext, GivesUp
<1>. QED
  BY <1>2, <1>5, <1>6, <1>7 DEF DropsRightly, Dropped

LEMMA HookDrops ==
  ASSUME SInv, NEW r \in Roles, HookConfirmsContext(r)
  PROVE  DropsRightly
<1>1. /\ Typed /\ intent \in [Roles -> IntentT] /\ intent[r] \in IntentT /\ RoleOK(r)
      /\ hooks[r] # <<>> /\ handler[r].step = "context"
  BY DEF SInv, Typed, HookConfirmsContext, HookAt
<1>2. \/ UNCHANGED intent
      \/ /\ intent' = [intent EXCEPT ![r] = NoIntent]
         /\ intent[r] = [status |-> "awaiting", replacement |-> handler[r].rec.id]
  BY DEF HookConfirmsContext
<1>3. CASE UNCHANGED intent
  BY <1>3 DEF DropsRightly
<1>4. CASE /\ intent' = [intent EXCEPT ![r] = NoIntent]
           /\ intent[r] = [status |-> "awaiting", replacement |-> handler[r].rec.id]
  <2>1. intent[r].replacement = Hook(r).id
    BY <1>1, <1>4 DEF RoleOK, Handled
  <2>2. Hook(r).id \in term[r].taken
    BY <1>1, HookIs DEF RoleOK, Heard
  <2>3. \A q \in Roles : q # r => intent'[q] = intent[q]
    BY <1>1, <1>4
  <2>. QED
    BY <2>1, <2>2, <2>3 DEF DropsRightly, Dropped
<1>. QED
  BY <1>2, <1>3, <1>4

LEMMA RecoveryDrops ==
  ASSUME SInv, Remembered, NEW r \in Roles, RecoverContext(r)
  PROVE  DropsRightly
<1>. DEFINE rec == Registered(r)
            x == intent[r].replacement
<1>1. /\ Typed /\ intent \in [Roles -> IntentT] /\ intent[r] \in IntentT
      /\ record[r] \in RecordT /\ file[r] \in FileT
  BY DEF SInv, Typed
<1>2. \/ UNCHANGED intent
      \/ intent' = [intent EXCEPT ![r] = NoIntent] /\ x # 0 /\ rec.id = x /\ rec.convo # 0
      \/ intent' = [intent EXCEPT ![r].status = "launching"]
  BY DEF RecoverContext, Launching
<1>3. CASE UNCHANGED intent
  BY <1>3 DEF DropsRightly
<1>4. CASE intent' = [intent EXCEPT ![r] = NoIntent] /\ x # 0 /\ rec.id = x /\ rec.convo # 0
  <2>1. x \in term[r].taken
    BY <1>1, <1>4, RegisteredIs DEF Remembered, Said
  <2>2. \A q \in Roles : q # r => intent'[q] = intent[q]
    BY <1>1, <1>4
  <2>. QED
    BY <2>1, <2>2 DEF DropsRightly, Dropped
<1>5. CASE intent' = [intent EXCEPT ![r].status = "launching"]
  <2>1. intent'[r].status = "launching" /\ \A q \in Roles : q # r => intent'[q] = intent[q]
    BY <1>1, <1>5 DEF IntentT
  <2>. QED
    BY <2>1 DEF DropsRightly
<1>. QED
  BY <1>2, <1>3, <1>4, <1>5

LEMMA JobDrops ==
  ASSUME SInv, \/ ContextNotes \/ ContextSubmits
               \/ \E c \in Callers : JobStep(c)
  PROVE  DropsRightly
<1>1. intent \in [Roles -> IntentT] /\ "user" \in Callers /\ \A c \in Callers : job[c].role \in Roles
  BY DEF SInv, Typed, JobT, Callers
<1>2. \/ UNCHANGED intent
      \/ \E c \in Callers, n \in {job["user"].rec.id} :
           intent' = [intent EXCEPT ![job[c].role] = [status |-> "awaiting", replacement |-> n]]
      \/ \E c \in Callers : intent' = [intent EXCEPT ![job[c].role].status = "blocked"]
  BY <1>1 DEF ContextNotes, ContextSubmits, JobStep, JobStops, JobExits, JobStores, Stores, JobLaunches, JobFails
<1>3. CASE UNCHANGED intent
  BY <1>3 DEF DropsRightly
<1>4. ASSUME NEW c \in Callers, NEW n \in {job["user"].rec.id},
             intent' = [intent EXCEPT ![job[c].role] = [status |-> "awaiting", replacement |-> n]]
      PROVE  DropsRightly
  BY <1>1, <1>4 DEF DropsRightly
<1>5. ASSUME NEW c \in Callers, intent' = [intent EXCEPT ![job[c].role].status = "blocked"]
      PROVE  DropsRightly
  <2>1. PICK r \in Roles : r = job[c].role
    BY <1>1
  <2>2. intent[r] \in IntentT /\ intent' = [intent EXCEPT ![r].status = "blocked"]
    BY <1>1, <1>5, <2>1
  <2>3. intent'[r].status = "blocked" /\ \A q \in Roles : q # r => intent'[q] = intent[q]
    BY <1>1, <2>2 DEF IntentT
  <2>. QED
    BY <2>3 DEF DropsRightly
<1>. QED
  BY <1>2, <1>3, <1>4, <1>5

LEMMA IntentsDrop ==
  ASSUME SInv, Remembered, [Next]_vars
  PROVE  DropsRightly
<1>1. CASE UNCHANGED intent
  BY <1>1 DEF DropsRightly
<1>2. ASSUME NEW r \in Roles, AgentStep(r) \/ UserStep(r) \/ HookStep(r) \/ RecoverContext(r)
      PROVE  DropsRightly
  <2>1. CASE \/ UserStarts(r) \/ UserResumes(r) \/ UserStops(r) \/ UserRestarts(r)
             \/ UserRestartsWithContext(r)
    BY <2>1, RequestDrops
  <2>2. CASE HookConfirmsContext(r)
    BY <2>2, HookDrops
  <2>3. CASE RecoverContext(r)
    BY <2>3, RecoveryDrops
  <2>4. CASE \/ AgentStep(r) \/ UserPrompts(r) \/ ProcessExits(r) \/ HookRecords(r) \/ HookStores(r)
             \/ HookDispatches(r) \/ HookEnds(r)
    <3>1. UNCHANGED intent
      BY <2>4 DEF AgentStep, AgentAccepts, AgentStops, AgentEnds, UserPrompts, ProcessExits, HookRecords,
                  HookStores, HookDispatches, HookEnds, restartVars
    <3>. QED
      BY <1>1, <3>1
  <2>. QED
    BY <1>2, <2>1, <2>2, <2>3, <2>4 DEF UserStep, HookStep
<1>3. CASE \/ AgentFails \/ AgentRoutes \/ UserInterrupts \/ Schedule
           \/ \E accepted \in BOOLEAN : GateDecides(accepted)
           \/ HookConfirmsPlanning \/ HookAccepts \/ HookTellsStop \/ DeliveryIsTold \/ SettleDispatches
           \/ PlanningChecks \/ PlanningNotes \/ Crash \/ Recover \/ Reconnect \/ UNCHANGED vars
  <2>1. UNCHANGED intent
    BY <1>3 DEF AgentFails, AgentEnds, AgentRoutes, UserInterrupts, Schedule, GateDecides,
                HookConfirmsPlanning, HookAccepts, HookTellsStop, DeliveryIsTold, SettleDispatches,
                PlanningChecks, PlanningNotes, Crash, Recover, Reconnect, Connect, restartVars, vars
  <2>. QED
    BY <1>1, <2>1
<1>4. CASE ContextNotes \/ ContextSubmits \/ \E c \in Callers : JobStep(c)
  BY <1>4, JobDrops
<1>. QED
  BY <1>2, <1>3, <1>4 DEF Next, Callers

\* The intent of a restart with context outlives crashes, recoveries and
\* reconnects: it is taken off the record only when its replacement has taken
\* a prompt, or by another request of the user.
THEOREM IntentsSurvive == ASSUME ~Overlaps PROVE Spec => IntentSurvives
<1>1. Init => SInv /\ Remembered
  BY StartsConsistent, StartsRemembered
<1>2. SInv /\ Remembered /\ [Next]_vars => (SInv /\ Remembered)'
  BY Steps, SessionsStay, IntentsStay
<1>3. SInv /\ Remembered /\ [Next]_vars =>
        [\A r \in Roles :
           intent[r].status # "none" /\ intent'[r].status = "none"
             => \/ intent[r].replacement \in term[r].taken
                \/ job["user"] = NoJob /\ job'["user"].role = r /\ job'["user"] # NoJob]_intent
  BY IntentsDrop DEF DropsRightly, Dropped
<1>. QED
  BY <1>1, <1>2, <1>3, PTL DEF Spec, IntentSurvives

-----------------------------------------------------------------------------
(* What a step does about the restart after planning: nothing, or its job  *)
(* goes on or gives up, or it is confirmed, tried, scheduled or carried    *)
(* out again.                                                              *)
Planned == /\ job["planning"].step # "none" => pending.status = "executing"
           /\ job["planning"].step = "none" => job["planning"] = NoJob
Idle   == UNCHANGED <<agent, term, record>>
GoesAhead == /\ job["planning"].step # "none" /\ pending'.status = pending.status
             /\ job'["planning"].step # "none" \/ job'["planning"] = NoJob
Fails     == /\ job["planning"].step # "none" /\ pending'.status = "blocked"
             /\ job'["planning"] = NoJob
Confirmed == PlanningFree /\ UNCHANGED job /\ pending' = NoPending /\ Registered(Arch).convo # 0
Plans ==
  \/ pending' = pending /\ job'["planning"] \in {job["planning"], NoJob}
  \/ GoesAhead \/ Fails \/ Confirmed
  \/ PlanningFree /\ PlanningBegins
  \/ /\ PlanningFree /\ Idle
     /\ pending.status = "pending" \/ agent[Arch] = "working"
     /\ \E p \in PendingT : p.status = "pending" /\ Tried(p)
  \/ PlanningFree /\ Idle /\ UNCHANGED job /\ agent[Arch] = "working"

LEMMA ToldPlans ==
  ASSUME SInv, Idle, NEW p \in PendingT, p.status = pending.status, Tell(p)
  PROVE  Plans
<1>1. /\ PlanningFree
      /\ \/ pending.status = "pending" /\ Tried(p)
         \/ pending.status # "pending" /\ UNCHANGED <<pending, job>>
  BY Tells DEF SInv
<1>. QED
  BY <1>1 DEF Plans

LEMMA EventPlans ==
  ASSUME SInv, \/ \E accepted \in BOOLEAN : GateDecides(accepted)
               \/ DeliveryIsTold \/ HookAccepts \/ HookTellsStop
  PROVE  Plans
<1>1. Typed /\ pending \in PendingT /\ delivery \in Nat /\ Arch \in Roles /\ PM \in Roles
  BY Constants DEF SInv, Typed
<1>2. Idle
  BY DEF GateDecides, DeliveryIsTold, HookAccepts, HookTellsStop, Idle, agentVars, sessionVars
<1>3. CASE \E accepted \in BOOLEAN : GateDecides(accepted)
  <2>1. PICK accepted \in BOOLEAN : Tell([pending EXCEPT !.gate = accepted])
    BY <1>3 DEF GateDecides
  <2>2. /\ [pending EXCEPT !.gate = accepted] \in PendingT
        /\ [pending EXCEPT !.gate = accepted].status = pending.status
    BY <1>1, PendingUpdates
  <2>. QED
    BY <1>2, <2>1, <2>2, ToldPlans
<1>4. CASE DeliveryIsTold
  <2>1. Tell([pending EXCEPT !.delivered = delivery])
    BY <1>4 DEF DeliveryIsTold
  <2>2. /\ [pending EXCEPT !.delivered = delivery] \in PendingT
        /\ [pending EXCEPT !.delivered = delivery].status = pending.status
    BY <1>1, PendingUpdates
  <2>. QED
    BY <1>2, <2>1, <2>2, ToldPlans
<1>5. CASE HookAccepts
  <2>1. hooks[PM] # <<>> /\ Tell([pending EXCEPT !.accepted = Hook(PM).message])
    BY <1>5 DEF HookAccepts, HookAt
  <2>2. Hook(PM).message \in Nat
    BY <1>1, <2>1, HookIs DEF HookT
  <2>3. /\ [pending EXCEPT !.accepted = Hook(PM).message] \in PendingT
        /\ [pending EXCEPT !.accepted = Hook(PM).message].status = pending.status
    BY <1>1, <2>2, PendingUpdates
  <2>. QED
    BY <1>2, <2>1, <2>3, ToldPlans
<1>6. CASE HookTellsStop
  <2>. DEFINE rec == Registered(Arch)
              p == [pending EXCEPT !.stopped = TRUE, !.source = rec.id]
  <2>1. Tell(p) \/ UNCHANGED <<pending, job>>
    BY Zenon, <1>6 DEF HookTellsStop
  <2>2. rec.id \in Nat
    BY <1>1, RegisteredIs DEF RecordT
  <2>. HIDE DEF rec
  <2>3. p \in PendingT /\ p.status = pending.status
    BY <1>1, <2>2, PendingUpdates
  <2>. HIDE DEF p
  <2>4. CASE Tell(p)
    BY <1>2, <2>3, <2>4, ToldPlans
  <2>5. CASE UNCHANGED <<pending, job>>
    BY <2>5 DEF Plans
  <2>. QED
    BY <2>1, <2>4, <2>5
<1>. QED
  BY <1>3, <1>4, <1>5, <1>6

LEMMA SchedulePlans ==
  ASSUME SInv, Schedule \/ HookConfirmsPlanning \/ Recover \/ Reconnect
  PROVE  Plans
<1>1. Typed /\ pending \in PendingT
  BY DEF SInv, Typed
<1>2. CASE Schedule
  <2>1. Idle
    BY <1>2 DEF Schedule, Idle, agentVars, sessionVars
  <2>. QED
    BY <1>2, <2>1, Schedules DEF Plans
<1>3. CASE HookConfirmsPlanning
  <2>1. /\ PlanningFree /\ UNCHANGED job
        /\ pending' = pending \/ (pending' = NoPending /\ Registered(Arch).convo # 0)
    BY <1>3 DEF HookConfirmsPlanning
  <2>. QED
    BY <2>1 DEF Plans, Confirmed
<1>4. CASE Recover \/ Reconnect
  <2>1. Connect
    BY <1>4 DEF Recover, Reconnect
  <2>2. Idle
    BY <2>1 DEF Connect, Idle, agentVars, sessionVars
  <2>. QED
    BY <1>1, <2>1, <2>2, Recovers DEF Plans, Confirmed, IsConfirmed
<1>. QED
  BY <1>2, <1>3, <1>4

LEMMA PlanningPlans ==
  ASSUME SInv, PlanningChecks \/ PlanningNotes
  PROVE  Plans
<1>. DEFINE j == job["planning"]
<1>1. /\ pending \in PendingT /\ j \in JobT /\ job \in [Callers -> JobT] /\ "planning" \in Callers
  BY DEF SInv, Typed, Callers
<1>2. j.rec.id \in Nat
  BY <1>1 DEF JobT, RecordT
<1>3. /\ [pending EXCEPT !.status = "blocked"].status = "blocked"
      /\ [pending EXCEPT !.replacement = j.rec.id].status = pending.status
  <2>. HIDE DEF j
  <2>. QED
    BY <1>1, <1>2, PendingUpdates
<1>4. CASE PlanningChecks
  <2>1. /\ j.step = "check"
        /\ \/ job' = [job EXCEPT !["planning"].step = "stop"] /\ pending' = pending
           \/ job' = [job EXCEPT !["planning"] = NoJob] /\ pending'.status = "blocked"
    BY <1>3, <1>4 DEF PlanningChecks
  <2>2. job' = [job EXCEPT !["planning"].step = "stop"] => job'["planning"].step = "stop"
    BY <1>1 DEF JobT
  <2>3. job' = [job EXCEPT !["planning"] = NoJob] => job'["planning"] = NoJob
    BY <1>1
  <2>. QED
    BY <2>1, <2>2, <2>3 DEF Plans, GoesAhead, Fails
<1>5. CASE PlanningNotes
  <2>1. /\ j.step = "note" /\ job' = [job EXCEPT !["planning"] = NoJob]
        /\ pending'.status = pending.status
    BY <1>3, <1>5 DEF PlanningNotes
  <2>2. job'["planning"] = NoJob
    BY <1>1, <2>1
  <2>. QED
    BY <2>1, <2>2 DEF Plans, GoesAhead
<1>. QED
  BY <1>4, <1>5

LEMMA JobPlans ==
  ASSUME SInv, ~Overlaps, NEW c \in Callers, JobStep(c)
  PROVE  Plans
<1>1. /\ job \in [Callers -> JobT] /\ pending \in PendingT /\ job[c] \in JobT /\ job[c].role \in Roles
      /\ "planning" \in Callers
  BY DEF SInv, Typed, JobT, Callers
<1>2. PICK r \in Roles : r = job[c].role
  BY <1>1
<1>3. CASE JobFails(c)
  <2>1. /\ job[c].step = "launch" /\ job' = [job EXCEPT ![c] = NoJob]
        /\ pending' = IF c = "planning" THEN [pending EXCEPT !.status = "blocked"] ELSE pending
    BY <1>3 DEF JobFails, At, Done
  <2>2. job'[c] = NoJob /\ \A d \in Callers : d # c => job'[d] = job[d]
    BY <1>1, <2>1
  <2>3. [pending EXCEPT !.status = "blocked"].status = "blocked"
    BY <1>1, PendingUpdates
  <2>. QED
    BY <1>1, <2>1, <2>2, <2>3 DEF Plans, Fails
<1>4. CASE Stopped(c, r) \/ Exited(c, r) \/ Kept(c, r) \/ Launched(c, r)
  <2>1. /\ pending' = pending /\ \A d \in Callers : d # c => job'[d] = job[d]
    BY <1>4 DEF Stopped, Exited, Kept, Launched
  <2>2. /\ job[c].step # "none"
        /\ job'[c].step # "none" \/ job'[c] = NoJob
    BY <1>4 DEF Stopped, Exited, Kept, Launched
  <2>. QED
    BY <1>1, <2>1, <2>2 DEF Plans, GoesAhead
<1>5. CASE JobLaunches(c) /\ ~Launched(c, r)
  <2>1. pending' = pending /\ job' = [job EXCEPT ![c] = NoJob]
    BY <1>2, <1>5, JobIsLaunched
  <2>. QED
    BY <1>1, <2>1 DEF Plans
<1>. QED
  BY <1>2, <1>3, <1>4, <1>5, JobIsStopped, JobIsExited, JobIsKept DEF JobStep

LEMMA PlanSteps ==
  ASSUME SInv, ~Overlaps, [Next]_vars
  PROVE  Plans
<1>1. job \in [Callers -> JobT] /\ "planning" \in Callers /\ "user" \in Callers
  BY DEF SInv, Typed, Callers
<1>2. CASE pending' = pending /\ \E j \in JobT : job' \in {job, [job EXCEPT !["user"] = j]}
  BY <1>1, <1>2 DEF Plans
<1>3. CASE UNCHANGED <<pending, job>>
  BY <1>3 DEF Plans
<1>4. ASSUME NEW r \in Roles, AgentStep(r) \/ UserStep(r) \/ HookStep(r) \/ RecoverContext(r)
      PROVE  Plans
  <2>1. CASE \/ AgentStep(r) \/ UserPrompts(r) \/ ProcessExits(r) \/ HookStep(r)
    <3>1. UNCHANGED <<pending, job>>
      BY <2>1 DEF AgentStep, AgentAccepts, AgentStops, AgentEnds, UserPrompts, ProcessExits, HookStep,
                  HookRecords, HookStores, HookConfirmsContext, HookDispatches, HookEnds, restartVars
    <3>. QED
      BY <1>3, <3>1
  <2>2. CASE \/ UserStarts(r) \/ UserResumes(r) \/ UserStops(r) \/ UserRestarts(r)
             \/ UserRestartsWithContext(r)
    <3>. DEFINE j(step, kind) == [NoJob EXCEPT !.step = step, !.kind = kind, !.role = r]
    <3>1. PICK step \in {"stop", "launch"}, kind \in {"start", "resume", "stop", "restart", "context"} :
            Requests(r, kind, step)
      BY <2>2 DEF UserStarts, UserResumes, UserStops, UserRestarts, UserRestartsWithContext
    <3>2. job' = [job EXCEPT !["user"] = j(step, kind)] /\ pending' = pending
      BY <3>1 DEF Requests
    <3>3. j(step, kind) \in JobT
      <4>1. step \in JobSteps /\ kind \in JobKinds
        BY DEF JobSteps, JobKinds
      <4>. QED
        BY <4>1, Constants DEF JobT
    <3>. HIDE DEF j
    <3>. QED
      BY <1>2, <3>2, <3>3
  <2>3. CASE RecoverContext(r)
    <3>. DEFINE j == [NoJob EXCEPT !.step = "stop", !.kind = "context", !.role = r]
    <3>1. pending' = pending /\ job' \in {job, [job EXCEPT !["user"] = j]}
      BY <2>3 DEF RecoverContext, Launching
    <3>2. j \in JobT
      <4>1. "stop" \in JobSteps /\ "context" \in JobKinds
        BY DEF JobSteps, JobKinds
      <4>. QED
        BY <4>1, NewJob
    <3>. HIDE DEF j
    <3>. QED
      BY <1>2, <3>1, <3>2
  <2>. QED
    BY <1>4, <2>1, <2>2, <2>3 DEF UserStep
<1>5. CASE AgentFails \/ AgentRoutes \/ UserInterrupts \/ SettleDispatches \/ UNCHANGED vars
  <2>1. UNCHANGED <<pending, job>>
    BY <1>5 DEF AgentFails, AgentEnds, AgentRoutes, UserInterrupts, SettleDispatches, restartVars, vars
  <2>. QED
    BY <1>3, <2>1
<1>6. CASE ContextNotes \/ ContextSubmits
  <2>. DEFINE j == [job["user"] EXCEPT !.step = "submit"]
  <2>1. pending' = pending /\ job' \in {[job EXCEPT !["user"] = j], [job EXCEPT !["user"] = NoJob]}
    BY <1>6 DEF ContextNotes, ContextSubmits, Step, Done
  <2>2. j \in JobT
    <3>1. job["user"] \in JobT
      BY <1>1
    <3>. QED
      BY <3>1 DEF JobT, JobSteps
  <2>. HIDE DEF j
  <2>. QED
    BY <1>2, <2>1, <2>2, Constants
<1>7. CASE Crash
  <2>1. pending' = pending /\ job'["planning"] = NoJob
    BY <1>1, <1>7 DEF Crash
  <2>. QED
    BY <2>1 DEF Plans
<1>. QED
  BY <1>4, <1>5, <1>6, <1>7, EventPlans, SchedulePlans, PlanningPlans, JobPlans DEF Next, Callers

LEMMA PlanStays ==
  ASSUME SInv, Planned, Plans
  PROVE  Planned'
<1>1. PlanningFree => job["planning"].step = "none"
  BY Constants DEF PlanningFree
<1>2. CASE pending' = pending /\ job'["planning"] \in {job["planning"], NoJob}
  BY <1>2, Constants DEF Planned
<1>3. CASE GoesAhead \/ Fails
  BY <1>3, Constants DEF Planned, GoesAhead, Fails
<1>4. CASE PlanningFree /\ UNCHANGED job
  BY <1>1, <1>4, Constants DEF Planned, PlanningFree
<1>5. CASE PlanningBegins
  BY <1>5 DEF Planned, PlanningBegins
<1>. QED
  BY <1>2, <1>3, <1>4, <1>5 DEF Plans, Confirmed, Tried

-----------------------------------------------------------------------------
(* A restored Architect without a prompt has no conversation yet, neither  *)
(* in the registry nor in the file, and its restart is on record.          *)
Unprompted == term[Arch].origin = "planning" /\ term[Arch].id \notin term[Arch].taken
Restored == Unprompted => /\ pending.status \in {"executing", "blocked"}
                          /\ record[Arch].id \in {0, term[Arch].id}
                          /\ record[Arch].convo = 0 /\ file[Arch].convo = 0

LEMMA RestorationStays ==
  ASSUME SInv, Planned, Restored, Unprompted, Plans
  PROVE  pending'.status \in {"executing", "blocked"}
<1>1. Typed /\ Arch \in Roles /\ RoleOK(Arch)
  BY Constants DEF SInv
<1>2. /\ pending.status \in {"executing", "blocked"} /\ record[Arch].convo = 0 /\ file[Arch].convo = 0
  BY DEF Restored
<1>3. Registered(Arch).convo = 0
  BY <1>1, <1>2, RegisteredIs
<1>4. agent[Arch] # "working"
  BY <1>1 DEF RoleOK, Alive, Unprompted
<1>. QED
  BY <1>2, <1>3, <1>4 DEF Plans, GoesAhead, Fails, Confirmed, PlanningBegins

LEMMA UnpromptedStays ==
  ASSUME SInv, Moved, Restored, Unprompted, Unprompted',
         \A c \in Callers : ~Launched(c, Arch)
  PROVE  /\ record'[Arch].id \in {0, term'[Arch].id}
         /\ record'[Arch].convo = 0 /\ file'[Arch].convo = 0
<1>1. /\ Typed /\ Arch \in Roles /\ RoleOK(Arch) /\ record[Arch] \in RecordT /\ file[Arch] \in FileT
  BY Constants DEF SInv, Typed
<1>2. /\ record[Arch].id \in {0, term[Arch].id}
      /\ record[Arch].convo = 0 /\ file[Arch].convo = 0
      /\ term[Arch].id \notin term[Arch].taken
  BY DEF Restored, Unprompted
<1>3. CASE Calm
  BY <1>1, <1>2, <1>3 DEF Calm, SameSession
<1>4. CASE Crashed
  BY <1>1, <1>2, <1>4, Constants DEF Crashed
<1>5. ASSUME NEW q \in Roles, Recorded(q)
      PROVE  UNCHANGED <<term, file>> /\ record'[Arch] = record[Arch]
  <2>1. CASE q = Arch
    <3>1. Hook(Arch).id = term[Arch].id
      BY <1>2, <1>5, <2>1 DEF Recorded
    <3>2. Hook(Arch).id \in term[Arch].taken
      BY <1>1, <1>5, <2>1, HookIs DEF Recorded, RoleOK, Heard
    <3>. QED
      BY <1>2, <3>1, <3>2
  <2>. QED
    BY <1>1, <1>5, <2>1 DEF Recorded
<1>6. ASSUME NEW q \in Roles, Filed(q)
      PROVE  UNCHANGED <<term, record>> /\ file'[Arch].convo = 0
  BY <1>1, <1>2, <1>6 DEF Filed
<1>7. ASSUME NEW q \in Roles, NEW kind \in {"prompt", "stop", "failure"}, Speaks(q, kind)
      PROVE  UNCHANGED <<record, file>> /\ term'[Arch].id = term[Arch].id
  BY <1>1, <1>7 DEF Speaks
<1>8. ASSUME NEW c \in Callers, NEW q \in Roles, Stopped(c, q)
      PROVE  UNCHANGED <<term, file>> /\ (record'[Arch] = record[Arch] \/ record'[Arch] = NoRecord)
  BY <1>1, <1>8 DEF Stopped
<1>9. ASSUME NEW c \in Callers, NEW q \in Roles, Exited(c, q)
      PROVE  /\ UNCHANGED <<term, file>> /\ record'[Arch].id \in {record[Arch].id, 0}
             /\ record'[Arch].convo = 0
  <2>1. CASE q # Arch
    BY <1>1, <1>2, <1>9, <2>1 DEF Exited
  <2>2. CASE q = Arch
    <3>1. job[c].step = "exited" /\ job[c].role = Arch /\ record'[Arch] = job[c].rec
      BY <1>9, <2>2 DEF Exited
    <3>2. Carries(c, job[c].role)
      BY <3>1 DEF SInv, JobOK, InHand
    <3>3. /\ record'[Arch].id = Registered(Arch).id /\ record'[Arch].convo = Registered(Arch).convo
      BY <3>1, <3>2 DEF Carries
    <3>. QED
      BY <1>1, <1>2, <1>9, <3>3, RegisteredIs DEF Exited
  <2>. QED
    BY <2>1, <2>2
<1>10. ASSUME NEW c \in Callers, NEW q \in Roles, Kept(c, q)
       PROVE  UNCHANGED <<term, record>> /\ file'[Arch].convo = 0
  BY <1>1, <1>2, <1>10 DEF Kept
<1>11. ASSUME NEW c \in Callers, NEW q \in Roles, Launched(c, q)
       PROVE  /\ file' = file /\ term'[Arch] = term[Arch] /\ record'[Arch] = record[Arch]
  <2>1. q # Arch
    BY <1>11
  <2>. QED
    BY <1>1, <1>11, <2>1 DEF Launched
<1>. QED
  BY <1>2, <1>3, <1>4, <1>5, <1>6, <1>7, <1>8, <1>9, <1>10, <1>11, Constants DEF Moved

LEMMA LaunchRestores ==
  ASSUME SInv, Planned, Plans, NEW c \in Callers, Launched(c, Arch), Unprompted'
  PROVE  /\ pending'.status \in {"executing", "blocked"}
         /\ record'[Arch].id \in {0, term'[Arch].id}
         /\ record'[Arch].convo = 0 /\ file'[Arch].convo = 0
<1>1. /\ Typed /\ JobOK(c) /\ job[c].role = Arch /\ job[c].step = "launch"
      /\ job[c].kind = "planning" /\ file' = file
  BY DEF SInv, Launched, Unprompted
<1>2. c = "planning"
  BY <1>1 DEF JobOK, Shape, Callers
<1>3. file[Arch].convo = 0
  BY <1>1 DEF JobOK, InHand, Carries
<1>4. pending.status = "executing" /\ ~PlanningFree
  BY <1>1, <1>2, Constants DEF Planned, PlanningFree
<1>5. pending'.status \in {"executing", "blocked"}
  BY <1>4 DEF Plans, GoesAhead, Fails, Confirmed
<1>. QED
  BY <1>1, <1>3, <1>5 DEF Launched

LEMMA UnpromptedBefore ==
  ASSUME SInv, Moved, Unprompted', \A c \in Callers : ~Launched(c, Arch)
  PROVE  Unprompted
<1>1. Arch \in Roles
  BY Constants
<1>2. CASE Calm
  BY <1>1, <1>2 DEF Calm, SameSession, Unprompted
<1>3. CASE term'[Arch] = term[Arch]
  BY <1>3 DEF Unprompted
<1>4. ASSUME NEW q \in Roles, NEW kind \in {"prompt", "stop", "failure"}, Speaks(q, kind)
      PROVE  Unprompted
  BY <1>1, <1>4 DEF Speaks, Unprompted
<1>5. ASSUME NEW q \in Roles, Recorded(q) \/ Filed(q) PROVE term' = term
  BY <1>5 DEF Recorded, Filed
<1>6. ASSUME NEW c \in Callers, NEW q \in Roles, Stopped(c, q) \/ Exited(c, q) \/ Kept(c, q)
      PROVE  term' = term
  BY <1>6 DEF Stopped, Exited, Kept
<1>7. ASSUME NEW c \in Callers, NEW q \in Roles, Launched(c, q) PROVE term'[Arch] = term[Arch]
  <2>1. q # Arch
    BY <1>7
  <2>. QED
    BY <1>1, <1>7, <2>1 DEF Launched
<1>. QED
  BY <1>2, <1>3, <1>4, <1>5, <1>6, <1>7 DEF Moved, Crashed

LEMMA RestoredStays ==
  ASSUME SInv, Planned, Restored, Moved, Plans
  PROVE  Restored'
<1>1. SUFFICES ASSUME Unprompted'
               PROVE  /\ pending'.status \in {"executing", "blocked"}
                      /\ record'[Arch].id \in {0, term'[Arch].id}
                      /\ record'[Arch].convo = 0 /\ file'[Arch].convo = 0
  BY DEF Restored
<1>2. ASSUME NEW c \in Callers, Launched(c, Arch)
      PROVE  /\ pending'.status \in {"executing", "blocked"}
             /\ record'[Arch].id \in {0, term'[Arch].id}
             /\ record'[Arch].convo = 0 /\ file'[Arch].convo = 0
  BY <1>1, <1>2, LaunchRestores
<1>3. CASE \A c \in Callers : ~Launched(c, Arch)
  BY <1>1, <1>3, UnpromptedBefore, UnpromptedStays, RestorationStays
<1>. QED
  BY <1>2, <1>3

LEMMA StartsPlanned ==
  Init => Planned /\ Restored
<1>. SUFFICES ASSUME Init PROVE Planned /\ Restored
  OBVIOUS
<1>. DEFINE T == [id |-> 1, convo |-> 1, taken |-> {}, origin |-> "start", end |-> "none"]
<1>1. job = [c \in {"planning", "user"} |-> NoJob] /\ term = [r \in Roles |-> T]
  BY DEF Init, Nobody
<1>2. T.origin = "start"
  OBVIOUS
<1>. HIDE DEF T
<1>. QED
  BY <1>1, <1>2, Constants DEF Planned, Restored, Unprompted

\* Over every crash, reconnect, exit and lost restart, an Architect restored
\* after planning keeps its restoration on record until it has taken its
\* first prompt.
THEOREM RestorationsSurvive == ASSUME ~Overlaps PROVE Spec => []RestorationSurvives
<1>1. Init => SInv /\ Planned /\ Restored
  BY StartsConsistent, StartsPlanned
<1>2. SInv /\ Planned /\ Restored /\ [Next]_vars => (SInv /\ Planned /\ Restored)'
  BY Steps, PlanSteps, SessionsStay, PlanStays, RestoredStays
<1>3. Restored => RestorationSurvives
  BY DEF Restored, Unprompted, RestorationSurvives
<1>. QED
  BY <1>1, <1>2, <1>3, PTL DEF Spec

-----------------------------------------------------------------------------
(* The record has the conversation of a working terminal, or a prompt that *)
(* brings it is still to be handled; and Claude waits for the answer of    *)
(* its last Stop, which ends its hooks.                                    *)
Brings(r, k) == /\ hooks[r][k].kind = "prompt" /\ hooks[r][k].id = term[r].id
                /\ k = 1 => handler[r].step = "begin"
IsStop(r, k) == hooks[r][k].kind = "stop" /\ hooks[r][k].id = term[r].id
Talks(r) ==
  /\ term[r].convo > 0
  /\ \A i \in 1..Len(hooks[r]) : hooks[r][i].id = term[r].id => hooks[r][i].convo = term[r].convo
  /\ record[r].id = term[r].id => record[r].convo \in {0, term[r].convo}
  /\ file[r].id = term[r].id => file[r].convo \in {0, term[r].convo}
  /\ agent[r] \in {"working", "stopping"} =>
       record[r].convo = term[r].convo \/ \E k \in 1..Len(hooks[r]) : Brings(r, k)
Waits(r) ==
  /\ \A k \in 1..Len(hooks[r]) :
       IsStop(r, k) /\ agent[r] # "off" => agent[r] = "stopping" /\ k = Len(hooks[r])
  /\ agent[r] = "stopping" => hooks[r] # <<>> /\ IsStop(r, Len(hooks[r]))
  /\ agent[r] = "ready" /\ term[r].end = "stop" => hooks[r] = <<>>
Speech(r) == Talks(r) /\ Waits(r)

LEMMA TailIs ==
  ASSUME NEW s \in Seq(HookT), s # <<>>
  PROVE  /\ Len(s) \in Nat /\ Len(s) > 0 /\ Len(Tail(s)) = Len(s) - 1
         /\ \A i \in 1..Len(Tail(s)) : Tail(s)[i] = s[i + 1] /\ i + 1 \in 1..Len(s)
         /\ Head(s) = s[1] /\ 1 \in 1..Len(s)
         /\ Len(s) = 1 => Tail(s) = <<>>
<1>1. Len(s) \in Nat /\ Len(s) > 0 /\ Tail(s) \in Seq(HookT)
  OBVIOUS
<1>2. Len(Tail(s)) = Len(s) - 1
  OBVIOUS
<1>3. \A i \in 1..Len(Tail(s)) : Tail(s)[i] = s[i + 1] /\ i + 1 \in 1..Len(s)
  BY <1>1, <1>2
<1>4. Len(s) = 1 => Tail(s) = <<>>
  <2>. DEFINE t == Tail(s)
  <2>1. \A u \in Seq(HookT) : u # <<>> => Len(u) \in Nat /\ Len(u) > 0
    OBVIOUS
  <2>2. t \in Seq(HookT) /\ Len(t) = Len(s) - 1
    BY <1>1, <1>2
  <2>. HIDE DEF t
  <2>3. t # <<>> => Len(t) > 0
    BY <2>1, <2>2
  <2>4. Len(s) = 1 => t = <<>>
    BY <2>2, <2>3
  <2>. QED
    BY <2>4 DEF t
<1>. QED
  BY <1>1, <1>2, <1>3, <1>4

(* What an answered hook leaves of the others.                             *)
LEMMA Answering ==
  ASSUME Typed, NEW r \in Roles, Answers(r)
  PROVE  /\ Len(hooks[r]) \in Nat /\ Len(hooks[r]) > 0 /\ Len(hooks'[r]) = Len(hooks[r]) - 1
         /\ \A i \in 1..Len(hooks'[r]) : hooks'[r][i] = hooks[r][i + 1] /\ i + 1 \in 1..Len(hooks[r])
         /\ Hook(r) = hooks[r][1] /\ 1 \in 1..Len(hooks[r]) /\ handler'[r].step = "begin"
         /\ Len(hooks[r]) = 1 => hooks'[r] = <<>>
<1>1. hooks[r] \in Seq(HookT) /\ hooks[r] # <<>> /\ hooks'[r] = Tail(hooks[r])
  BY DEF Typed, Answers
<1>2. handler'[r].step = "begin"
  BY Constants DEF Answers
<1>. HIDE DEF HookT
<1>. QED
  BY <1>1, <1>2, TailIs DEF Hook

LEMMA AnsweredSpeech ==
  ASSUME SInv, Calm, NEW r \in Roles, Speech(r), Answers(r)
  PROVE  Speech(r)'
<1>1. /\ Typed /\ RoleOK(r) /\ SameSession(r) /\ Turn(r) /\ file' = file
      /\ record[r] \in RecordT /\ term[r] \in TermT /\ record[r].id \in Nat
  BY DEF SInv, Calm, Typed, RecordT
<1>2. /\ Len(hooks[r]) \in Nat /\ Len(hooks[r]) > 0 /\ Len(hooks'[r]) = Len(hooks[r]) - 1
      /\ \A i \in 1..Len(hooks'[r]) : hooks'[r][i] = hooks[r][i + 1] /\ i + 1 \in 1..Len(hooks[r])
      /\ Hook(r) = hooks[r][1] /\ 1 \in 1..Len(hooks[r]) /\ handler'[r].step = "begin"
      /\ Len(hooks[r]) = 1 => hooks'[r] = <<>>
  BY <1>1, Answering
<1>3. ~SameHooks(r) /\ ~MovesOn(r)
  <2>1. hooks'[r] # hooks[r]
    BY <1>2
  <2>. QED
    BY <2>1 DEF SameHooks, MovesOn
<1>4. \/ /\ agent'[r] = agent[r] /\ term'[r].end = term[r].end /\ ~Releases(r)
      \/ agent'[r] = "ready" /\ term'[r].end = term[r].end /\ Releases(r)
  BY <1>1, <1>3 DEF Turn
<1>5. hooks[r] \in Seq(HookT)
  BY <1>1 DEF Typed
<1>6. Talks(r)'
  <2>1. ASSUME agent'[r] \in {"working", "stopping"}
        PROVE  record'[r].convo = term'[r].convo \/ \E k \in 1..Len(hooks'[r]) : Brings(r, k)'
    <3>1. agent[r] = agent'[r]
      BY <1>4, <2>1
    <3>2. CASE record[r].convo = term[r].convo
      BY <1>1, <3>2 DEF SameSession
    <3>3. ASSUME NEW k \in 1..Len(hooks[r]), Brings(r, k), k > 1
          PROVE  \E i \in 1..Len(hooks'[r]) : Brings(r, i)'
      <4>1. k - 1 \in 1..Len(hooks'[r]) /\ hooks'[r][k - 1] = hooks[r][k]
        BY <1>2, <3>3
      <4>2. Brings(r, k - 1)'
        BY <1>1, <1>2, <3>3, <4>1 DEF Brings, SameSession
      <4>. QED
        BY <4>1, <4>2
    <3>4. CASE Brings(r, 1)
      <4>1. record[r].id = term[r].id /\ record[r].id # 0
        BY <1>1, <2>1, <3>1 DEF RoleOK, Alive, Numbered, TermT
      <4>2. /\ Hook(r).kind = "prompt" /\ Hook(r).id = record[r].id /\ Hook(r).convo = term[r].convo
            /\ handler[r].step = "begin"
        BY <1>2, <3>4, <4>1 DEF Brings, Speech, Talks
      <4>3. Registered(r) = record[r]
        BY <1>1, <4>1, RegisteredIs
      <4>4. record[r].convo # 0
        BY <4>1, <4>2, <4>3 DEF Answers, Matches
      <4>. QED
        BY <1>1, <4>1, <4>4 DEF Speech, Talks, SameSession
    <3>. QED
      BY <2>1, <3>1, <3>2, <3>3, <3>4 DEF Speech, Talks
  <2>2. /\ term'[r].convo > 0
        /\ record'[r].id = term'[r].id => record'[r].convo \in {0, term'[r].convo}
        /\ file'[r].id = term'[r].id => file'[r].convo \in {0, term'[r].convo}
    BY <1>1 DEF Speech, Talks, SameSession
  <2>3. \A i \in 1..Len(hooks'[r]) : hooks'[r][i].id = term'[r].id => hooks'[r][i].convo = term'[r].convo
    BY <1>1, <1>2 DEF Speech, Talks, SameSession
  <2>. QED
    BY <2>1, <2>2, <2>3 DEF Talks
<1>7. Waits(r)'
  <2>1. ASSUME NEW k \in 1..Len(hooks'[r]), IsStop(r, k)', agent'[r] # "off"
        PROVE  agent'[r] = "stopping" /\ k = Len(hooks'[r])
    <3>1. IsStop(r, k + 1) /\ k + 1 \in 1..Len(hooks[r])
      BY <1>1, <1>2, <2>1 DEF IsStop, SameSession
    <3>2. agent[r] # "off"
      BY <1>4, <2>1 DEF Releases
    <3>3. agent[r] = "stopping" /\ k + 1 = Len(hooks[r])
      BY <3>1, <3>2 DEF Speech, Waits
    <3>4. ~Releases(r)
      <4>1. Releases(r) => Len(hooks[r]) = 1
        BY <1>2 DEF Speech, Waits, IsStop, Releases
      <4>2. Len(hooks[r]) # 1
        BY <1>2, <2>1, <3>3
      <4>. QED
        BY <4>1, <4>2
    <3>. QED
      BY <1>2, <1>4, <2>1, <3>3, <3>4
  <2>2. ASSUME agent'[r] = "stopping" PROVE hooks'[r] # <<>> /\ IsStop(r, Len(hooks[r]))'
    <3>1. agent[r] = "stopping" /\ ~Releases(r) /\ IsStop(r, Len(hooks[r]))
      BY <1>4, <2>2 DEF Speech, Waits
    <3>2. Len(hooks[r]) # 1
      BY <1>2, <3>1 DEF IsStop, Releases
    <3>3. Len(hooks'[r]) \in 1..Len(hooks'[r]) /\ Len(hooks'[r]) + 1 = Len(hooks[r])
      <4>. DEFINE n == Len(hooks[r])  m == Len(hooks'[r])
      <4>1. n \in Nat /\ n > 0 /\ m = n - 1 /\ n # 1
        BY <1>2, <3>2
      <4>. HIDE DEF n, m
      <4>2. m \in 1..m /\ m + 1 = n
        BY <4>1
      <4>. QED
        BY <4>2 DEF n, m
    <3>4. hooks'[r][Len(hooks'[r])] = hooks[r][Len(hooks[r])]
      BY <1>2, <3>3
    <3>. QED
      BY <1>1, <3>1, <3>3, <3>4 DEF IsStop, SameSession
  <2>3. ASSUME agent'[r] = "ready", term'[r].end = "stop" PROVE hooks'[r] = <<>>
    <3>1. CASE Releases(r)
      BY <1>2, <3>1 DEF Speech, Waits, IsStop, Releases
    <3>2. CASE ~Releases(r)
      BY <1>2, <1>4, <2>3, <3>2 DEF Speech, Waits
    <3>. QED
      BY <3>1, <3>2
  <2>. QED
    BY <2>1, <2>2, <2>3 DEF Waits
<1>. QED
  BY <1>6, <1>7 DEF Speech

LEMMA CalmSpeech ==
  ASSUME SInv, Calm, NEW r \in Roles, Speech(r)
  PROVE  Speech(r)'
<1>1. /\ Typed /\ RoleOK(r) /\ SameSession(r) /\ Turn(r) /\ file' = file
  BY DEF SInv, Calm
<1>2. CASE Answers(r)
  BY <1>2, AnsweredSpeech
<1>3. CASE ~Answers(r)
  <2>1. /\ hooks'[r] = hooks[r] /\ (SameHooks(r) \/ MovesOn(r))
        /\ \/ agent'[r] = agent[r] /\ term'[r].end = term[r].end
           \/ agent'[r] = "off"
           \/ agent[r] = "working" /\ agent'[r] = "ready" /\ term'[r].end = "interrupt"
    BY <1>1, <1>3 DEF Turn, SameHooks, MovesOn
  <2>2. \A k \in 1..Len(hooks[r]) : Brings(r, k) => Brings(r, k)'
    BY <1>1, <2>1 DEF Brings, SameHooks, MovesOn, SameSession
  <2>3. \A k \in 1..Len(hooks[r]) : IsStop(r, k)' <=> IsStop(r, k)
    BY <1>1, <2>1 DEF IsStop, SameSession
  <2>4. Talks(r)'
    BY <1>1, <2>1, <2>2 DEF Speech, Talks, SameSession
  <2>5. Waits(r)'
    <3>2. hooks[r] \in Seq(HookT)
      BY <1>1 DEF Typed
    <3>1. hooks[r] # <<>> => Len(hooks[r]) \in 1..Len(hooks[r])
      BY <3>2
    <3>. QED
      BY <2>1, <2>3, <3>1 DEF Speech, Waits
  <2>. QED
    BY <2>4, <2>5 DEF Speech
<1>. QED
  BY <1>2, <1>3

Alike(r) == /\ agent'[r] = agent[r] /\ term'[r] = term[r] /\ record'[r] = record[r]
            /\ file'[r] = file[r] /\ hooks'[r] = hooks[r] /\ handler'[r] = handler[r]

LEMMA SpeechAlike ==
  ASSUME NEW r \in Roles, Speech(r), Alike(r)
  PROVE  Speech(r)'
BY DEF Speech, Talks, Waits, Brings, IsStop, Alike

LEMMA SpokenSpeech ==
  ASSUME SInv, NEW r \in Roles, Speech(r), NEW kind \in {"prompt", "stop", "failure"},
         Speaks(r, kind)
  PROVE  Speech(r)'
<1>0. PICK n \in Nat : n = Len(hooks[r])
  BY DEF Speaks
<1>1. /\ Typed /\ RoleOK(r) /\ record' = record /\ file' = file /\ handler' = handler
      /\ agent[r] = (IF kind = "prompt" THEN "ready" ELSE "working")
      /\ agent'[r] = (IF kind = "prompt" THEN "working" ELSE IF kind = "stop" THEN "stopping" ELSE "ready")
      /\ term'[r].id = term[r].id /\ term'[r].convo = term[r].convo
      /\ term'[r].end = (IF kind = "prompt" THEN "none" ELSE kind)
  BY DEF SInv, Speaks
<1>2. /\ n \in Nat /\ Len(hooks'[r]) = n + 1
      /\ \A i \in 1..n : hooks'[r][i] = hooks[r][i]
      /\ hooks'[r][n + 1].kind = kind /\ hooks'[r][n + 1].id = term[r].id
      /\ hooks'[r][n + 1].convo = term[r].convo
  BY <1>0 DEF Speaks
<1>3. hooks'[r] # <<>>
  BY <1>2
<1>4. n = 0 => handler[r].step = "begin"
  <2>. DEFINE h == hooks[r]
  <2>1. \A u \in Seq(HookT) : u # <<>> => Len(u) > 0
    OBVIOUS
  <2>2. h \in Seq(HookT) /\ Len(h) = n
    BY <1>0, <1>1 DEF Typed
  <2>. HIDE DEF h
  <2>3. n = 0 => h = <<>>
    BY <2>1, <2>2
  <2>. QED
    BY <1>1, <2>3 DEF RoleOK, Handled, h
<1>5. \A k \in 1..(n + 1) : k \in 1..n \/ k = n + 1
  BY <1>2
<1>6. n + 1 \in 1..(n + 1) /\ \A k \in 1..n : k \in 1..(n + 1)
  BY <1>2
<1>7. Talks(r)'
  <2>1. ASSUME agent'[r] \in {"working", "stopping"}
        PROVE  record'[r].convo = term'[r].convo \/ \E k \in 1..(n + 1) : Brings(r, k)'
    <3>1. CASE kind = "prompt"
      <4>1. Brings(r, n + 1)'
        <5>1. n + 1 = 1 => handler'[r].step = "begin"
          BY <1>1, <1>2, <1>4
        <5>. QED
          BY <1>1, <1>2, <3>1, <5>1 DEF Brings
      <4>. QED
        BY <1>6, <4>1
    <3>2. CASE kind = "stop"
      <4>1. \A k \in 1..n : Brings(r, k) => Brings(r, k)'
        BY <1>1, <1>2 DEF Brings
      <4>2. record[r].convo = term[r].convo \/ \E k \in 1..n : Brings(r, k)
        BY <1>0, <1>1, <3>2 DEF Speech, Talks
      <4>. QED
        BY <1>1, <1>6, <4>1, <4>2
    <3>. QED
      BY <1>1, <2>1, <3>1, <3>2
  <2>2. \A i \in 1..(n + 1) : hooks'[r][i].id = term'[r].id => hooks'[r][i].convo = term'[r].convo
    <3>1. \A i \in 1..n : hooks[r][i].id = term[r].id => hooks[r][i].convo = term[r].convo
      BY <1>0 DEF Speech, Talks
    <3>. QED
      BY <1>1, <1>2, <1>5, <3>1
  <2>3. /\ term'[r].convo > 0
        /\ record'[r].id = term'[r].id => record'[r].convo \in {0, term'[r].convo}
        /\ file'[r].id = term'[r].id => file'[r].convo \in {0, term'[r].convo}
    BY <1>1 DEF Speech, Talks
  <2>. QED
    BY <1>2, <2>1, <2>2, <2>3 DEF Talks
<1>8. Waits(r)'
  <2>1. \A k \in 1..n : ~IsStop(r, k)
    BY <1>0, <1>1 DEF Speech, Waits
  <2>2. \A k \in 1..n : ~IsStop(r, k)'
    BY <1>1, <1>2, <2>1 DEF IsStop
  <2>3. IsStop(r, n + 1)' <=> kind = "stop"
    BY <1>1, <1>2 DEF IsStop
  <2>4. ASSUME NEW k \in 1..(n + 1), IsStop(r, k)' PROVE agent'[r] = "stopping" /\ k = n + 1
    BY <1>1, <1>5, <2>2, <2>3, <2>4
  <2>5. agent'[r] = "stopping" => IsStop(r, n + 1)'
    BY <1>1, <2>3
  <2>6. ~(agent'[r] = "ready" /\ term'[r].end = "stop")
    BY <1>1
  <2>. QED
    BY <1>2, <1>3, <2>4, <2>5, <2>6 DEF Waits
<1>. QED
  BY <1>7, <1>8 DEF Speech

LEMMA SpeechStays ==
  ASSUME SInv, Moved, NEW r \in Roles, Speech(r)
  PROVE  Speech(r)'
<1>1. /\ Typed /\ RoleOK(r) /\ term[r] \in TermT /\ term[r].id \in Nat /\ record[r].id \in Nat
      /\ file[r].id \in Nat /\ term[r].id > 0
  BY DEF SInv, Typed, TermT, RecordT, FileT, RoleOK, Numbered
<1>2. CASE Calm
  BY <1>2, CalmSpeech
<1>3. CASE Crashed
  <2>1. /\ term'[r] = term[r] /\ file'[r] = file[r] /\ agent'[r] = "off" /\ record'[r].id = 0
        /\ Len(hooks'[r]) = 0
    BY <1>3, Constants DEF Crashed
  <2>2. 1..Len(hooks'[r]) = {}
    BY <2>1
  <2>. QED
    BY <1>1, <2>1, <2>2 DEF Speech, Talks, Waits
<1>4. ASSUME NEW q \in Roles, Recorded(q) PROVE Speech(r)'
  <2>1. CASE q # r
    BY <1>4, <2>1, SpeechAlike DEF Recorded, Alike
  <2>2. CASE q = r
    <3>1. /\ agent' = agent /\ term' = term /\ hooks' = hooks /\ file' = file
          /\ record'[r].id = record[r].id
          /\ record'[r].convo = (IF record[r].convo = 0 THEN Hook(r).convo ELSE record[r].convo)
          /\ Hook(r).id = record[r].id /\ hooks[r] # <<>>
      BY <1>4, <2>2 DEF Recorded
    <3>2. Hook(r) = hooks[r][1] /\ 1 \in 1..Len(hooks[r])
      <4>1. hooks[r] \in Seq(HookT)
        BY <1>1 DEF Typed
      <4>. HIDE DEF HookT
      <4>. QED
        BY <3>1, <4>1, TailIs DEF Hook
    <3>3. record[r].id = term[r].id => Hook(r).convo = term[r].convo
      BY <3>1, <3>2 DEF Speech, Talks
    <3>4. record[r].id = term[r].id => record'[r].convo = term[r].convo
      BY <3>1, <3>3 DEF Speech, Talks
    <3>5. agent[r] # "off" => record[r].id = term[r].id
      BY <1>1 DEF RoleOK, Alive
    <3>6. Talks(r)'
      BY <3>1, <3>4, <3>5 DEF Speech, Talks
    <3>7. Waits(r)'
      BY <3>1 DEF Speech, Waits, IsStop
    <3>. QED
      BY <3>6, <3>7 DEF Speech
  <2>. QED
    BY <2>1, <2>2
<1>5. ASSUME NEW q \in Roles, Filed(q) PROVE Speech(r)'
  <2>1. CASE q # r
    BY <1>5, <2>1, SpeechAlike DEF Filed, Alike
  <2>2. CASE q = r
    <3>1. /\ agent' = agent /\ term' = term /\ hooks' = hooks /\ record' = record
          /\ file'[r].id = record[r].id /\ file'[r].convo = record[r].convo
          /\ handler[r].step = "store"
      BY <1>5, <2>2 DEF Filed
    <3>2. \A k \in 1..Len(hooks[r]) : Brings(r, k) => Brings(r, k)'
      BY <3>1 DEF Brings
    <3>6. Talks(r)'
      BY <3>1, <3>2 DEF Speech, Talks
    <3>7. Waits(r)'
      BY <3>1 DEF Speech, Waits, IsStop
    <3>. QED
      BY <3>6, <3>7 DEF Speech
  <2>. QED
    BY <2>1, <2>2
<1>6. ASSUME NEW q \in Roles, NEW kind \in {"prompt", "stop", "failure"}, Speaks(q, kind)
      PROVE  Speech(r)'
  <2>1. CASE q # r
    BY <1>6, <2>1, SpeechAlike DEF Speaks, Alike
  <2>2. CASE q = r
    BY <1>6, <2>2, SpokenSpeech
  <2>. QED
    BY <2>1, <2>2
<1>7. ASSUME NEW c \in Callers, NEW q \in Roles, Stopped(c, q) PROVE Speech(r)'
  <2>1. CASE q # r
    BY <1>7, <2>1, SpeechAlike DEF Stopped, Alike
  <2>2. CASE q = r
    <3>1. /\ agent'[r] = "off" /\ term' = term /\ hooks' = hooks /\ file' = file
          /\ record'[r] \in {record[r], NoRecord}
      BY <1>7, <2>2 DEF Stopped
    <3>2. record'[r].id = term'[r].id => record'[r].convo \in {0, term'[r].convo}
      BY <1>1, <3>1, Constants DEF Speech, Talks
    <3>6. Talks(r)'
      BY <3>1, <3>2 DEF Speech, Talks
    <3>7. Waits(r)'
      BY <3>1 DEF Waits
    <3>. QED
      BY <3>6, <3>7 DEF Speech
  <2>. QED
    BY <2>1, <2>2
<1>8. ASSUME NEW c \in Callers, NEW q \in Roles, Exited(c, q) PROVE Speech(r)'
  <2>1. CASE q # r
    BY <1>8, <2>1, SpeechAlike DEF Exited, Alike
  <2>2. CASE q = r
    <3>1. /\ agent'[r] = agent[r] /\ term' = term /\ hooks' = hooks /\ file' = file
          /\ record'[r] = job[c].rec /\ job[c].step = "exited" /\ r = job[c].role
      BY <1>8, <2>2 DEF Exited
    <3>2. Carries(c, r)
      BY <3>1 DEF SInv, JobOK, InHand
    <3>3. /\ agent[r] = "off" /\ record'[r].id = Registered(r).id
          /\ record'[r].convo = Registered(r).convo
      BY <3>1, <3>2 DEF Carries
    <3>4. record'[r].id = term'[r].id => record'[r].convo \in {0, term'[r].convo}
      BY <1>1, <3>1, <3>3, RegisteredIs DEF Speech, Talks
    <3>6. Talks(r)'
      BY <3>1, <3>3, <3>4 DEF Speech, Talks
    <3>7. Waits(r)'
      BY <3>1, <3>3 DEF Waits
    <3>. QED
      BY <3>6, <3>7 DEF Speech
  <2>. QED
    BY <2>1, <2>2
<1>9. ASSUME NEW c \in Callers, NEW q \in Roles, Kept(c, q) PROVE Speech(r)'
  <2>1. CASE q # r
    BY <1>9, <2>1, SpeechAlike DEF Kept, Alike
  <2>2. CASE q = r
    <3>1. /\ agent' = agent /\ term' = term /\ hooks' = hooks /\ record' = record /\ handler' = handler
          /\ \/ file'[r].id = record[r].id /\ file'[r].convo = record[r].convo
             \/ file'[r].convo = 0
      BY <1>9, <2>2 DEF Kept
    <3>6. Talks(r)'
      BY <3>1 DEF Speech, Talks, Brings
    <3>7. Waits(r)'
      BY <3>1 DEF Speech, Waits, IsStop
    <3>. QED
      BY <3>6, <3>7 DEF Speech
  <2>. QED
    BY <2>1, <2>2
<1>10. ASSUME NEW c \in Callers, NEW q \in Roles, Launched(c, q) PROVE Speech(r)'
  <2>1. CASE q # r
    BY <1>10, <2>1, SpeechAlike DEF Launched, Alike
  <2>2. CASE q = r
    <3>1. /\ agent'[r] = "ready" /\ hooks' = hooks /\ file' = file
          /\ term'[r].id = term[r].id + 1 /\ term'[r].end = "none" /\ term'[r].convo > 0
          /\ record'[r].convo \in {0, term'[r].convo}
      BY <1>10, <2>2 DEF Launched
    <3>2. \A i \in 1..Len(hooks[r]) : hooks[r][i].id # term'[r].id
      <4>1. ASSUME NEW i \in 1..Len(hooks[r]) PROVE hooks[r][i].id # term'[r].id
        <5>1. hooks[r][i].id \in term[r].taken
          BY <1>1 DEF RoleOK, Heard
        <5>2. term[r].taken \subseteq Nat
          BY <1>1 DEF TermT
        <5>3. hooks[r][i].id <= term[r].id
          BY <1>1, <5>1 DEF RoleOK, Numbered
        <5>4. hooks[r][i].id \in Nat
          BY <5>1, <5>2
        <5>. QED
          BY <1>1, <3>1, <5>3, <5>4
      <4>. QED
        BY <4>1
    <3>3. file[r].id # term'[r].id
      BY <1>1, <3>1 DEF RoleOK, Numbered
    <3>6. Talks(r)'
      BY <3>1, <3>2, <3>3 DEF Talks
    <3>7. Waits(r)'
      BY <3>1, <3>2 DEF Waits, IsStop
    <3>. QED
      BY <3>6, <3>7 DEF Speech
  <2>. QED
    BY <2>1, <2>2
<1>. QED
  BY <1>2, <1>3, <1>4, <1>5, <1>6, <1>7, <1>8, <1>9, <1>10 DEF Moved

-----------------------------------------------------------------------------
(* An Architect that has come to rest, or whose Stop has been told to the  *)
(* restart service, leaves no restart that is due.                         *)
AfterStop == \/ agent[Arch] = "ready" /\ term[Arch].end = "stop"
             \/ /\ agent[Arch] # "off" /\ handler[Arch].step \in {"dispatch", "delivered"}
                /\ IsStop(Arch, 1)
Noticed == AfterStop => ~Due

(* The places of a Stop in the hooks.                                      *)
LEMMA FirstHook ==
  ASSUME Typed, NEW r \in Roles, hooks[r] # <<>>
  PROVE  Hook(r) = hooks[r][1] /\ 1 \in 1..Len(hooks[r])
<1>1. hooks[r] \in Seq(HookT)
  BY DEF Typed
<1>. HIDE DEF HookT
<1>. QED
  BY <1>1, TailIs DEF Hook

(* What the restart has yet to wait for is as it was before the step.      *)
LEMMA DueBefore ==
  ASSUME SInv, SInv', Planned, Plans, Speech(Arch)', AfterStop', Due'
  PROVE  pending' = pending /\ PlanningFree
<1>1. job["planning"].step = "none" => PlanningFree
  BY DEF Planned, PlanningFree
<1>2. job["planning"].step # "none" => pending.status = "executing"
  BY DEF Planned
<1>3. pending'.status = "pending" /\ Met(pending)' /\ ~record'[Arch].busy
  BY DEF Due
<1>4. CASE pending' = pending /\ job'["planning"] \in {job["planning"], NoJob}
  BY <1>1, <1>2, <1>3, <1>4
<1>5. CASE GoesAhead \/ Fails \/ Confirmed \/ PlanningBegins
  BY <1>2, <1>3, <1>5, Constants DEF GoesAhead, Fails, Confirmed, PlanningBegins
<1>6. ASSUME Idle, NEW p \in PendingT, Tried(p)
      PROVE  FALSE
  BY <1>3, <1>6 DEF Idle, Tried, PlanningBegins, Met
<1>7. ASSUME Idle, agent[Arch] = "working"
      PROVE  FALSE
  <2>1. agent'[Arch] = "working"
    BY <1>7 DEF Idle
  <2>2. Typed' /\ RoleOK(Arch)' /\ Arch \in Roles
    BY Constants DEF SInv
  <2>3. handler'[Arch].step \in {"dispatch", "delivered"} /\ IsStop(Arch, 1)'
    BY <2>1 DEF AfterStop
  <2>4. hooks'[Arch] # <<>> /\ hooks'[Arch] \in Seq(HookT)
    BY <2>2, <2>3 DEF RoleOK, Handled, Typed
  <2>5. 1 \in 1..Len(hooks'[Arch])
    <3>. HIDE DEF HookT
    <3>. QED
      BY <2>4, TailIs
  <2>. QED
    BY <2>1, <2>3, <2>5 DEF Speech, Waits
<1>. QED
  BY <1>4, <1>5, <1>6, <1>7 DEF Plans

(* A Stop that is answered has been told to the restart service.           *)
LEMMA ReleasedStop ==
  ASSUME SInv, Speech(Arch), Answers(Arch), Releases(Arch)
  PROVE  handler[Arch].step = "delivered" /\ IsStop(Arch, 1)
<1>1. /\ Typed /\ RoleOK(Arch) /\ Arch \in Roles /\ hooks[Arch] # <<>>
      /\ agent[Arch] = "stopping" /\ Hook(Arch).kind = "stop" /\ Hook(Arch).id = term[Arch].id
      /\ record[Arch].id \in Nat /\ term[Arch].id > 0
  BY Constants DEF SInv, Typed, RecordT, RoleOK, Numbered, Answers, Releases
<1>2. Hook(Arch) = hooks[Arch][1] /\ 1 \in 1..Len(hooks[Arch])
  BY <1>1, FirstHook
<1>3. IsStop(Arch, 1) /\ 1 = Len(hooks[Arch])
  BY <1>1, <1>2 DEF IsStop, Speech, Waits
<1>4. handler[Arch].step \notin PromptSteps
  BY <1>1 DEF RoleOK, Handled, PromptSteps
<1>5. handler[Arch].step # "begin"
  <2>1. record[Arch].id = term[Arch].id /\ record[Arch].id # 0
    BY <1>1 DEF RoleOK, Alive
  <2>2. \A k \in 1..Len(hooks[Arch]) : ~Brings(Arch, k)
    BY <1>1, <1>2, <1>3 DEF Brings
  <2>3. record[Arch].convo = term[Arch].convo /\ term[Arch].convo # 0
    BY <1>1, <2>2 DEF Speech, Talks
  <2>4. Hook(Arch).convo = term[Arch].convo
    BY <1>1, <1>2 DEF Speech, Talks
  <2>5. Registered(Arch) = record[Arch]
    BY <1>1, <2>1, RegisteredIs
  <2>6. Matches(Registered(Arch), Hook(Arch))
    BY <1>1, <2>1, <2>3, <2>4, <2>5 DEF Matches
  <2>. QED
    BY <2>6 DEF Answers
<1>. QED
  BY <1>3, <1>4, <1>5 DEF Answers

LEMMA CalmNoticed ==
  ASSUME SInv, Calm, Speech(Arch), Speech(Arch)', AfterStop', Due',
         pending' = pending, PlanningFree, Noticed
  PROVE  FALSE
<1>1. /\ Typed /\ RoleOK(Arch) /\ Arch \in Roles /\ SameSession(Arch) /\ Turn(Arch)
      /\ Typed' /\ agent'[Arch] # "off"
  BY Constants DEF SInv, Calm, AfterStop
<1>2. ~(agent'[Arch] = "ready" /\ term'[Arch].end = "interrupt" /\ SameHooks(Arch))
  <2>. SUFFICES ASSUME agent'[Arch] = "ready", term'[Arch].end = "interrupt", SameHooks(Arch)
                PROVE  FALSE
    OBVIOUS
  <2>1. handler'[Arch].step \in {"dispatch", "delivered"} /\ IsStop(Arch, 1)'
    BY DEF AfterStop
  <2>2. hooks[Arch] # <<>> /\ hooks'[Arch] = hooks[Arch]
    BY <1>1, <2>1 DEF RoleOK, Handled, SameHooks
  <2>3. 1 \in 1..Len(hooks'[Arch])
    BY <1>1, <2>2, FirstHook
  <2>. QED
    BY <1>1, <2>1, <2>3 DEF Speech, Waits
<1>3. \/ /\ agent'[Arch] = agent[Arch] /\ term'[Arch].end = term[Arch].end
         /\ SameHooks(Arch) \/ MovesOn(Arch) \/ (Answers(Arch) /\ ~Releases(Arch))
      \/ agent'[Arch] = "ready" /\ Answers(Arch) /\ Releases(Arch)
  BY <1>1, <1>2 DEF Turn
<1>4. Due
  <2>1. record[Arch].busy => record'[Arch].busy
    <3>1. ASSUME agent[Arch] = "working", agent'[Arch] = "ready", term'[Arch].end = "interrupt"
          PROVE  FALSE
      BY <1>2, <1>3, <3>1 DEF Releases
    <3>. QED
      BY <1>1, <3>1 DEF Turn
  <2>2. IsSource(pending, record'[Arch]) => IsSource(pending, record[Arch])
    BY <1>1 DEF IsSource, SameSession
  <2>3. /\ pending'.status = "pending" /\ Met(pending') /\ IsSource(pending', record'[Arch])
        /\ ~record'[Arch].busy
    BY DEF Due, Met, IsSource
  <2>. QED
    BY <2>1, <2>2, <2>3 DEF Due
<1>5. ~AfterStop
  BY <1>4 DEF Noticed
<1>6. CASE agent'[Arch] = "ready" /\ Answers(Arch) /\ Releases(Arch)
  BY <1>5, <1>6, ReleasedStop DEF AfterStop, Releases
<1>7. CASE agent'[Arch] = agent[Arch] /\ term'[Arch].end = term[Arch].end
  <2>1. handler'[Arch].step \in {"dispatch", "delivered"} /\ IsStop(Arch, 1)'
    BY <1>5, <1>7 DEF AfterStop
  <2>2. ~Answers(Arch)
    BY <2>1, Constants DEF Answers
  <2>3. hooks'[Arch] = hooks[Arch] /\ IsStop(Arch, 1)
    BY <1>1, <1>3, <2>1, <2>2 DEF SameHooks, MovesOn, IsStop, SameSession
  <2>4. handler[Arch].step \notin {"dispatch", "delivered"}
    BY <1>1, <1>5, <1>7, <2>3 DEF AfterStop
  <2>5. MovesOn(Arch) /\ hooks[Arch] # <<>>
    BY <1>1, <1>3, <2>1, <2>2, <2>4 DEF SameHooks, MovesOn, RoleOK, Handled
  <2>6. Attended
    BY <2>1, <2>4, <2>5 DEF MovesOn
  <2>7. Hook(Arch).id = term[Arch].id
    BY <1>1, <2>3, <2>5, FirstHook DEF IsStop
  <2>. QED
    BY <1>1, <1>7, <2>6, <2>7 DEF Attended
<1>. QED
  BY <1>3, <1>6, <1>7

LEMMA NoticedStays ==
  ASSUME SInv, SInv', Planned, Moved, Plans, Speech(Arch), Speech(Arch)', Noticed
  PROVE  Noticed'
<1>. SUFFICES ASSUME AfterStop', Due'
              PROVE  FALSE
  BY DEF Noticed
<1>1. pending' = pending /\ PlanningFree
  BY DueBefore
<1>2. /\ Typed /\ RoleOK(Arch) /\ Arch \in Roles /\ agent'[Arch] # "off"
  BY Constants DEF SInv, AfterStop
<1>3. /\ pending.status = "pending" /\ Met(pending) /\ IsSource(pending, record'[Arch])
      /\ ~record'[Arch].busy
  BY <1>1 DEF Due, Met, IsSource
<1>4. ASSUME record'[Arch] = record[Arch] PROVE ~AfterStop
  BY <1>1, <1>3, <1>4 DEF Due, Noticed
<1>5. ASSUME record'[Arch] = record[Arch], agent'[Arch] = agent[Arch], term'[Arch] = term[Arch],
             hooks'[Arch] = hooks[Arch], handler'[Arch] = handler[Arch]
      PROVE  FALSE
  BY <1>4, <1>5 DEF AfterStop, IsStop
<1>6. CASE Calm
  BY <1>1, <1>6, CalmNoticed
<1>7. ~Crashed
  BY <1>2 DEF Crashed
<1>8. ASSUME NEW q \in Roles, Recorded(q) PROVE FALSE
  <2>1. CASE q # Arch
    BY <1>2, <1>5, <1>8, <2>1 DEF Recorded
  <2>2. CASE q = Arch
    <3>1. /\ handler'[Arch].step = "store" /\ agent[Arch] = agent'[Arch] /\ term' = term
          /\ hooks[Arch] # <<>>
      BY <1>8, <2>2 DEF Recorded
    <3>. QED
      BY <3>1 DEF AfterStop, Speech, Waits
  <2>. QED
    BY <2>1, <2>2
<1>9. ASSUME NEW q \in Roles, Filed(q) PROVE FALSE
  <2>1. CASE q # Arch
    BY <1>2, <1>5, <1>9, <2>1 DEF Filed
  <2>2. CASE q = Arch
    <3>1. /\ agent' = agent /\ term' = term /\ hooks' = hooks /\ record' = record
          /\ hooks[Arch] # <<>>
          /\ handler'[Arch].step \in {"dispatch", "delivered"} => Hook(Arch).kind # "stop"
      BY <1>9, <2>2 DEF Filed
    <3>2. ~(agent[Arch] = "ready" /\ term[Arch].end = "stop")
      BY <1>4, <3>1 DEF AfterStop
    <3>3. handler'[Arch].step \in {"dispatch", "delivered"} /\ IsStop(Arch, 1)
      BY <3>1, <3>2 DEF AfterStop, IsStop
    <3>. QED
      BY <1>2, <3>1, <3>3, FirstHook DEF IsStop
  <2>. QED
    BY <2>1, <2>2
<1>10. ASSUME NEW q \in Roles, NEW kind \in {"prompt", "stop", "failure"}, Speaks(q, kind)
       PROVE  FALSE
  <2>1. CASE q # Arch
    BY <1>2, <1>5, <1>10, <2>1 DEF Speaks
  <2>2. CASE q = Arch
    <3>1. /\ handler' = handler /\ record' = record
          /\ agent[Arch] = (IF kind = "prompt" THEN "ready" ELSE "working")
          /\ agent'[Arch] = (IF kind = "prompt" THEN "working"
                             ELSE IF kind = "stop" THEN "stopping" ELSE "ready")
          /\ term'[Arch].id = term[Arch].id
          /\ term'[Arch].end = (IF kind = "prompt" THEN "none" ELSE kind)
          /\ \A i \in 1..Len(hooks[Arch]) : hooks'[Arch][i] = hooks[Arch][i]
      BY <1>10, <2>2 DEF Speaks
    <3>2. handler[Arch].step \in {"dispatch", "delivered"} /\ IsStop(Arch, 1)'
      BY <3>1 DEF AfterStop
    <3>3. hooks[Arch] # <<>>
      BY <1>2, <3>2 DEF RoleOK, Handled
    <3>4. 1 \in 1..Len(hooks[Arch])
      BY <1>2, <3>3, FirstHook
    <3>5. IsStop(Arch, 1)
      BY <3>1, <3>2, <3>4 DEF IsStop
    <3>. QED
      BY <3>1, <3>4, <3>5 DEF Speech, Waits
  <2>. QED
    BY <2>1, <2>2
<1>11. ASSUME NEW c \in Callers, NEW q \in Roles, Stopped(c, q) PROVE FALSE
  BY <1>2, <1>5, <1>11 DEF Stopped
<1>12. ASSUME NEW c \in Callers, NEW q \in Roles, Exited(c, q) PROVE FALSE
  <2>1. CASE q # Arch
    BY <1>2, <1>5, <1>12, <2>1 DEF Exited
  <2>2. CASE q = Arch
    <3>1. job[c].step = "exited" /\ Arch = job[c].role /\ agent'[Arch] = agent[Arch]
      BY <1>12, <2>2 DEF Exited
    <3>2. Carries(c, Arch)
      BY <3>1 DEF SInv, JobOK, InHand
    <3>. QED
      BY <1>2, <3>1, <3>2 DEF Carries
  <2>. QED
    BY <2>1, <2>2
<1>13. ASSUME NEW c \in Callers, NEW q \in Roles, Kept(c, q) PROVE FALSE
  BY <1>2, <1>5, <1>13 DEF Kept
<1>14. ASSUME NEW c \in Callers, NEW q \in Roles, Launched(c, q) PROVE FALSE
  <2>1. CASE q # Arch
    BY <1>2, <1>5, <1>14, <2>1 DEF Launched
  <2>2. CASE q = Arch
    <3>1. /\ agent'[Arch] = "ready" /\ term'[Arch].end = "none" /\ hooks' = hooks /\ handler' = handler
      BY <1>14, <2>2 DEF Launched
    <3>2. handler[Arch].step \in {"dispatch", "delivered"} /\ IsStop(Arch, 1)'
      BY <3>1 DEF AfterStop
    <3>3. hooks[Arch] # <<>>
      BY <1>2, <3>2 DEF RoleOK, Handled
    <3>4. 1 \in 1..Len(hooks'[Arch])
      BY <1>2, <3>1, <3>3, FirstHook
    <3>. QED
      BY <3>1, <3>2, <3>4 DEF Speech, Waits
  <2>. QED
    BY <2>1, <2>2
<1>. QED
  BY <1>6, <1>7, <1>8, <1>9, <1>10, <1>11, <1>12, <1>13, <1>14 DEF Moved

LEMMA StartsNoticed ==
  Init => Speech(Arch) /\ Noticed
<1>. SUFFICES ASSUME Init PROVE Speech(Arch) /\ Noticed
  OBVIOUS
<1>. DEFINE T == [id |-> 1, convo |-> 1, taken |-> {}, origin |-> "start", end |-> "none"]
            R == [id |-> 1, convo |-> 0, token |-> TRUE, busy |-> FALSE]
<1>1. /\ term = [r \in Roles |-> T] /\ record = [r \in Roles |-> R]
      /\ agent = [r \in Roles |-> "ready"] /\ hooks = [r \in Roles |-> <<>>]
      /\ file = [r \in Roles |-> NotStored] /\ pending = NoPending
  BY DEF Init, Nobody
<1>2. T.convo = 1 /\ T.id = 1 /\ T.end = "none" /\ R.convo = 0
  OBVIOUS
<1>. HIDE DEF T, R
<1>3. /\ term[Arch].convo = 1 /\ term[Arch].id = 1 /\ term[Arch].end = "none" /\ record[Arch].convo = 0
      /\ agent[Arch] = "ready" /\ hooks[Arch] = <<>> /\ file[Arch].id = 0 /\ file[Arch].convo = 0
  BY <1>1, <1>2, Constants
<1>4. Len(hooks[Arch]) = 0
  BY <1>3
<1>5. 1..Len(hooks[Arch]) = {}
  BY <1>4
<1>6. ~Due
  BY <1>1, Constants DEF Due
<1>. QED
  BY <1>3, <1>5, <1>6 DEF Speech, Talks, Waits, Noticed

\* Whichever of Stop, delivery, acceptance and Gate comes last, it finds the
\* others on record and the Architect at rest: no interleaving of hook
\* handlers, dispatches, Gate decisions and crashes leaves an Architect that
\* stopped normally with a restart that has everything and was not set off.
THEOREM RestartsAreNoticed == ASSUME ~Overlaps PROVE Spec => []NoForgottenRestart
<1>. DEFINE I == SInv /\ Planned /\ Speech(Arch) /\ Noticed
<1>1. Init => I
  BY StartsConsistent, StartsPlanned, StartsNoticed
<1>2. I /\ [Next]_vars => I'
  <2>. SUFFICES ASSUME I, [Next]_vars PROVE I'
    OBVIOUS
  <2>1. Moved /\ Plans
    BY Steps, PlanSteps
  <2>2. SInv' /\ Planned'
    BY <2>1, SessionsStay, PlanStays
  <2>3. Speech(Arch)'
    BY <2>1, SpeechStays, Constants
  <2>. QED
    BY <2>1, <2>2, <2>3, NoticedStays
<1>3. I => NoForgottenRestart
  BY DEF NoForgottenRestart, Noticed, AfterStop, Due
<1>. QED
  BY <1>1, <1>2, <1>3, PTL DEF Spec
=============================================================================
