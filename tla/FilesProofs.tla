----------------------------- MODULE FilesProofs -----------------------------
(***************************************************************************)
(* Proofs about the components that live in files: the two files that keep *)
(* a task's workflow (WorkflowJournal), the Harness installed in its       *)
(* worktree (HarnessFiles) and the managed artifacts (ArtifactChecks).     *)
(***************************************************************************)
EXTENDS WorkflowJournal, HarnessFiles, ArtifactChecks, TLAPS, WellFoundedInduction,
        SequenceTheorems

-----------------------------------------------------------------------------
(***************************************************************************)
(* The journalled pair of files, when every access to the workflow state   *)
(* holds the workflow lock (Readers = {}): for any number of updates, with *)
(* or without failing calls and crashes, the pair is never torn and the    *)
(* two files implement WorkflowStore.                                      *)
(***************************************************************************)

(* What the lock holder knows at each step.  From the replay of a pending  *)
(* record, or its writing, to its mark, the copy in memory IS the record,  *)
(* and the files written so far come from it; once the record is dealt     *)
(* with, it is pending no more, and an update starts from what is on disk. *)
HoldsRecord ==
  phase[Op] \in {"replayProgress", "replayState", "replayMark", "progress", "state", "mark"}
    => journal.status = "pending" /\ copy[Op] = journal
ProgressWritten ==
  phase[Op] \in {"replayState", "state", "replayMark", "mark"} => progress = copy[Op].progress
StateWritten ==
  phase[Op] \in {"replayMark", "mark"} => wstate = copy[Op].wstate
RecordDone ==
  phase[Op] \in {"read", "begin", "replayRemove", "remove"} => journal.status # "pending"
ReadFromDisk ==
  phase[Op] = "begin" => copy[Op].wstate = wstate

JournalInv == /\ TypeOK
        /\ PairNeverTorn
        /\ HoldsRecord
        /\ ProgressWritten
        /\ StateWritten
        /\ RecordDone
        /\ ReadFromDisk

LEMMA JournalInitInv == JournalInit => JournalInv
BY DEF JournalInit, JournalInv, TypeOK, PairNeverTorn, HoldsRecord, ProgressWritten, StateWritten,
       RecordDone, ReadFromDisk, VisibleDoc, VisibleRt, NoRecord, NoStamp, Procs, Phases,
       ReplayPhases, CommitPhases, Record, Store!Stamp

LEMMA JournalStepInv == ASSUME Readers = {}, JournalInv, [JournalNext]_journalVars PROVE JournalInv'
<1> USE DEF NoRecord, NoStamp, Procs, Phases, ReplayPhases, CommitPhases, Record, Store!Stamp,
            VisibleDoc, VisibleRt, Goto, AfterReplay, Committed
<1> USE DEF JournalInv, TypeOK, PairNeverTorn, HoldsRecord, ProgressWritten, StateWritten,
            RecordDone, ReadFromDisk
<1> Procs = {Op}
  OBVIOUS
<1>1. CASE Call(Op)  BY <1>1 DEF Call
<1>2. CASE Look(Op)  BY <1>2 DEF Look
<1>3. CASE Load(Op)  BY <1>3 DEF Load
<1>4. CASE ReplayProgress(Op)  BY <1>4 DEF ReplayProgress
<1>5. CASE ReplayState(Op)  BY <1>5 DEF ReplayState
<1>6. CASE ReplayMark(Op)  BY <1>6 DEF ReplayMark
<1>7. CASE ReplayRemove(Op)  BY <1>7 DEF ReplayRemove
<1>8. CASE ReadFiles  BY <1>8 DEF ReadFiles
<1>9. CASE WriteJournal  BY <1>9 DEF WriteJournal, Store!PairedStamp
<1>10. CASE WriteProgress  BY <1>10 DEF WriteProgress
<1>11. CASE WriteState  BY <1>11 DEF WriteState
<1>12. CASE MarkCommitted  BY <1>12 DEF MarkCommitted
<1>13. CASE RemoveJournal  BY <1>13 DEF RemoveJournal
<1>14. CASE SaveAlone  BY <1>14 DEF SaveAlone, Store!SavedStamp
<1>15. CASE GiveUp(Op)  BY <1>15 DEF GiveUp
<1>16. CASE Crash  BY <1>16 DEF Crash
<1>17. CASE UNCHANGED journalVars  BY <1>17 DEF journalVars
<1>. QED
  BY <1>1, <1>2, <1>3, <1>4, <1>5, <1>6, <1>7, <1>8, <1>9, <1>10, <1>11, <1>12, <1>13,
     <1>14, <1>15, <1>16, <1>17 DEF JournalNext, Replay, Commit
-----------------------------------------------------------------------------
(* The strengthened invariant holds of every behaviour.                    *)
LEMMA JournalInductive == ASSUME Readers = {} PROVE JournalSpec => []JournalInv
<1>1. JournalInit => JournalInv
  BY JournalInitInv
<1>2. JournalInv /\ [JournalNext]_journalVars => JournalInv'
  BY JournalStepInv
<1>. QED
  BY <1>1, <1>2, PTL DEF JournalSpec

(* The pair of workflow files a read would return always comes from one    *)
(* paired update (commitStateAndProgress, recoverCommitJournal).           *)
THEOREM PairIsNeverTorn == ASSUME Readers = {} PROVE JournalSpec => []PairNeverTorn
<1>1. JournalInv => PairNeverTorn
  BY DEF JournalInv
<1>. QED
  BY <1>1, JournalInductive, PTL

(* A request computes its update only from two files that agree, with no   *)
(* interrupted commit left behind (getState, recoverCommitJournal).        *)
THEOREM ReplayPrecedesUse == ASSUME Readers = {} PROVE JournalSpec => []ReplayedBeforeUse
<1>1. JournalInv => ReplayedBeforeUse
  BY DEF JournalInv, PairNeverTorn, RecordDone, ReplayedBeforeUse, VisibleDoc, VisibleRt
<1>. QED
  BY <1>1, JournalInductive, PTL

LEMMA StoreStep ==
  ASSUME Readers = {}, JournalInv, [JournalNext]_journalVars
  PROVE  [Store!StoreNext]_(Store!storeVars)
<1> USE DEF NoRecord, NoStamp, Record, VisibleDoc, VisibleRt, Committed, Goto, Store!storeVars,
            JournalInv, TypeOK, PairNeverTorn, HoldsRecord, ProgressWritten, StateWritten,
            RecordDone, ReadFromDisk
<1> Procs = {Op}
  BY DEF Procs
<1>1. CASE \/ Call(Op) \/ Look(Op) \/ Load(Op) \/ ReadFiles \/ GiveUp(Op)
           \/ Crash \/ UNCHANGED journalVars
  <2>. UNCHANGED <<progress, wstate, journal>>
    BY <1>1 DEF Call, Look, Load, ReadFiles, GiveUp, Crash, journalVars
  <2>. QED
    OBVIOUS
<1>2. CASE ReplayProgress(Op) \/ ReplayState(Op) \/ WriteProgress \/ WriteState
  BY <1>2 DEF ReplayProgress, ReplayState, WriteProgress, WriteState
<1>3. CASE ReplayMark(Op) \/ MarkCommitted
  BY <1>3 DEF ReplayMark, MarkCommitted
<1>4. CASE ReplayRemove(Op) \/ RemoveJournal
  BY <1>4 DEF ReplayRemove, RemoveJournal
<1>5. CASE WriteJournal
  <2>1. Store!UpdateBoth
    BY <1>5 DEF WriteJournal, Store!UpdateBoth, Store!PairedStamp
  <2>. QED
    BY <2>1 DEF Store!StoreNext
<1>6. CASE SaveAlone
  <2>1. Store!UpdateState
    BY <1>6 DEF SaveAlone, Store!UpdateState, Store!SavedStamp
  <2>. QED
    BY <2>1 DEF Store!StoreNext
<1>. QED
  BY <1>1, <1>2, <1>3, <1>4, <1>5, <1>6 DEF JournalNext, Replay, Commit

(* The two files and their write-ahead record behave as the one record of  *)
(* WorkflowStore.                                                          *)
THEOREM JournalImplementsStore == ASSUME Readers = {} PROVE JournalSpec => ImplementsStore
<1>1. JournalInit => Store!StoreInit
  BY DEF JournalInit, Store!StoreInit, VisibleDoc, VisibleRt, NoRecord, NoStamp
<1>2. JournalInv /\ [JournalNext]_journalVars => [Store!StoreNext]_(Store!storeVars)
  BY StoreStep
<1>. QED
  BY <1>1, <1>2, JournalInductive, PTL DEF JournalSpec, ImplementsStore, Store!StoreSpec
-----------------------------------------------------------------------------
(***************************************************************************)
(* The installed Harness: who hears of new rules.                          *)
(***************************************************************************)
Operations == {"none", "install", "finish", "commit"}
HarnessTyped ==
  /\ revision \in Nat
  /\ role \in [on : BOOLEAN, rev : Nat, missed : BOOLEAN]
  /\ operation \in [kind : Operations, at : Nat, changed : SUBSET Files, fresh : BOOLEAN]
  /\ operation.kind = "install" => operation.at \in 1..Len(Order)
  /\ bootstrap \in [status : {"none", "running", "complete"}, session : Nat]
  /\ engineer \in [session : Nat, on : BOOLEAN, turn : {"idle", "bootstrap", "other"},
                   asked : BOOLEAN]
  /\ halfway \in BOOLEAN

(* Without a run asked for in the middle of a turn, the engineer works on  *)
(* a bootstrap, or has been asked for one, only while its run is on record.*)
RunIsOnRecord ==
  engineer.asked \/ engineer.turn = "bootstrap" =>
    bootstrap.status = "running" /\ bootstrap.session = engineer.session
AskedWaits == engineer.asked => engineer.turn = "idle"

(* A role that missed a change of its rules is already outdated, or what   *)
(* changed them is not over: the operation still has its revision to       *)
(* write, or the engineer's Stop has; unless something was cut off.        *)
ToBeTold ==
  role.on /\ role.missed /\ ~halfway =>
    \/ Outdated
    \/ operation.kind \in {"install", "finish"} /\ operation.changed # {}
    \/ engineer.turn = "bootstrap"

TellInv == HarnessTyped /\ RunIsOnRecord /\ AskedWaits /\ role.rev <= revision /\ ToBeTold

LEMMA OrderIsASequence == Len(Order) \in Nat /\ Len(Order) >= 1
BY DEF Order

LEMMA IdleIsTyped ==
  /\ Idle \in [kind : Operations, at : Nat, changed : SUBSET Files, fresh : BOOLEAN]
  /\ Idle.kind = "none" /\ Idle.changed = {}
BY DEF Idle, Operations

LEMMA TellInit == HarnessInit => TellInv
<1>. SUFFICES ASSUME HarnessInit PROVE TellInv
  OBVIOUS
<1>1. /\ revision = 0 /\ role = [on |-> FALSE, rev |-> 0, missed |-> FALSE] /\ operation = Idle
      /\ bootstrap = NoRun /\ halfway = FALSE
      /\ engineer = [session |-> 0, on |-> FALSE, turn |-> "idle", asked |-> FALSE]
  BY DEF HarnessInit
<1>2. /\ role \in [on : BOOLEAN, rev : Nat, missed : BOOLEAN] /\ role.rev = 0 /\ ~role.on
  BY <1>1
<1>3. /\ engineer \in [session : Nat, on : BOOLEAN, turn : {"idle", "bootstrap", "other"},
                       asked : BOOLEAN]
      /\ engineer.turn = "idle" /\ ~engineer.asked
  BY <1>1
<1>4. bootstrap \in [status : {"none", "running", "complete"}, session : Nat]
  BY <1>1 DEF NoRun
<1>5. HarnessTyped
  BY <1>1, <1>2, <1>3, <1>4, IdleIsTyped DEF HarnessTyped
<1>. QED
  BY <1>1, <1>2, <1>3, <1>5 DEF TellInv, RunIsOnRecord, AskedWaits, ToBeTold

(* Steps that leave alone what ToBeTold speaks of. *)
LEMMA TellQuiet ==
  ASSUME TellInv, UNCHANGED <<revision, role, bootstrap, engineer, halfway>>,
         \/ UNCHANGED operation
         \/ operation' = [operation EXCEPT !.fresh = FALSE]
         \/ operation.kind \notin {"install", "finish"} /\ operation' = Idle
  PROVE  TellInv'
BY IdleIsTyped DEF TellInv, HarnessTyped, RunIsOnRecord, AskedWaits, ToBeTold, Outdated

LEMMA TellOperation ==
  ASSUME TellInv,
         \/ BeginApply \/ InstallFile \/ InstallFails \/ (\E f \in Files : EditInStudio(f))
         \/ Bump \/ BumpFails \/ CommitHarness
  PROVE  TellInv'
<1>. USE DEF TellInv, HarnessTyped, RunIsOnRecord, AskedWaits, ToBeTold, Outdated
<1>1. CASE BeginApply
  <2>1. /\ operation' = [Idle EXCEPT !.kind = "install", !.at = 1, !.fresh = TRUE]
        /\ UNCHANGED <<revision, role, bootstrap, engineer, halfway>> /\ operation.kind = "none"
    BY <1>1 DEF BeginApply, Quiet
  <2>2. /\ operation' \in [kind : Operations, at : Nat, changed : SUBSET Files, fresh : BOOLEAN]
        /\ operation'.at = 1
    BY <2>1, IdleIsTyped DEF Operations
  <2>. QED
    BY <2>1, <2>2, OrderIsASequence
<1>2. CASE InstallFile
  <2>. DEFINE f == Order[operation.at]
  <2>. DEFINE changed == IF Installed(f, operation.changed) = files THEN {} ELSE {f}
  <2>1. /\ operation.kind = "install" /\ UNCHANGED <<revision, bootstrap, engineer, halfway>>
        /\ operation' = [Step EXCEPT !.changed = @ \union changed] /\ Misses(changed # {})
    BY <1>2 DEF InstallFile
  <2>2. changed \in SUBSET Files
    BY <2>1 DEF Files
  <2>. HIDE DEF changed
  <2>3. /\ Step \in [kind : Operations, at : Nat, changed : SUBSET Files, fresh : BOOLEAN]
        /\ Step.kind \in {"install", "finish"} /\ Step.changed = operation.changed
        /\ Step.kind = "install" => Step.at \in 1..Len(Order)
    BY <2>1, OrderIsASequence DEF Step, Operations
  <2>4. /\ operation' \in [kind : Operations, at : Nat, changed : SUBSET Files, fresh : BOOLEAN]
        /\ operation'.kind = Step.kind /\ operation'.at = Step.at
        /\ operation'.changed = operation.changed \union changed
    BY <2>1, <2>2, <2>3
  <2>5. /\ role' \in [on : BOOLEAN, rev : Nat, missed : BOOLEAN]
        /\ role'.on = role.on /\ role'.rev = role.rev
        /\ role'.missed => role.missed \/ changed # {}
    BY <2>1 DEF Misses
  <2>. QED
    BY <2>1, <2>3, <2>4, <2>5
<1>3. CASE InstallFails
  BY <1>3, IdleIsTyped DEF InstallFails, GivesUp
<1>4. ASSUME NEW f \in Files, EditInStudio(f) PROVE TellInv'
  <2>1. /\ operation' = [Idle EXCEPT !.kind = "finish", !.changed = {f}] /\ Misses(TRUE)
        /\ UNCHANGED <<revision, bootstrap, engineer, halfway>>
    BY <1>4 DEF EditInStudio
  <2>2. /\ operation' \in [kind : Operations, at : Nat, changed : SUBSET Files, fresh : BOOLEAN]
        /\ operation'.kind = "finish" /\ operation'.changed = {f}
    BY <2>1, IdleIsTyped DEF Operations
  <2>3. role' \in [on : BOOLEAN, rev : Nat, missed : BOOLEAN] /\ role'.rev = role.rev
    BY <2>1 DEF Misses
  <2>. QED
    BY <2>1, <2>2, <2>3
<1>5. CASE Bump
  BY <1>5 DEF Bump, Bumps, Operations
<1>6. CASE BumpFails
  BY <1>6, IdleIsTyped DEF BumpFails, GivesUp
<1>7. CASE CommitHarness
  <2>1. operation' \in {Idle, [Idle EXCEPT !.fresh = operation.fresh]}
    BY <1>7 DEF CommitHarness
  <2>2. /\ operation' \in [kind : Operations, at : Nat, changed : SUBSET Files, fresh : BOOLEAN]
        /\ operation'.kind = "none"
    BY <2>1, IdleIsTyped
  <2>. QED
    BY <1>7, <2>2 DEF CommitHarness
<1>. QED
  BY <1>1, <1>2, <1>3, <1>4, <1>5, <1>6, <1>7

LEMMA TellRole ==
  ASSUME TellInv, RoleStarts \/ RoleStops \/ NotifyRole
  PROVE  TellInv'
<1>0. /\ role \in [on : BOOLEAN, rev : Nat, missed : BOOLEAN] /\ revision \in Nat
      /\ role.rev <= revision
  BY DEF TellInv, HarnessTyped
<1>1. /\ role' \in [on : BOOLEAN, rev : Nat, missed : BOOLEAN]
      /\ role'.rev <= revision /\ ~role'.missed
  <2>1. CASE role' = [on |-> TRUE, rev |-> revision, missed |-> FALSE]
    BY <1>0, <2>1
  <2>2. CASE role' = [role EXCEPT !.on = FALSE, !.missed = FALSE]
    BY <1>0, <2>2
  <2>3. CASE role' = [role EXCEPT !.rev = revision, !.missed = FALSE]
    <3>. DEFINE told == [role EXCEPT !.rev = revision]
    <3>1. told \in [on : BOOLEAN, rev : Nat, missed : BOOLEAN] /\ told.rev = revision
      BY <1>0
    <3>2. role' = [told EXCEPT !.missed = FALSE]
      BY <2>3
    <3>. HIDE DEF told
    <3>3. role' \in [on : BOOLEAN, rev : Nat, missed : BOOLEAN]
      BY <3>1, <3>2
    <3>4. role'.rev = revision
      BY <3>1, <3>2
    <3>5. role'.missed = FALSE
      BY <3>1, <3>2
    <3>. QED
      BY <1>0, <3>3, <3>4, <3>5
  <2>. QED
    BY <2>1, <2>2, <2>3 DEF RoleStarts, RoleStops, NotifyRole
<1>2. UNCHANGED <<revision, operation, bootstrap, engineer, halfway>>
  BY DEF RoleStarts, RoleStops, NotifyRole
<1>. QED
  BY <1>1, <1>2 DEF TellInv, HarnessTyped, RunIsOnRecord, AskedWaits, ToBeTold

LEMMA TellEngineer ==
  ASSUME ~Interrupted, TellInv,
         \/ StartEngineer \/ RunBootstrap \/ PromptArrives \/ OtherTurn \/ EngineerWorks
         \/ EngineerStops \/ StopBootstrap \/ EngineerExits
  PROVE  TellInv'
<1>. USE DEF TellInv, HarnessTyped, RunIsOnRecord, AskedWaits, ToBeTold, Outdated
<1>1. CASE StartEngineer
  BY <1>1 DEF StartEngineer
<1>2. CASE RunBootstrap
  BY <1>2 DEF RunBootstrap
<1>3. CASE PromptArrives
  BY <1>3 DEF PromptArrives
<1>4. CASE OtherTurn
  BY <1>4 DEF OtherTurn
<1>5. CASE EngineerWorks
  BY <1>5 DEF EngineerWorks, Misses
<1>6. CASE EngineerStops
  BY <1>6 DEF EngineerStops
<1>7. CASE StopBootstrap
  BY <1>7 DEF StopBootstrap, CutOff, NoRun
<1>8. CASE EngineerExits
  BY <1>8 DEF EngineerExits, CutOff
<1>. QED
  BY <1>1, <1>2, <1>3, <1>4, <1>5, <1>6, <1>7, <1>8

(* For any plan, with every failure and exit, and with the engineer asked  *)
(* for a run only between its turns: a running role whose rules VCM has    *)
(* changed is offered the refresh, unless an operation was cut off.        *)
THEOREM UpdatesReachRoles ==
  ASSUME ~Interrupted
  PROVE  HarnessSpec => []NobodyMissesAnUpdate
<1>1. TellInv /\ [HarnessNext]_harnessVars => TellInv'
  <2>. SUFFICES ASSUME TellInv, [HarnessNext]_harnessVars PROVE TellInv'
    OBVIOUS
  <2>1. CASE CommitByHand \/ EditProduct \/ UNCHANGED harnessVars
    BY <2>1, TellQuiet DEF CommitByHand, EditProduct, harnessVars
  <2>2. CASE Upgrade
    BY <2>2, TellQuiet DEF Upgrade, Quiet
  <2>3. ASSUME NEW f \in Files, Edit(f) PROVE TellInv'
    BY <2>3, TellQuiet DEF Edit
  <2>. QED
    BY <2>1, <2>2, <2>3, TellOperation, TellRole, TellEngineer DEF HarnessNext
<1>2. TellInv => NobodyMissesAnUpdate
  BY DEF TellInv, RunIsOnRecord, ToBeTold, NobodyMissesAnUpdate, Quiet, HarnessTyped
<1>. QED
  BY <1>1, <1>2, TellInit, PTL DEF HarnessSpec
-----------------------------------------------------------------------------
(***************************************************************************)
(* The managed artifacts: three readers of one file.                       *)
(***************************************************************************)
Copies == {"handoff", "assignment"}
(* What is in a handoff and how it came about.                             *)
CheckedInv ==
  /\ artifact \in Kinds \cup {"none"}
  /\ stored \in [Copies -> {Template(artifact)} \cup Documents[artifact]]
  /\ accepted \in [Copies -> {"template", "draft", "final"}]
  /\ accepted["handoff"] = "template" => stored["handoff"] = Template(artifact)
  /\ accepted["handoff"] # "template" =>
       /\ stored["handoff"] \in Documents[artifact]
       /\ Passes(stored["handoff"], accepted["handoff"])

LEMMA CheckedStep == ASSUME CheckedInv, [ArtifactNext]_artifactVars PROVE CheckedInv'
<1>1. ASSUME NEW who \in Roles, NEW mode \in {"draft", "final"},
             NEW path \in {"none", "assigned", "planning"}, Submit(who, mode, path)
      PROVE  CheckedInv'
  <2>1. PICK d \in Documents[artifact] :
          Passes(d, mode) /\ stored' = [stored EXCEPT ![Place(who)] = d]
    BY <1>1 DEF Submit
  <2>2. accepted' = [accepted EXCEPT ![Place(who)] = mode] /\ artifact' = artifact
    BY <1>1 DEF Submit
  <2>3. Place(who) \in Copies
    BY DEF Place, Copies
  <2>4. Template(artifact)' = Template(artifact) /\ (Documents[artifact])' = Documents[artifact]
    BY <2>2
  <2>. DEFINE place == Place(who)
  <2>. DEFINE Any == {Template(artifact)} \cup Documents[artifact]
  <2>5. stored \in [Copies -> Any] /\ d \in Any /\ place \in Copies
    BY <2>1, <2>3 DEF CheckedInv
  <2>. HIDE DEF Any, place
  <2>6. stored' = [stored EXCEPT ![place] = d] /\ accepted' = [accepted EXCEPT ![place] = mode]
    BY <2>1, <2>2 DEF place
  <2>7. stored' \in [Copies -> Any]
    BY <2>5, <2>6
  <2>8. accepted' \in [Copies -> {"template", "draft", "final"}]
    BY <2>5, <2>6 DEF CheckedInv
  <2>9. CASE place = "handoff"
    <3>1. stored'["handoff"] = d /\ accepted'["handoff"] = mode
      BY <2>5, <2>6, <2>9 DEF CheckedInv, Copies
    <3>. QED
      BY <2>1, <2>2, <2>4, <2>7, <2>8, <3>1 DEF CheckedInv, Any
  <2>10. CASE place # "handoff"
    <3>1. stored'["handoff"] = stored["handoff"] /\ accepted'["handoff"] = accepted["handoff"]
      BY <2>5, <2>6, <2>10 DEF CheckedInv, Copies
    <3>. QED
      BY <2>2, <2>4, <2>7, <2>8, <3>1 DEF CheckedInv, Any
  <2>. QED
    BY <2>9, <2>10
<1>2. CASE UNCHANGED artifactVars
  BY <1>2 DEF artifactVars, CheckedInv
<1>. QED
  BY <1>1, <1>2 DEF ArtifactNext

(* What a document that passed as final says, by kind.                     *)
LEMMA FinalReport ==
  ASSUME NEW d, d.kind = "test", Passes(d, "final"), d.form \in {"plain", "bulleted"}
  PROVE  /\ d.form = "plain" /\ d.text["status"] \in {"pass", "fail"}
         /\ d.text["infra"] \in {"none", "repair-required", "repaired", "production-change-required"}
         /\ IsSaid(d, "gaps") => d.text["status"] = "fail" /\ IsSaid(d, "approval")
         /\ IsOk(d)
<1>1. InfrastructureHolds(d) /\ ResultHolds(d, "final") /\ GapsHold(d) /\ IsOk(d)
  BY DEF Passes, FieldsHold, IsOk
<1>2. d.form = "plain"
  BY <1>1 DEF InfrastructureHolds, Checked
<1>3. \A field \in {"status", "infra"} : Checked(d, field) = d.text[field]
  BY <1>2 DEF Checked
<1>4. d.text["infra"] \in {"none", "repair-required", "repaired", "production-change-required"}
  BY <1>1, <1>3 DEF InfrastructureHolds
<1>5. d.text["status"] \in {"pass", "fail"}
  BY <1>1, <1>3 DEF ResultHolds
<1>. QED
  BY <1>1, <1>2, <1>3, <1>4, <1>5 DEF GapsHold

LEMMA FinalStatus ==
  ASSUME NEW d, d.kind \in {"brief", "evidence", "plan", "coder", "debug"}, Passes(d, "final"),
         d.form \in {"plain", "bulleted"}
  PROVE  d.form = "plain" /\ d.text["status"] \in Final[d.kind]
<1>1. d.kind \in DOMAIN Allowed
  BY DEF Allowed
<1>2. Checked(d, "status") \in Final[d.kind]
  BY <1>1 DEF Passes, FieldsHold, LifecycleHolds
<1>. QED
  BY <1>2 DEF Checked, Final

LEMMA Documented ==
  ASSUME NEW kind \in Kinds, NEW d \in Documents[kind]
  PROVE  d.kind = kind /\ d.form \in FieldForms
<1>1. Documents[kind] = {c \in [kind : {kind}, text : Texts(kind), form : FieldForms, flaw : Flaws] :
                           kind = "test" /\ c.flaw # "none" => c.text \in WholeReports}
  BY Zenon DEF Documents
<1>. QED
  BY <1>1

(* What Workflow Control takes from a fix report, disposition by           *)
(* disposition.                                                            *)
LEMMA FixDecides ==
  ASSUME NEW d
  PROVE  /\ d.text["disposition"] = "normal architecture plan required" => FixValue(d) = "normal plan"
         /\ d.text["disposition"] = "analysis completed" => FixValue(d) = "analysis"
         /\ d.text["disposition"] = "user clarification required" => FixValue(d) = "clarification"
         /\ IsOk(d) /\ d.text["disposition"] \in {"local fix completed", "diagnosis implementation completed"} =>
              FixValue(d) = "fixed"
         /\ ~IsOk(d) /\ d.text["disposition"] = "options" => FixValue(d) = "missing"
  BY Zenon DEF FixValue

LEMMA AcceptanceDecides ==
  ASSUME NEW d
  PROVE  /\ ~IsOk(d) /\ d.text["decision"] = "options" => AcceptanceValue(d) = "missing"
         /\ IsOk(d) => AcceptanceValue(d) \in {"needs coder", "needs docs sync", "needs architect",
                                               "blocked", "accepted"}
  BY Zenon DEF AcceptanceValue

LEMMA TestDecides ==
  ASSUME NEW d, d.form = "plain", d.text["status"] \in {"pass", "fail"}, IsOk(d)
  PROVE  /\ d.text["infra"] = "repair-required" => TestValue(d) = "repair"
         /\ d.text["infra"] = "production-change-required" => TestValue(d) = "production change"
         /\ d.text["infra"] \in {"none", "repaired"} =>
              TestValue(d) = IF d.text["status"] = "pass" THEN "pass"
                             ELSE IF IsSaid(d, "gaps") /\ IsSaid(d, "approval") THEN "accepted gap"
                             ELSE "fail"
<1>. DEFINE infra == d.text["infra"]  result == d.text["status"]
<1>1. WorkflowReads(d, "infra") = infra /\ WorkflowReads(d, "status") = result
  BY Zenon DEF WorkflowReads
<1>2. TestValue(d) =
        CASE result = "incomplete" -> "incomplete"
          [] result # "incomplete" /\ infra = "repair-required" -> "repair"
          [] result # "incomplete" /\ infra = "production-change-required" -> "production change"
          [] result \notin {"incomplete", "fail"} /\ infra \notin Repairs -> "pass"
          [] result = "fail" /\ infra \notin Repairs ->
               IF IsOk(d) /\ IsSaid(d, "gaps") /\ IsSaid(d, "approval") THEN "accepted gap" ELSE "fail"
  BY <1>1, Zenon DEF TestValue
<1>. HIDE DEF infra, result
<1>. QED
  BY <1>1, <1>2, Zenon DEF Repairs, infra, result

LEMMA DecidedSets ==
  /\ Decided("plan") = {"complete"} /\ Decided("coder") = {"failed", "ready"}
  /\ Decided("test") = {"pass", "fail", "accepted gap", "repair", "production change"}
  /\ Decided("debug") = {"fixed", "normal plan", "clarification"}
  /\ Decided("diagnosis") = {"fixed", "analysis", "clarification"}
  /\ Decided("docsUpdate") = {"synced", "blocked"}
  /\ Decided("docsSync") = {"synced", "architect", "coder", "tester"}
  /\ Decided("acceptance") = {"accepted", "needs coder", "needs architect", "needs docs sync", "blocked"}
  BY DEF Decided, P!Values


LEMMA TemplateDecides ==
  ASSUME NEW kind \in Fixed, NEW d, d = Template(kind)
  PROVE  /\ d.kind = kind /\ ~IsOk(d)
         /\ kind \in Reports \ {"test"} => WorkflowValue(d) \in {"missing", "incomplete"}
<1>1. d.kind = kind /\ d.flaw = "placeholder" /\ d.form = "plain"
  BY DEF Template
<1>2. ~IsOk(d)
  BY <1>1 DEF IsOk, Passes
<1>3. CASE kind \in {"plan", "coder"}
  <2>1. d.text["status"] = "options"
    BY <1>3 DEF Template
  <2>. QED
    BY <1>1, <1>2, <1>3, <2>1 DEF WorkflowValue, WorkflowReads
<1>4. CASE kind \in {"debug", "diagnosis"}
  <2>1. d.text["disposition"] = "options"
    BY <1>4 DEF Template
  <2>2. WorkflowValue(d) = FixValue(d)
    BY <1>1, <1>4 DEF WorkflowValue
  <2>3. FixValue(d) = "missing"
    BY <1>2, <2>1, FixDecides
  <2>. QED
    BY <1>1, <1>2, <2>2, <2>3
<1>5. CASE kind \in {"docsUpdate", "docsSync"}
  BY <1>1, <1>2, <1>5 DEF WorkflowValue, DocsSyncValue
<1>6. CASE kind = "acceptance"
  <2>1. d.text["decision"] = "options"
    BY <1>6 DEF Template
  <2>2. WorkflowValue(d) = AcceptanceValue(d)
    BY <1>1, <1>6, Zenon DEF WorkflowValue
  <2>3. AcceptanceValue(d) = "missing"
    BY <1>2, <2>1, AcceptanceDecides
  <2>. QED
    BY <1>1, <1>2, <2>2, <2>3
<1>. QED
  BY <1>1, <1>2, <1>3, <1>4, <1>5, <1>6 DEF Reports

(* A report that passed as final decides something.                        *)
LEMMA FinalDecides ==
  ASSUME NEW d, d.kind \in Reports \ {"test"}, Passes(d, "final"), d.form \in {"plain", "bulleted"}
  PROVE  WorkflowValue(d) \in Decided(d.kind)
<1>0. IsOk(d)
  BY DEF IsOk
<1>1. CASE d.kind = "plan"
  <2>1. d.form = "plain" /\ d.text["status"] = "complete"
    BY <1>1, FinalStatus DEF Final
  <2>. QED
    BY <1>1, <2>1, DecidedSets DEF WorkflowValue, WorkflowReads
<1>2. CASE d.kind = "coder"
  <2>1. d.form = "plain" /\ d.text["status"] \in {"ready_for_review", "failed"}
    BY <1>2, FinalStatus DEF Final
  <2>. QED
    BY <1>2, <2>1, DecidedSets DEF WorkflowValue, WorkflowReads
<1>3. CASE d.kind \in {"debug", "diagnosis"}
  <2>0. WorkflowValue(d) = FixValue(d)
    BY <1>3 DEF WorkflowValue
  <2>1. d.text["disposition"] \in Dispositions[d.kind]
    BY <1>3 DEF Passes, FieldsHold, DispositionHolds
  <2>2. CASE d.kind = "debug"
    <3>1. d.text["disposition"] \in {"local fix completed", "normal architecture plan required",
                                    "user clarification required"}
      BY <2>1, <2>2, Dispositions["debug"] = {"local fix completed", "normal architecture plan required",
                                              "user clarification required"} DEF Dispositions
    <3>2. FixValue(d) \in {"fixed", "normal plan", "clarification"}
      BY <1>0, <3>1, FixDecides
    <3>. QED
      BY <2>0, <2>2, <3>2, DecidedSets
  <2>3. CASE d.kind = "diagnosis"
    <3>1. d.text["disposition"] \in {"analysis completed", "diagnosis implementation completed",
                                    "user clarification required"}
      BY <2>1, <2>3, Dispositions["diagnosis"] = {"analysis completed", "diagnosis implementation completed",
                                                  "user clarification required"} DEF Dispositions
    <3>2. FixValue(d) \in {"fixed", "analysis", "clarification"}
      BY <1>0, <3>1, FixDecides
    <3>. QED
      BY <2>0, <2>3, <3>2, DecidedSets
  <2>. QED
    BY <1>3, <2>2, <2>3
<1>4. CASE d.kind = "docsUpdate"
  BY <1>0, <1>4, DecidedSets DEF WorkflowValue
<1>5. CASE d.kind = "docsSync"
  <2>1. DocsSyncHolds(d)
    BY <1>5 DEF Passes, FieldsHold
  <2>2. WorkflowValue(d) \in {"synced", "architect", "coder", "tester"}
    BY <1>0, <1>5, <2>1 DEF DocsSyncHolds, WorkflowValue, DocsSyncValue, DocsDecisions, Workers
  <2>. QED
    BY <1>5, <2>2, DecidedSets
<1>6. CASE d.kind = "acceptance"
  <2>1. WorkflowValue(d) = AcceptanceValue(d)
    BY <1>6, Zenon DEF WorkflowValue
  <2>2. AcceptanceValue(d) \in {"needs coder", "needs docs sync", "needs architect", "blocked", "accepted"}
    BY <1>0, AcceptanceDecides
  <2>. QED
    BY <1>6, <2>1, <2>2, DecidedSets
<1>. QED
  BY <1>1, <1>2, <1>3, <1>4, <1>5, <1>6 DEF Reports

(* In any number of submissions, with fields written as the contracts show *)
(* them or as list items, three readers agree on every managed artifact.   *)
THEOREM ArtifactReadersAgree ==
  ASSUME FieldForms \subseteq {"plain", "bulleted"}
  PROVE  ArtifactSpec => []ReadersAgree
<1>1. ArtifactInit => CheckedInv
  BY DEF ArtifactInit, CheckedInv, Copies
<1>2. CheckedInv => ReadersAgree
  <2>. DEFINE d == stored["handoff"]  final == accepted["handoff"] = "final"
  <2>. SUFFICES ASSUME CheckedInv, artifact \in Fixed, accepted["handoff"] # "draft"
                PROVE  ReadersAgree
    BY DEF ReadersAgree
  <2>0. artifact \in Kinds /\ accepted["handoff"] \in {"template", "final"}
    BY DEF Fixed, CheckedInv, Copies
  <2>1. CASE accepted["handoff"] = "template"
    <3>0. d = Template(artifact)
      BY <2>1 DEF CheckedInv
    <3>. HIDE DEF d
    <3>1. /\ d.kind = artifact /\ ~IsOk(d)
          /\ artifact \in Reports \ {"test"} => WorkflowValue(d) \in {"missing", "incomplete"}
      BY <3>0, TemplateDecides
    <3>2. artifact \in Reports \ {"test"} => WorkflowValue(d) \notin Decided(artifact)
      BY <3>1 DEF Decided
    <3>3. ~PlanGateTakes(d) /\ ~ValidationGateTakes(d) /\ ~CodeDiffGateTakes(d)
      BY <3>1 DEF PlanGateTakes, ValidationGateTakes, CodeDiffGateTakes
    <3>4. artifact \in {"coder", "debug", "diagnosis"} => WorkflowValue(d) \notin {"ready", "fixed"}
      BY <3>1 DEF Reports
    <3>5. final = FALSE /\ (artifact \in Reports \ {"test"} => (WorkflowValue(d) \in Decided(artifact)) = FALSE)
      BY <2>1, <3>2
    <3>6. PlanGateTakes(d) = FALSE /\ ValidationGateTakes(d) = FALSE /\ CodeDiffGateTakes(d) = FALSE
      BY <3>3
    <3>7. /\ artifact = "coder" => (WorkflowValue(d) = "ready") = FALSE
          /\ artifact = "diagnosis" => (WorkflowValue(d) = "fixed") = FALSE
          /\ artifact = "debug" => WorkflowValue(d) # "fixed"
      BY <3>4
    <3>. QED
      BY <3>1, <3>5, <3>6, <3>7 DEF ReadersAgree, d
  <2>2. CASE accepted["handoff"] = "final"
    <3>0. d \in Documents[artifact] /\ Passes(d, "final")
      BY <2>2 DEF CheckedInv
    <3>. HIDE DEF d
    <3>1. d.kind = artifact /\ d.form \in {"plain", "bulleted"} /\ IsOk(d)
      BY <2>0, <3>0, Documented DEF IsOk
    <3>2. artifact \in Reports \ {"test"} => WorkflowValue(d) \in Decided(artifact)
      BY <3>0, <3>1, FinalDecides
    <3>3. artifact \in {"brief", "evidence", "plan"} => PlanGateTakes(d)
      BY <3>0, <3>1, FinalStatus DEF PlanGateTakes, Checked
    <3>4. artifact = "test" =>
            /\ ValidationGateTakes(d) = (WorkflowValue(d) \in {"pass", "fail", "accepted gap"})
            /\ WorkflowValue(d) \in Decided("test")
            /\ IsSaid(d, "gaps") => WorkflowValue(d) # "fail"
      <4>. SUFFICES ASSUME artifact = "test"
                    PROVE  /\ ValidationGateTakes(d) = (WorkflowValue(d) \in {"pass", "fail", "accepted gap"})
                           /\ WorkflowValue(d) \in Decided("test")
                           /\ IsSaid(d, "gaps") => WorkflowValue(d) # "fail"
        OBVIOUS
      <4>1. /\ d.form = "plain" /\ d.text["status"] \in {"pass", "fail"}
            /\ d.text["infra"] \in {"none", "repair-required", "repaired", "production-change-required"}
            /\ IsSaid(d, "gaps") => d.text["status"] = "fail" /\ IsSaid(d, "approval")
        BY <3>0, <3>1, FinalReport
      <4>2. WorkflowValue(d) = TestValue(d)
        BY <3>1 DEF WorkflowValue
      <4>3. GateReads(d, "infra") = d.text["infra"]
        BY <4>1 DEF GateReads
      <4>4. CASE d.text["infra"] = "repair-required"
        <5>1. WorkflowValue(d) = "repair"
          BY <3>1, <4>1, <4>2, <4>4, TestDecides
        <5>3. ValidationGateTakes(d) = FALSE
          BY <4>3, <4>4 DEF ValidationGateTakes, Repairs
        <5>2. WorkflowValue(d) \in Decided("test")
          BY <5>1, DecidedSets
        <5>5. WorkflowValue(d) \notin {"pass", "fail", "accepted gap"}
          BY <5>1, Zenon
        <5>. DEFINE Clear == {"pass", "fail", "accepted gap"}
        <5>. SUFFICES /\ ValidationGateTakes(d) = (WorkflowValue(d) \in Clear)
                      /\ WorkflowValue(d) # "fail"
          BY <5>2
        <5>6. WorkflowValue(d) \notin Clear /\ WorkflowValue(d) # "fail"
          BY <5>5
        <5>. HIDE DEF Clear
        <5>4. (WorkflowValue(d) \in Clear) = FALSE
          BY <5>6
        <5>. QED
          BY <5>3, <5>4, <5>6
      <4>5. CASE d.text["infra"] = "production-change-required"
        <5>1. WorkflowValue(d) = "production change"
          BY <3>1, <4>1, <4>2, <4>5, TestDecides
        <5>3. ValidationGateTakes(d) = FALSE
          BY <4>3, <4>5 DEF ValidationGateTakes, Repairs
        <5>2. WorkflowValue(d) \in Decided("test")
          BY <5>1, DecidedSets
        <5>5. WorkflowValue(d) \notin {"pass", "fail", "accepted gap"}
          BY <5>1, Zenon
        <5>. DEFINE Clear == {"pass", "fail", "accepted gap"}
        <5>. SUFFICES /\ ValidationGateTakes(d) = (WorkflowValue(d) \in Clear)
                      /\ WorkflowValue(d) # "fail"
          BY <5>2
        <5>6. WorkflowValue(d) \notin Clear /\ WorkflowValue(d) # "fail"
          BY <5>5
        <5>. HIDE DEF Clear
        <5>4. (WorkflowValue(d) \in Clear) = FALSE
          BY <5>6
        <5>. QED
          BY <5>3, <5>4, <5>6
      <4>6. CASE d.text["infra"] \in {"none", "repaired"}
        <5>1. /\ WorkflowValue(d) \in {"pass", "fail", "accepted gap"}
              /\ IsSaid(d, "gaps") => WorkflowValue(d) # "fail"
          BY <3>1, <4>1, <4>2, <4>6, TestDecides
        <5>3. ValidationGateTakes(d) = TRUE
          BY <3>1, <4>3, <4>6 DEF ValidationGateTakes, Repairs
        <5>2. WorkflowValue(d) \in Decided("test")
          BY <5>1, DecidedSets
        <5>. QED
          BY <5>1, <5>2, <5>3
      <4>. QED
        BY <4>1, <4>4, <4>5, <4>6
    <3>5. artifact = "coder" => CodeDiffGateTakes(d) = (WorkflowValue(d) = "ready")
      <4>. SUFFICES ASSUME artifact = "coder" PROVE CodeDiffGateTakes(d) = (WorkflowValue(d) = "ready")
        OBVIOUS
      <4>1. d.form = "plain" /\ d.text["status"] \in {"ready_for_review", "failed"}
        BY <3>0, <3>1, FinalStatus DEF Final
      <4>. QED
        BY <3>1, <4>1 DEF CodeDiffGateTakes, GateReads, WorkflowValue, WorkflowReads
    <3>6. artifact = "debug" => (WorkflowValue(d) = "fixed" => CodeDiffGateTakes(d))
      <4>. SUFFICES ASSUME artifact = "debug" PROVE CodeDiffGateTakes(d)
        OBVIOUS
      <4>1. d.form = "plain" /\ d.text["status"] = "completed"
        BY <3>0, <3>1, FinalStatus DEF Final
      <4>. QED
        BY <3>1, <4>1 DEF CodeDiffGateTakes, GateReads
    <3>7. artifact = "diagnosis" => CodeDiffGateTakes(d) = (WorkflowValue(d) = "fixed")
      <4>. SUFFICES ASSUME artifact = "diagnosis" PROVE CodeDiffGateTakes(d) = (WorkflowValue(d) = "fixed")
        OBVIOUS
      <4>1. d.text["disposition"] \in Dispositions["diagnosis"]
        BY <3>0, <3>1 DEF Passes, FieldsHold, DispositionHolds
      <4>2. WorkflowValue(d) = FixValue(d)
        BY <3>1 DEF WorkflowValue
      <4>3. CASE d.text["disposition"] = "diagnosis implementation completed"
        <5>1. FixValue(d) = "fixed"
          BY <3>1, <4>3, FixDecides
        <5>2. CodeDiffGateTakes(d)
          BY <3>1, <4>3 DEF CodeDiffGateTakes
        <5>. QED
          BY <4>2, <5>1, <5>2
      <4>4. CASE d.text["disposition"] # "diagnosis implementation completed"
        <5>1. FixValue(d) # "fixed"
          BY <4>1, <4>4, FixDecides DEF Dispositions
        <5>2. CodeDiffGateTakes(d) = FALSE
          BY <3>1, <4>4 DEF CodeDiffGateTakes
        <5>3. (WorkflowValue(d) = "fixed") = FALSE
          BY <4>2, <5>1
        <5>. QED
          BY <5>2, <5>3
      <4>. QED
        BY <4>3, <4>4
    <3>8. final = TRUE /\ (artifact \in Reports \ {"test"} => (WorkflowValue(d) \in Decided(artifact)) = TRUE)
      BY <2>2, <3>2
    <3>9. artifact \in {"brief", "evidence", "plan"} => PlanGateTakes(d) = TRUE
      BY <3>3
    <3>10. artifact \in {"brief", "evidence", "plan"} => PlanGateTakes(d) = final
      BY <3>8, <3>9
    <3>11. artifact \in Reports \ {"test"} => (WorkflowValue(d) \in Decided(artifact)) = final
      BY <3>8
    <3>12. artifact = "test" =>
             /\ ValidationGateTakes(d) = (final /\ WorkflowValue(d) \in {"pass", "fail", "accepted gap"})
             /\ final => WorkflowValue(d) \in Decided("test")
             /\ final /\ IsSaid(d, "gaps") => WorkflowValue(d) # "fail"
      <4>1. artifact = "test" =>
              ValidationGateTakes(d) = (final /\ WorkflowValue(d) \in {"pass", "fail", "accepted gap"})
        <5>1. final /\ WorkflowValue(d) \in {"pass", "fail", "accepted gap"}
                <=> WorkflowValue(d) \in {"pass", "fail", "accepted gap"}
          BY <2>2
        <5>. QED
          BY <3>4, <5>1 DEF ValidationGateTakes
      <4>2. artifact = "test" =>
              /\ final => WorkflowValue(d) \in Decided("test")
              /\ final /\ IsSaid(d, "gaps") => WorkflowValue(d) # "fail"
        BY <3>4
      <4>. QED
        BY <4>1, <4>2
    <3>. QED
      BY <3>5, <3>6, <3>7, <3>10, <3>11, <3>12, Zenon DEF ReadersAgree, d
  <2>. QED
    BY <2>0, <2>1, <2>2
<1>. QED
  BY <1>1, <1>2, CheckedStep, PTL DEF ArtifactSpec

-----------------------------------------------------------------------------
(***************************************************************************)
(* The installed Harness: the text of a managed file, which is prose of    *)
(* the project around at most one managed block.                           *)
(***************************************************************************)
Prose == {"absent", "title", "old title", "own 1", "own 2", "memo", "own hook", "section", "legacy",
          "<memory>", "</memory>", "no memory"}
Body == {"rules 1", "rules 2", "edited"}
Words == Prose \cup Body \cup {"BEGIN", "END"}
Framed(m) == <<"BEGIN", m, "END">>
Text(a, m, b) == a \o Framed(m) \o b
FitTexts == Seq(Prose) \cup {Text(a, m, b) : a \in Seq(Prose), m \in Body, b \in Seq(Prose)}

LEMMA WordsDiffer ==
  /\ \A l \in Prose : l \in Words /\ l # "BEGIN" /\ l # "END" /\ l \notin Body
  /\ \A m \in Body : /\ m \in Words /\ m # "BEGIN" /\ m # "END" /\ m \notin OwnLines
                     /\ m # "<memory>" /\ m # "</memory>"
  /\ "BEGIN" \in Words /\ "END" \in Words /\ "BEGIN" # "END"
  /\ \A l \in {"BEGIN", "END"} : l \notin OwnLines /\ l # "<memory>" /\ l # "</memory>"
BY DEF Prose, Body, Words, OwnLines

LEMMA RulesAreBody == \A v \in 1..2 : Rules(v) \in Body /\ ManagedBlock(v) = Framed(Rules(v))
<1>. SUFFICES ASSUME NEW v \in 1..2 PROVE Rules(v) \in Body /\ ManagedBlock(v) = Framed(Rules(v))
  OBVIOUS
<1>1. v = 1 \/ v = 2
  OBVIOUS
<1>2. CASE v = 1
  BY <1>2 DEF Rules, Body, ManagedBlock, Framed
<1>3. CASE v = 2
  BY <1>3 DEF Rules, Body, ManagedBlock, Framed
<1>. QED
  BY <1>1, <1>2, <1>3

LEMMA ProseIsWords == \A s \in Seq(Prose) : s \in Seq(Words)
<1>1. Prose \subseteq Words
  BY DEF Words
<1>. QED
  BY <1>1, SeqMonotonic

LEMMA FrameProperties ==
  ASSUME NEW m \in Words
  PROVE  /\ Framed(m) \in Seq(Words) /\ Len(Framed(m)) = 3
         /\ Framed(m)[1] = "BEGIN" /\ Framed(m)[2] = m /\ Framed(m)[3] = "END"
<1>1. "BEGIN" \in Words /\ "END" \in Words
  BY WordsDiffer
<1>. HIDE DEF Words
<1>. QED
  BY <1>1 DEF Framed

(* Where everything is in a text with a block.                             *)
Laid(t, a, m, b) ==
  /\ t \in Seq(Words) /\ Len(a) \in Nat /\ Len(b) \in Nat /\ Len(t) = Len(a) + 3 + Len(b)
  /\ \A i \in 1..Len(a) : t[i] = a[i]
  /\ t[Len(a) + 1] = "BEGIN" /\ t[Len(a) + 2] = m /\ t[Len(a) + 3] = "END"
  /\ \A i \in 1..Len(b) : t[Len(a) + 3 + i] = b[i]

LEMMA TextIsLaid ==
  ASSUME NEW a \in Seq(Words), NEW m \in Words, NEW b \in Seq(Words)
  PROVE  Laid(Text(a, m, b), a, m, b)
<1>. DEFINE f == Framed(m)  p == a \o f  t == p \o b  k == Len(a)
<1>0. t = Text(a, m, b)
  BY DEF Text
<1>1. f \in Seq(Words) /\ Len(f) = 3 /\ f[1] = "BEGIN" /\ f[2] = m /\ f[3] = "END"
  BY FrameProperties
<1>2. k \in Nat /\ Len(b) \in Nat
  BY LenProperties
<1>. HIDE DEF f, Words
<1>3. /\ p \in Seq(Words) /\ Len(p) = k + 3
      /\ \A i \in 1..(k + 3) : p[i] = IF i <= k THEN a[i] ELSE f[i - k]
  <2>1. /\ p \in Seq(Words) /\ Len(p) = Len(a) + Len(f)
        /\ \A i \in 1..(Len(a) + Len(f)) : p[i] = IF i <= Len(a) THEN a[i] ELSE f[i - Len(a)]
    BY <1>1, ConcatProperties
  <2>. QED
    BY <1>1, <2>1
<1>. HIDE DEF p
<1>4. /\ t \in Seq(Words) /\ Len(t) = k + 3 + Len(b)
      /\ \A i \in 1..(k + 3 + Len(b)) : t[i] = IF i <= k + 3 THEN p[i] ELSE b[i - (k + 3)]
  <2>0. p \in Seq(Words) /\ Len(p) = k + 3
    BY <1>3
  <2>1. /\ t \in Seq(Words) /\ Len(t) = Len(p) + Len(b)
        /\ \A i \in 1..(Len(p) + Len(b)) : t[i] = IF i <= Len(p) THEN p[i] ELSE b[i - Len(p)]
    BY <2>0, ConcatProperties
  <2>. QED
    BY <2>0, <2>1
<1>. HIDE DEF t, k
<1>5. \A i \in 1..k : t[i] = a[i]
  BY <1>2, <1>3, <1>4
<1>6. t[k + 1] = "BEGIN" /\ t[k + 2] = m /\ t[k + 3] = "END"
  <2>1. ASSUME NEW i \in 1..3 PROVE t[k + i] = f[i]
    <3>1. /\ k + i \in 1..(k + 3) /\ k + i \in 1..(k + 3 + Len(b)) /\ k + i <= k + 3
          /\ ~(k + i <= k) /\ (k + i) - k = i
      BY <1>2
    <3>. QED
      BY <1>3, <1>4, <3>1
  <2>. QED
    BY <1>1, <2>1
<1>7. ASSUME NEW i \in 1..Len(b) PROVE t[k + 3 + i] = b[i]
  <2>1. k + 3 + i \in 1..(k + 3 + Len(b)) /\ ~(k + 3 + i <= k + 3) /\ (k + 3 + i) - (k + 3) = i
    BY <1>2
  <2>. QED
    BY <1>4, <2>1
<1>8. Laid(t, a, m, b)
  BY <1>2, <1>4, <1>5, <1>6, <1>7 DEF k, Laid
<1>. QED
  BY <1>0, <1>8

LEMMA TextProperties ==
  ASSUME NEW a \in Seq(Words), NEW m \in Words, NEW b \in Seq(Words)
  PROVE  /\ Text(a, m, b) \in Seq(Words) /\ Len(a) \in Nat /\ Len(b) \in Nat
         /\ Len(Text(a, m, b)) = Len(a) + 3 + Len(b)
<1>1. Laid(Text(a, m, b), a, m, b)
  BY TextIsLaid
<1>. QED
  BY <1>1 DEF Laid

LEMMA LeastOfOne == \A i \in Int : Least({i}) = i
BY DEF Least

LEMMA ProsePlaces ==
  ASSUME NEW t \in Seq(Prose)
  PROVE  /\ Places(t, "BEGIN") = {} /\ Places(t, "END") = {} /\ ~HasBlock(t)
         /\ Outside(t) = t /\ Block(t) = <<>>
<1>1. \A i \in 1..Len(t) : t[i] # "BEGIN" /\ t[i] # "END"
  BY ElementOfSeq, WordsDiffer
<1>. QED
  BY <1>1 DEF Places, HasBlock, Begins, Outside, Block

(* The parts of a text with a block.                                       *)
LEMMA TextParts ==
  ASSUME NEW a \in Seq(Prose), NEW m \in Body, NEW b \in Seq(Prose), NEW t, t = Text(a, m, b)
  PROVE  /\ Places(t, "BEGIN") = {Len(a) + 1} /\ HasBlock(t)
         /\ Before(t) = a /\ After(t) = b /\ Block(t) = Framed(m) /\ Outside(t) = a \o b
         /\ \A v \in 1..2 : ReplaceBlock(t, v) = Text(a, Rules(v), b)
<1>. DEFINE k == Len(a)  n == Len(b)
<1>0. a \in Seq(Words) /\ b \in Seq(Words) /\ m \in Words
  BY ProseIsWords, WordsDiffer
<1>1. /\ t \in Seq(Words) /\ k \in Nat /\ n \in Nat /\ Len(t) = k + 3 + n
      /\ \A i \in 1..k : t[i] = a[i]
      /\ t[k + 1] = "BEGIN" /\ t[k + 2] = m /\ t[k + 3] = "END"
      /\ \A i \in 1..n : t[k + 3 + i] = b[i]
  <2>1. Laid(t, a, m, b)
    BY <1>0, TextIsLaid
  <2>. QED
    BY <2>1 DEF Laid
<1>2. \A i \in 1..k : a[i] # "BEGIN" /\ a[i] # "END"
  BY ElementOfSeq, WordsDiffer
<1>3. \A i \in 1..n : b[i] # "BEGIN" /\ b[i] # "END"
  BY ElementOfSeq, WordsDiffer
<1>4. m # "BEGIN" /\ m # "END" /\ "BEGIN" # "END"
  BY WordsDiffer
<1>. HIDE DEF k, n, Words, Prose, Body
<1>5. ASSUME NEW i \in 1..Len(t)
      PROVE  (t[i] = "BEGIN" <=> i = k + 1) /\ (t[i] = "END" <=> i = k + 3)
  <2>1. \/ i \in 1..k \/ i = k + 1 \/ i = k + 2 \/ i = k + 3
        \/ i - (k + 3) \in 1..n /\ i = k + 3 + (i - (k + 3))
    BY <1>1
  <2>2. CASE i \in 1..k
    BY <1>1, <1>2, <2>2
  <2>3. CASE i \in {k + 1, k + 2, k + 3}
    BY <1>1, <1>4, <2>3
  <2>4. CASE i - (k + 3) \in 1..n /\ i = k + 3 + (i - (k + 3))
    <3>1. t[i] = b[i - (k + 3)]
      BY <1>1, <2>4
    <3>. QED
      BY <1>1, <1>3, <2>4, <3>1
  <2>. QED
    BY <2>1, <2>2, <2>3, <2>4
<1>6. k + 1 \in 1..Len(t) /\ k + 3 \in 1..Len(t) /\ k + 1 \in Int /\ k + 3 \in Int /\ k + 1 < k + 3
  BY <1>1
<1>7. Places(t, "BEGIN") = {k + 1} /\ Places(t, "END") = {k + 3}
  BY <1>5, <1>6 DEF Places
<1>8. Begins(t) = {k + 1} /\ HasBlock(t)
  BY <1>6, <1>7 DEF Begins, HasBlock
<1>9. BlockBegin(t) = k + 1
  BY <1>6, <1>8, LeastOfOne DEF BlockBegin
<1>10. {j \in Places(t, "END") : j > BlockBegin(t)} = {k + 3}
  BY <1>6, <1>7, <1>9
<1>11. BlockEnd(t) = k + 3
  BY <1>6, <1>10, LeastOfOne DEF BlockEnd
<1>12. Before(t) = a
  <2>1. Before(t) = SubSeq(t, 1, k)
    BY <1>1, <1>9 DEF Before
  <2>2. \A i \in 1..k : t[i] \in Words
    BY <1>1, ElementOfSeq
  <2>3. /\ SubSeq(t, 1, k) \in Seq(Words)
        /\ Len(SubSeq(t, 1, k)) = IF 1 <= k THEN k - 1 + 1 ELSE 0
        /\ \A i \in 1..(k - 1 + 1) : SubSeq(t, 1, k)[i] = t[1 + i - 1]
    BY <1>1, <2>2, SubSeqProperties
  <2>4. Len(SubSeq(t, 1, k)) = k /\ \A i \in 1..k : SubSeq(t, 1, k)[i] = a[i]
    BY <1>1, <2>3
  <2>. HIDE DEF Before
  <2>5. SubSeq(t, 1, k) = a
    BY <1>0, <2>3, <2>4, SeqEqual DEF k
  <2>. QED
    BY <2>1, <2>5
<1>13. After(t) = b
  <2>1. After(t) = SubSeq(t, k + 4, k + 3 + n)
    BY <1>1, <1>11 DEF After
  <2>. DEFINE s == SubSeq(t, k + 4, k + 3 + n)
  <2>2. \A i \in (k + 4)..(k + 3 + n) : t[i] \in Words
    BY <1>1, ElementOfSeq
  <2>3. /\ s \in Seq(Words)
        /\ Len(s) = IF k + 4 <= k + 3 + n THEN (k + 3 + n) - (k + 4) + 1 ELSE 0
        /\ \A i \in 1..((k + 3 + n) - (k + 4) + 1) : s[i] = t[k + 4 + i - 1]
    BY <1>1, <2>2, SubSeqProperties
  <2>. HIDE DEF s
  <2>4. Len(s) = n /\ \A i \in 1..n : s[i] = t[k + 3 + i]
    <3>1. (k + 3 + n) - (k + 4) + 1 = n /\ \A i \in 1..n : k + 4 + i - 1 = k + 3 + i
      BY <1>1
    <3>2. Len(s) = n
      BY <1>1, <2>3
    <3>3. ASSUME NEW i \in 1..n PROVE s[i] = t[k + 3 + i]
      BY <2>3, <3>1
    <3>. QED
      BY <3>2, <3>3
  <2>5. s = b
    BY <1>0, <1>1, <2>3, <2>4, SeqEqual DEF n
  <2>. QED
    BY <2>1, <2>5 DEF s
<1>14. Block(t) = Framed(m)
  <2>. DEFINE s == SubSeq(t, k + 1, k + 3)
  <2>1. Block(t) = s
    BY <1>8, <1>9, <1>11 DEF Block
  <2>2. \A i \in (k + 1)..(k + 3) : t[i] \in Words
    BY <1>1, ElementOfSeq
  <2>3. /\ s \in Seq(Words)
        /\ Len(s) = IF k + 1 <= k + 3 THEN (k + 3) - (k + 1) + 1 ELSE 0
        /\ \A i \in 1..((k + 3) - (k + 1) + 1) : s[i] = t[k + 1 + i - 1]
    BY <1>1, <2>2, SubSeqProperties
  <2>. HIDE DEF s
  <2>4. Len(s) = 3 /\ \A i \in 1..3 : s[i] = t[k + i]
    <3>1. (k + 3) - (k + 1) + 1 = 3 /\ \A i \in 1..3 : k + 1 + i - 1 = k + i
      BY <1>1
    <3>2. Len(s) = 3
      BY <1>1, <2>3
    <3>3. ASSUME NEW i \in 1..3 PROVE s[i] = t[k + i]
      BY <2>3, <3>1
    <3>. QED
      BY <3>2, <3>3
  <2>5. /\ Framed(m) \in Seq(Words) /\ Len(Framed(m)) = 3
        /\ Framed(m)[1] = "BEGIN" /\ Framed(m)[2] = m /\ Framed(m)[3] = "END"
    BY <1>0, FrameProperties
  <2>6. \A i \in 1..3 : s[i] = Framed(m)[i]
    BY <1>1, <2>4, <2>5
  <2>7. s = Framed(m)
    BY <2>3, <2>4, <2>5, <2>6, SeqEqual
  <2>. QED
    BY <2>1, <2>7
<1>15. Outside(t) = a \o b
  BY <1>8, <1>12, <1>13 DEF Outside
<1>16. \A v \in 1..2 : ReplaceBlock(t, v) = Text(a, Rules(v), b)
  BY <1>12, <1>13, RulesAreBody DEF ReplaceBlock, Text
<1>. QED
  BY <1>7, <1>8, <1>12, <1>13, <1>14, <1>15, <1>16 DEF k

(***************************************************************************)
(* What the project wrote: SameText.                                       *)
(***************************************************************************)
LEMMA SameReflexive == ASSUME NEW t PROVE SameText(t, t)
<1>. DEFINE O == OwnPlaces(t)  to == [i \in O |-> i]
<1>1. to \in [O -> O] /\ \A i \in O : to[i] = i
  OBVIOUS
<1>. HIDE DEF to, O
<1>2. /\ \A i \in O : t[to[i]] = t[i]
      /\ \A i, j \in O : i < j => to[i] < to[j]
      /\ \A k \in O : \E i \in O : to[i] = k
  BY <1>1
<1>. QED
  BY <1>1, <1>2 DEF SameText, O

LEMMA NothingOwn ==
  ASSUME NEW s, NEW t, OwnPlaces(s) = {}, OwnPlaces(t) = {}
  PROVE  SameText(s, t)
<1>1. [i \in {} |-> i] \in [{} -> {}]
  OBVIOUS
<1>. QED
  BY <1>1 DEF SameText

LEMMA PlacesInBoth ==
  ASSUME NEW W, NEW s \in Seq(W), NEW r \in Seq(W), NEW i \in OwnPlaces(s \o r)
  PROVE  \/ i \in OwnPlaces(s) /\ i <= Len(s) /\ (s \o r)[i] = s[i]
         \/ i - Len(s) \in OwnPlaces(r) /\ i > Len(s) /\ (s \o r)[i] = r[i - Len(s)]
<1>1. /\ s \o r \in Seq(W) /\ Len(s \o r) = Len(s) + Len(r) /\ Len(s) \in Nat /\ Len(r) \in Nat
      /\ \A k \in 1..(Len(s) + Len(r)) : (s \o r)[k] = IF k <= Len(s) THEN s[k] ELSE r[k - Len(s)]
  BY ConcatProperties, LenProperties
<1>2. DOMAIN (s \o r) = 1..(Len(s) + Len(r)) /\ DOMAIN s = 1..Len(s) /\ DOMAIN r = 1..Len(r)
  BY <1>1, LenProperties
<1>3. i \in 1..(Len(s) + Len(r)) /\ (s \o r)[i] \in OwnLines
  BY <1>2 DEF OwnPlaces
<1>4. CASE i <= Len(s)
  BY <1>1, <1>2, <1>3, <1>4 DEF OwnPlaces
<1>5. CASE ~(i <= Len(s))
  <2>1. i - Len(s) \in 1..Len(r) /\ i > Len(s) /\ (s \o r)[i] = r[i - Len(s)]
    BY <1>1, <1>3, <1>5
  <2>. QED
    BY <1>2, <1>3, <2>1 DEF OwnPlaces
<1>. QED
  BY <1>4, <1>5

LEMMA PlacesOfBoth ==
  ASSUME NEW W, NEW s \in Seq(W), NEW r \in Seq(W)
  PROVE  /\ \A i \in OwnPlaces(s) : i \in OwnPlaces(s \o r) /\ i <= Len(s) /\ (s \o r)[i] = s[i]
         /\ \A i \in OwnPlaces(r) : /\ Len(s) + i \in OwnPlaces(s \o r) /\ Len(s) + i > Len(s)
                                    /\ (s \o r)[Len(s) + i] = r[i]
         /\ OwnPlaces(s) \subseteq Int /\ OwnPlaces(r) \subseteq Int /\ Len(s) \in Nat
         /\ OwnPlaces(s \o r) \subseteq Int
<1>1. /\ s \o r \in Seq(W) /\ Len(s \o r) = Len(s) + Len(r) /\ Len(s) \in Nat /\ Len(r) \in Nat
      /\ \A k \in 1..(Len(s) + Len(r)) : (s \o r)[k] = IF k <= Len(s) THEN s[k] ELSE r[k - Len(s)]
  BY ConcatProperties, LenProperties
<1>2. DOMAIN (s \o r) = 1..(Len(s) + Len(r)) /\ DOMAIN s = 1..Len(s) /\ DOMAIN r = 1..Len(r)
  BY <1>1, LenProperties
<1>3. ASSUME NEW i \in OwnPlaces(s)
      PROVE  i \in OwnPlaces(s \o r) /\ i <= Len(s) /\ (s \o r)[i] = s[i]
  <2>1. i \in 1..Len(s) /\ s[i] \in OwnLines
    BY <1>2 DEF OwnPlaces
  <2>2. i \in 1..(Len(s) + Len(r)) /\ i <= Len(s) /\ (s \o r)[i] = s[i]
    BY <1>1, <2>1
  <2>. QED
    BY <1>2, <2>1, <2>2 DEF OwnPlaces
<1>4. ASSUME NEW i \in OwnPlaces(r)
      PROVE  Len(s) + i \in OwnPlaces(s \o r) /\ Len(s) + i > Len(s) /\ (s \o r)[Len(s) + i] = r[i]
  <2>1. i \in 1..Len(r) /\ r[i] \in OwnLines
    BY <1>2 DEF OwnPlaces
  <2>2. /\ Len(s) + i \in 1..(Len(s) + Len(r)) /\ ~(Len(s) + i <= Len(s)) /\ (Len(s) + i) - Len(s) = i
        /\ Len(s) + i > Len(s)
    BY <1>1, <2>1
  <2>3. (s \o r)[Len(s) + i] = r[i]
    BY <1>1, <2>2
  <2>. QED
    BY <1>2, <2>1, <2>2, <2>3 DEF OwnPlaces
<1>5. OwnPlaces(s) \subseteq Int /\ OwnPlaces(r) \subseteq Int /\ OwnPlaces(s \o r) \subseteq Int
  BY <1>1, <1>2 DEF OwnPlaces
<1>. QED
  BY <1>1, <1>3, <1>4, <1>5

LEMMA SameConcat ==
  ASSUME NEW W, NEW s \in Seq(W), NEW r \in Seq(W), NEW t \in Seq(W), NEW u \in Seq(W),
         SameText(s, t), SameText(r, u)
  PROVE  SameText(s \o r, t \o u)
<1>1. PICK to \in [OwnPlaces(s) -> OwnPlaces(t)] :
        /\ \A i \in OwnPlaces(s) : t[to[i]] = s[i]
        /\ \A i, j \in OwnPlaces(s) : i < j => to[i] < to[j]
        /\ \A k \in OwnPlaces(t) : \E i \in OwnPlaces(s) : to[i] = k
  BY DEF SameText
<1>2. PICK on \in [OwnPlaces(r) -> OwnPlaces(u)] :
        /\ \A i \in OwnPlaces(r) : u[on[i]] = r[i]
        /\ \A i, j \in OwnPlaces(r) : i < j => on[i] < on[j]
        /\ \A k \in OwnPlaces(u) : \E i \in OwnPlaces(r) : on[i] = k
  BY DEF SameText
<1>. DEFINE A == OwnPlaces(s \o r)  B == OwnPlaces(t \o u)  n == Len(s)  k == Len(t)
            all == [i \in A |-> IF i <= n THEN to[i] ELSE k + on[i - n]]
<1>3. ASSUME NEW i \in A
      PROVE  \/ i \in OwnPlaces(s) /\ i <= n /\ (s \o r)[i] = s[i]
             \/ i - n \in OwnPlaces(r) /\ i > n /\ (s \o r)[i] = r[i - n]
  BY PlacesInBoth
<1>4. ASSUME NEW i \in B
      PROVE  i \in OwnPlaces(t) \/ i - k \in OwnPlaces(u)
  BY PlacesInBoth
<1>5. /\ \A i \in OwnPlaces(s) : i \in A /\ i <= n
      /\ \A i \in OwnPlaces(r) : n + i \in A /\ n + i > n
      /\ OwnPlaces(s) \subseteq Int /\ OwnPlaces(r) \subseteq Int /\ n \in Nat /\ A \subseteq Int
  BY PlacesOfBoth
<1>6. /\ \A i \in OwnPlaces(t) : i \in B /\ i <= k /\ (t \o u)[i] = t[i]
      /\ \A i \in OwnPlaces(u) : k + i \in B /\ k + i > k /\ (t \o u)[k + i] = u[i]
      /\ OwnPlaces(t) \subseteq Int /\ OwnPlaces(u) \subseteq Int /\ k \in Nat /\ B \subseteq Int
  BY PlacesOfBoth
<1>. HIDE DEF A, B, n, k
<1>7. ASSUME NEW i \in A
      PROVE  /\ all[i] \in B /\ (t \o u)[all[i]] = (s \o r)[i]
             /\ i <= n => all[i] = to[i] /\ i \in OwnPlaces(s) /\ all[i] <= k
             /\ ~(i <= n) => all[i] = k + on[i - n] /\ i - n \in OwnPlaces(r) /\ all[i] > k
  <2>1. CASE i \in OwnPlaces(s) /\ i <= n /\ (s \o r)[i] = s[i]
    BY <1>1, <1>6, <2>1
  <2>2. CASE i - n \in OwnPlaces(r) /\ i > n /\ (s \o r)[i] = r[i - n]
    <3>1. ~(i <= n)
      BY <1>5, <2>2
    <3>2. all[i] = k + on[i - n] /\ on[i - n] \in OwnPlaces(u) /\ u[on[i - n]] = r[i - n]
      BY <1>2, <2>2, <3>1
    <3>. QED
      BY <1>6, <2>2, <3>1, <3>2
  <2>. QED
    BY <1>3, <2>1, <2>2
<1>8. all \in [A -> B]
  BY <1>7
<1>9. ASSUME NEW i \in A, NEW j \in A, i < j PROVE all[i] < all[j]
  <2>0. i \in Int /\ j \in Int /\ all[i] \in Int /\ all[j] \in Int /\ k \in Int /\ n \in Int
    BY <1>5, <1>6, <1>7
  <2>. HIDE DEF all
  <2>1. CASE j <= n
    <3>1. i <= n
      BY <1>9, <2>0, <2>1
    <3>. QED
      BY <1>1, <1>7, <1>9, <2>1, <3>1
  <2>2. CASE ~(j <= n) /\ i <= n
    <3>1. all[i] <= k /\ all[j] > k
      BY <1>7, <2>2
    <3>. QED
      BY <2>0, <3>1
  <2>3. CASE ~(j <= n) /\ ~(i <= n)
    <3>1. i - n \in OwnPlaces(r) /\ j - n \in OwnPlaces(r) /\ i - n < j - n
      BY <1>7, <1>9, <2>0, <2>3
    <3>2. on[i - n] < on[j - n] /\ on[i - n] \in Int /\ on[j - n] \in Int
      BY <1>2, <1>6, <3>1
    <3>3. all[i] = k + on[i - n] /\ all[j] = k + on[j - n]
      BY <1>7, <2>3
    <3>. QED
      BY <2>0, <3>2, <3>3
  <2>. QED
    BY <2>1, <2>2, <2>3
<1>10. ASSUME NEW x \in B PROVE \E i \in A : all[i] = x
  <2>1. CASE x \in OwnPlaces(t)
    <3>1. PICK i \in OwnPlaces(s) : to[i] = x
      BY <1>1, <2>1
    <3>2. i \in A /\ i <= n
      BY <1>5
    <3>. QED
      BY <3>1, <3>2
  <2>2. CASE x - k \in OwnPlaces(u)
    <3>1. PICK i \in OwnPlaces(r) : on[i] = x - k
      BY <1>2, <2>2
    <3>2. n + i \in A /\ ~(n + i <= n) /\ (n + i) - n = i
      BY <1>5
    <3>3. all[n + i] = k + (x - k)
      BY <3>1, <3>2
    <3>4. x \in Int /\ k \in Int
      BY <1>6
    <3>5. k + (x - k) = x
      BY <3>4
    <3>. QED
      BY <3>2, <3>3, <3>5
  <2>. QED
    BY <1>4, <2>1, <2>2
<1>. HIDE DEF all
<1>11. /\ \A i \in A : (t \o u)[all[i]] = (s \o r)[i]
       /\ \A i, j \in A : i < j => all[i] < all[j]
       /\ \A x \in B : \E i \in A : all[i] = x
  BY <1>7, <1>9, <1>10
<1>. QED
  BY <1>8, <1>11 DEF SameText, A, B

(* Nothing of the project's is added or taken away.                        *)
LEMMA SameAfter ==
  ASSUME NEW s \in Seq(Prose), NEW r \in Seq(Prose), OwnPlaces(r) = {}
  PROVE  SameText(s, s \o r) /\ SameText(s \o r, s)
<1>1. <<>> \in Seq(Prose) /\ s \o <<>> = s
  BY EmptySeq, ConcatEmptySeq
<1>2. OwnPlaces(<<>>) = {}
  BY DEF OwnPlaces
<1>3. SameText(<<>>, r) /\ SameText(r, <<>>)
  BY <1>2, NothingOwn
<1>4. SameText(s \o <<>>, s \o r) /\ SameText(s \o r, s \o <<>>)
  BY <1>1, <1>3, SameReflexive, SameConcat
<1>. QED
  BY <1>1, <1>4

LEMMA SameTransitive ==
  ASSUME NEW s, NEW t, NEW u, SameText(s, t), SameText(t, u)
  PROVE  SameText(s, u)
<1>1. PICK to \in [OwnPlaces(s) -> OwnPlaces(t)] :
        /\ \A i \in OwnPlaces(s) : t[to[i]] = s[i]
        /\ \A i, j \in OwnPlaces(s) : i < j => to[i] < to[j]
        /\ \A k \in OwnPlaces(t) : \E i \in OwnPlaces(s) : to[i] = k
  BY DEF SameText
<1>2. PICK on \in [OwnPlaces(t) -> OwnPlaces(u)] :
        /\ \A i \in OwnPlaces(t) : u[on[i]] = t[i]
        /\ \A i, j \in OwnPlaces(t) : i < j => on[i] < on[j]
        /\ \A k \in OwnPlaces(u) : \E i \in OwnPlaces(t) : on[i] = k
  BY DEF SameText
<1>. DEFINE all == [i \in OwnPlaces(s) |-> on[to[i]]]
<1>3. all \in [OwnPlaces(s) -> OwnPlaces(u)] /\ \A i \in OwnPlaces(s) : all[i] = on[to[i]]
  BY <1>1, <1>2
<1>. HIDE DEF all
<1>4. \A i \in OwnPlaces(s) : u[all[i]] = s[i]
  BY <1>1, <1>2, <1>3
<1>5. \A i, j \in OwnPlaces(s) : i < j => all[i] < all[j]
  BY <1>1, <1>2, <1>3
<1>6. \A k \in OwnPlaces(u) : \E i \in OwnPlaces(s) : all[i] = k
  BY <1>1, <1>2, <1>3
<1>. QED
  BY <1>3, <1>4, <1>5, <1>6 DEF SameText

(* Lines that are not the project's may change in place.                   *)
LEMMA SameInPlace ==
  ASSUME NEW s, NEW t, DOMAIN s = DOMAIN t,
         \A i \in DOMAIN s : s[i] = t[i] \/ (s[i] \notin OwnLines /\ t[i] \notin OwnLines)
  PROVE  SameText(s, t)
<1>. DEFINE O == OwnPlaces(s)  to == [i \in O |-> i]
<1>1. OwnPlaces(t) = O /\ \A i \in O : s[i] = t[i]
  BY DEF OwnPlaces
<1>2. to \in [O -> O] /\ \A i \in O : to[i] = i
  OBVIOUS
<1>. HIDE DEF to, O
<1>3. /\ \A i \in O : t[to[i]] = s[i]
      /\ \A i, j \in O : i < j => to[i] < to[j]
      /\ \A k \in O : \E i \in O : to[i] = k
  BY <1>1, <1>2
<1>. QED
  BY <1>1, <1>2, <1>3 DEF SameText, O

(***************************************************************************)
(* The memory block of a text.                                             *)
(***************************************************************************)
Shift(k, S) == {k + i : i \in S}

LEMMA Shifted == \A k : Shift(k, {}) = {} /\ \A i : Shift(k, {i}) = {k + i}
BY DEF Shift

LEMMA ConcatPlaces ==
  ASSUME NEW W, NEW s \in Seq(W), NEW r \in Seq(W), NEW w
  PROVE  Places(s \o r, w) = Places(s, w) \cup Shift(Len(s), Places(r, w))
<1>1. /\ Len(s \o r) = Len(s) + Len(r) /\ Len(s) \in Nat /\ Len(r) \in Nat
      /\ \A k \in 1..(Len(s) + Len(r)) : (s \o r)[k] = IF k <= Len(s) THEN s[k] ELSE r[k - Len(s)]
  BY ConcatProperties, LenProperties
<1>2. ASSUME NEW x \in Places(s \o r, w)
      PROVE  x \in Places(s, w) \/ \E i \in Places(r, w) : x = Len(s) + i
  <2>1. x \in 1..(Len(s) + Len(r)) /\ (s \o r)[x] = w
    BY <1>1 DEF Places
  <2>2. CASE x <= Len(s)
    BY <1>1, <2>1, <2>2 DEF Places
  <2>3. CASE ~(x <= Len(s))
    <3>1. x - Len(s) \in 1..Len(r) /\ r[x - Len(s)] = w /\ x = Len(s) + (x - Len(s))
      BY <1>1, <2>1, <2>3
    <3>. QED
      BY <3>1 DEF Places
  <2>. QED
    BY <2>2, <2>3
<1>3. ASSUME NEW x \in Places(s, w) PROVE x \in Places(s \o r, w)
  BY <1>1 DEF Places
<1>4. ASSUME NEW i \in Places(r, w) PROVE Len(s) + i \in Places(s \o r, w)
  <2>1. i \in 1..Len(r) /\ r[i] = w
    BY DEF Places
  <2>2. /\ Len(s) + i \in 1..(Len(s) + Len(r)) /\ ~(Len(s) + i <= Len(s))
        /\ (Len(s) + i) - Len(s) = i
    BY <1>1, <2>1
  <2>3. (s \o r)[Len(s) + i] = w
    BY <1>1, <2>1, <2>2
  <2>. QED
    BY <1>1, <2>2, <2>3 DEF Places
<1>. QED
  BY <1>2, <1>3, <1>4 DEF Shift

Marks == {"<memory>", "</memory>"}

LEMMA TextPlaces ==
  ASSUME NEW a \in Seq(Prose), NEW m \in Body, NEW b \in Seq(Prose), NEW w \in Marks
  PROVE  Places(Text(a, m, b), w) = Places(a, w) \cup Shift(Len(a) + 3, Places(b, w))
<1>1. a \in Seq(Words) /\ b \in Seq(Words) /\ m \in Words /\ w # "BEGIN" /\ w # "END" /\ w # m
  BY ProseIsWords, WordsDiffer DEF Marks
<1>2. /\ Framed(m) \in Seq(Words) /\ Len(Framed(m)) = 3
      /\ Framed(m)[1] = "BEGIN" /\ Framed(m)[2] = m /\ Framed(m)[3] = "END"
  BY <1>1, FrameProperties
<1>3. Places(Framed(m), w) = {}
  <2>1. ASSUME NEW i \in 1..3 PROVE Framed(m)[i] # w
    BY <1>1, <1>2
  <2>. QED
    BY <1>2, <2>1 DEF Places
<1>4. Places(a \o Framed(m), w) = Places(a, w)
  <2>1. Places(a \o Framed(m), w) = Places(a, w) \cup Shift(Len(a), Places(Framed(m), w))
    BY <1>1, <1>2, ConcatPlaces
  <2>2. Shift(Len(a), {}) = {}
    BY Shifted
  <2>. QED
    BY <1>3, <2>1, <2>2
<1>. DEFINE p == a \o Framed(m)
<1>5. p \in Seq(Words) /\ Len(p) = Len(a) + 3
  <2>1. Framed(m) \in Seq(Words) /\ Len(Framed(m)) = 3
    BY <1>2
  <2>2. p \in Seq(Words) /\ Len(p) = Len(a) + Len(Framed(m))
    BY <1>1, <2>1, ConcatProperties
  <2>. QED
    BY <2>1, <2>2
<1>. HIDE DEF p
<1>6. Places(p \o b, w) = Places(p, w) \cup Shift(Len(p), Places(b, w))
  BY <1>1, <1>5, ConcatPlaces
<1>. QED
  BY <1>4, <1>5, <1>6 DEF Text, p

Remembered(t) == ~MemoryMissing(t) /\ ~MemoryMalformed(t)

(* What a text says of memory does not depend on the rules in its block.   *)
LEMMA MemoryStays ==
  ASSUME NEW a \in Seq(Prose), NEW m \in Body, NEW n \in Body, NEW b \in Seq(Prose)
  PROVE  /\ MemoryMissing(Text(a, m, b)) <=> MemoryMissing(Text(a, n, b))
         /\ MemoryMalformed(Text(a, m, b)) <=> MemoryMalformed(Text(a, n, b))
<1>1. ASSUME NEW w \in Marks PROVE Places(Text(a, m, b), w) = Places(Text(a, n, b), w)
  <2>1. Places(Text(a, m, b), w) = Places(a, w) \cup Shift(Len(a) + 3, Places(b, w))
    BY TextPlaces
  <2>2. Places(Text(a, n, b), w) = Places(a, w) \cup Shift(Len(a) + 3, Places(b, w))
    BY TextPlaces
  <2>. QED
    BY <2>1, <2>2
<1>2. Places(Text(a, m, b), "<memory>") = Places(Text(a, n, b), "<memory>")
  BY <1>1 DEF Marks
<1>3. Places(Text(a, m, b), "</memory>") = Places(Text(a, n, b), "</memory>")
  BY <1>1 DEF Marks
<1>4. Len(Text(a, m, b)) = Len(Text(a, n, b))
  <2>1. a \in Seq(Words) /\ b \in Seq(Words) /\ m \in Words /\ n \in Words
    BY ProseIsWords, WordsDiffer
  <2>2. Len(Text(a, m, b)) = Len(a) + 3 + Len(b) /\ Len(Text(a, n, b)) = Len(a) + 3 + Len(b)
    BY <2>1, TextProperties
  <2>. QED
    BY <2>2
<1>. QED
  BY <1>2, <1>3, <1>4 DEF MemoryMissing, MemoryMalformed

LEMMA MemoryOfProse ==
  ASSUME NEW t \in Seq(Prose), NEW m \in Body
  PROVE  /\ MemoryMissing(Text(t, m, <<>>)) <=> MemoryMissing(t)
         /\ MemoryMalformed(Text(t, m, <<>>)) => MemoryMalformed(t)
<1>0. <<>> \in Seq(Prose) /\ \A w : Places(<<>>, w) = {}
  BY EmptySeq DEF Places
<1>1. ASSUME NEW w \in Marks PROVE Places(Text(t, m, <<>>), w) = Places(t, w)
  <2>1. Places(Text(t, m, <<>>), w) = Places(t, w) \cup Shift(Len(t) + 3, Places(<<>>, w))
    <3>. DEFINE none == <<>>
    <3>1. none \in Seq(Prose)
      BY <1>0
    <3>. HIDE DEF none
    <3>2. Places(Text(t, m, none), w) = Places(t, w) \cup Shift(Len(t) + 3, Places(none, w))
      BY <3>1, TextPlaces
    <3>. QED
      BY <3>2 DEF none
  <2>2. Places(<<>>, w) = {} /\ Shift(Len(t) + 3, {}) = {}
    BY <1>0, Shifted
  <2>. QED
    BY <2>1, <2>2
<1>2. /\ Places(Text(t, m, <<>>), "<memory>") = Places(t, "<memory>")
      /\ Places(Text(t, m, <<>>), "</memory>") = Places(t, "</memory>")
  BY <1>1 DEF Marks
<1>3. Len(Text(t, m, <<>>)) = Len(t) + 3 /\ Len(t) \in Nat
  <2>1. t \in Seq(Words) /\ <<>> \in Seq(Words) /\ m \in Words /\ Len(<<>>) = 0
    BY <1>0, ProseIsWords, WordsDiffer
  <2>2. Len(t) \in Nat /\ Len(Text(t, m, <<>>)) = Len(t) + 3 + Len(<<>>)
    <3>. DEFINE none == <<>>
    <3>1. none \in Seq(Words)
      BY <2>1
    <3>. HIDE DEF none
    <3>2. Len(t) \in Nat /\ Len(Text(t, m, none)) = Len(t) + 3 + Len(none)
      BY <2>1, <3>1, TextProperties
    <3>. QED
      BY <3>2 DEF none
  <2>. QED
    BY <2>1, <2>2
<1>4. 1..Len(t) \subseteq 1..Len(Text(t, m, <<>>))
  BY <1>3
<1>. QED
  BY <1>2, <1>4 DEF MemoryMissing, MemoryMalformed

LEMMA DefaultIsProse ==
  /\ DefaultMemory \in Seq(Prose) /\ Len(DefaultMemory) = 3
  /\ Places(DefaultMemory, "<memory>") = {1} /\ Places(DefaultMemory, "</memory>") = {3}
  /\ OwnPlaces(DefaultMemory) = {}
<1>1. "<memory>" \in Prose /\ "no memory" \in Prose /\ "</memory>" \in Prose
  BY DEF Prose
<1>2. DefaultMemory \in Seq(Prose)
  <2>1. \A S, x, y, z : x \in S /\ y \in S /\ z \in S => <<x, y, z>> \in Seq(S)
    OBVIOUS
  <2>. QED
    BY <1>1, <2>1, Zenon DEF DefaultMemory
<1>3. /\ DOMAIN DefaultMemory = 1..3 /\ Len(DefaultMemory) = 3
      /\ DefaultMemory[1] = "<memory>" /\ DefaultMemory[2] = "no memory" /\ DefaultMemory[3] = "</memory>"
  BY DEF DefaultMemory
<1>4. \A i \in 1..3 : i = 1 \/ i = 2 \/ i = 3
  OBVIOUS
<1>. DEFINE x == "<memory>"  y == "no memory"  z == "</memory>"
<1>5. Places(DefaultMemory, x) = {1} /\ Places(DefaultMemory, z) = {3}
  <2>1. x # y /\ y # z /\ x # z
    OBVIOUS
  <2>2. /\ Len(DefaultMemory) = 3 /\ DefaultMemory[1] = x /\ DefaultMemory[2] = y
        /\ DefaultMemory[3] = z
    BY <1>3
  <2>. HIDE DEF x, y, z
  <2>. QED
    BY <1>4, <2>1, <2>2 DEF Places
<1>7. "<memory>" \notin OwnLines /\ "no memory" \notin OwnLines /\ "</memory>" \notin OwnLines
  BY DEF OwnLines
<1>8. OwnPlaces(DefaultMemory) = {}
  BY <1>3, <1>4, <1>7 DEF OwnPlaces
<1>. QED
  BY <1>2, <1>3, <1>5, <1>8

(* The memory block is added before the rules when there is none.          *)
LEMMA MemoryEnsured ==
  ASSUME NEW a \in Seq(Prose), NEW m \in Body, NEW b \in Seq(Prose),
         NEW t, t = Text(a, m, b), MemoryMissing(t)
  PROVE  EnsureMemory(t) = Text(a \o DefaultMemory, m, b)
<1>. DEFINE k == Len(a)  rest == SubSeq(t, k + 1, Len(t))
<1>0. a \in Seq(Words) /\ b \in Seq(Words) /\ m \in Words /\ DefaultMemory \in Seq(Words)
  BY ProseIsWords, WordsDiffer, DefaultIsProse
<1>1. t \in Seq(Words) /\ k \in Nat /\ Len(b) \in Nat /\ Len(t) = k + 3 + Len(b)
  BY <1>0, TextProperties
<1>2. Framed(m) \in Seq(Words) /\ Framed(m) \o b \in Seq(Words)
  BY <1>0, FrameProperties, ConcatProperties
<1>3. Places(t, "BEGIN") = {k + 1} /\ HasBlock(t) /\ Before(t) = a
  BY TextParts
<1>4. Least(Places(t, "BEGIN")) = k + 1
  BY <1>1, <1>3, LeastOfOne
<1>5. BlockBegin(t) = k + 1
  <2>1. Begins(t) \subseteq {k + 1} /\ Begins(t) # {}
    BY <1>3 DEF Begins, HasBlock
  <2>2. Begins(t) = {k + 1}
    BY <2>1
  <2>. QED
    BY <1>1, <2>2, LeastOfOne DEF BlockBegin
<1>6. SubSeq(t, 1, k + 1 - 1) = a
  BY <1>3, <1>5 DEF Before
<1>7. rest = Framed(m) \o b
  <2>1. SubSeq(t, 1, k) \o SubSeq(t, k + 1, Len(t)) = SubSeq(t, 1, Len(t))
    <3>1. 1 \in 1..(Len(t) + 1) /\ k \in (1 - 1)..Len(t) /\ Len(t) \in k..Len(t)
      BY <1>1
    <3>. HIDE DEF k
    <3>. QED
      BY <1>1, <3>1, ConcatAdjacentSubSeq
  <2>2. SubSeq(t, 1, Len(t)) = t
    BY <1>1, SubSeqFull
  <2>3. SubSeq(t, 1, k) = a
    BY <1>1, <1>6
  <2>4. t = a \o (Framed(m) \o b)
    BY <1>0, <1>2, ConcatAssociative DEF Text
  <2>5. rest \in Seq(Words)
    <3>1. \A i \in (k + 1)..Len(t) : t[i] \in Words
      BY <1>1, ElementOfSeq
    <3>. QED
      BY <1>1, <3>1, SubSeqProperties
  <2>6. a \o rest = a \o (Framed(m) \o b)
    BY <2>1, <2>2, <2>3, <2>4
  <2>7. \A s, r, v \in Seq(Words) : s \o r = s \o v => r = v
    BY ConcatSimplifications
  <2>. HIDE DEF rest
  <2>. QED
    BY <1>0, <1>2, <2>5, <2>6, <2>7
<1>8. EnsureMemory(t) = a \o DefaultMemory \o (Framed(m) \o b)
  <2>1. Places(t, "BEGIN") # {}
    BY <1>3
  <2>2. EnsureMemory(t) = SubSeq(t, 1, Least(Places(t, "BEGIN")) - 1) \o DefaultMemory
                            \o SubSeq(t, Least(Places(t, "BEGIN")), Len(t))
    BY <2>1 DEF EnsureMemory
  <2>3. SubSeq(t, 1, Least(Places(t, "BEGIN")) - 1) = a
    <3>1. \A x : x = k + 1 => SubSeq(t, 1, x - 1) = a
      BY <1>6
    <3>. QED
      BY <1>4, <3>1
  <2>4. SubSeq(t, Least(Places(t, "BEGIN")), Len(t)) = Framed(m) \o b
    BY <1>4, <1>7, Zenon
  <2>. QED
    BY <2>2, <2>3, <2>4, Zenon
<1>9. a \o DefaultMemory \in Seq(Words)
  BY <1>0, ConcatProperties
<1>10. a \o DefaultMemory \o (Framed(m) \o b) = (a \o DefaultMemory \o Framed(m)) \o b
  <2>. DEFINE p == a \o DefaultMemory
  <2>1. p \in Seq(Words)
    BY <1>9
  <2>. HIDE DEF p
  <2>2. (p \o Framed(m)) \o b = p \o (Framed(m) \o b)
    <3>1. Framed(m) \in Seq(Words)
      BY <1>2
    <3>. QED
      BY <1>0, <2>1, <3>1, ConcatAssociative
  <2>. QED
    BY <2>2 DEF p
<1>. QED
  BY <1>8, <1>10 DEF Text

LEMMA AddedIsRemembered ==
  ASSUME NEW a \in Seq(Prose), NEW m \in Body, NEW b \in Seq(Prose), MemoryMissing(Text(a, m, b))
  PROVE  Remembered(Text(a \o DefaultMemory, m, b))
<1>. DEFINE k == Len(a)  t == Text(a \o DefaultMemory, m, b)
<1>1. a \o DefaultMemory \in Seq(Prose) /\ Len(a \o DefaultMemory) = k + 3 /\ k \in Nat
  <2>1. DefaultMemory \in Seq(Prose) /\ Len(DefaultMemory) = 3 /\ k \in Nat
    BY DefaultIsProse, LenProperties
  <2>2. a \o DefaultMemory \in Seq(Prose) /\ Len(a \o DefaultMemory) = Len(a) + Len(DefaultMemory)
    BY <2>1, ConcatProperties
  <2>. QED
    BY <2>1, <2>2
<1>2. ASSUME NEW w \in Marks PROVE Places(a, w) = {} /\ Places(b, w) = {}
  <2>1. Places(Text(a, m, b), w) = {}
    BY DEF MemoryMissing, Marks
  <2>2. Places(Text(a, m, b), w) = Places(a, w) \cup Shift(Len(a) + 3, Places(b, w))
    BY TextPlaces
  <2>. QED
    BY <2>1, <2>2 DEF Shift
<1>3. ASSUME NEW w \in Marks PROVE Places(a \o DefaultMemory, w) = Shift(k, Places(DefaultMemory, w))
  <2>1. Places(a \o DefaultMemory, w) = Places(a, w) \cup Shift(Len(a), Places(DefaultMemory, w))
    BY DefaultIsProse, ConcatPlaces
  <2>. QED
    BY <1>2, <2>1
<1>4. ASSUME NEW w \in Marks PROVE Places(t, w) = Places(a \o DefaultMemory, w)
  <2>. DEFINE p == a \o DefaultMemory
  <2>1. p \in Seq(Prose)
    BY <1>1
  <2>. HIDE DEF p
  <2>2. Places(Text(p, m, b), w) = Places(p, w) \cup Shift(Len(p) + 3, Places(b, w))
    BY <2>1, TextPlaces
  <2>3. Places(b, w) = {} /\ Shift(Len(p) + 3, {}) = {}
    BY <1>2, Shifted
  <2>. QED
    BY <2>2, <2>3 DEF p
<1>5. Places(t, "<memory>") = {k + 1} /\ Places(t, "</memory>") = {k + 3}
  <2>1. /\ Places(t, "<memory>") = Shift(k, Places(DefaultMemory, "<memory>"))
        /\ Places(t, "</memory>") = Shift(k, Places(DefaultMemory, "</memory>"))
    BY <1>3, <1>4 DEF Marks
  <2>. HIDE DEF t
  <2>. QED
    BY <2>1, DefaultIsProse, Shifted
<1>6. k + 1 \in 1..Len(t) /\ k + 3 \in 1..Len(t)
  <2>1. a \o DefaultMemory \in Seq(Words) /\ b \in Seq(Words) /\ m \in Words
    BY <1>1, ProseIsWords, WordsDiffer
  <2>2. Len(t) = Len(a \o DefaultMemory) + 3 + Len(b) /\ Len(b) \in Nat
    <3>. DEFINE p == a \o DefaultMemory
    <3>1. p \in Seq(Words)
      BY <2>1
    <3>. HIDE DEF p
    <3>2. Len(Text(p, m, b)) = Len(p) + 3 + Len(b) /\ Len(b) \in Nat
      BY <2>1, <3>1, TextProperties
    <3>. QED
      BY <3>2 DEF p
  <2>. QED
    BY <1>1, <2>2
<1>. HIDE DEF t, k
<1>7. k + 1 < k + 3
  BY <1>1 DEF k
<1>8. ~MemoryMissing(t)
  BY <1>5 DEF MemoryMissing
<1>9. ~MemoryMalformed(t)
  BY <1>5, <1>6, <1>7 DEF MemoryMalformed
<1>. QED
  BY <1>8, <1>9 DEF Remembered, t

(* A line written above leaves the memory what it is.                      *)
LEMMA MemoryBelow ==
  ASSUME NEW t \in Seq(Words), NEW x \in Prose \ Marks, Remembered(t)
  PROVE  Remembered(<<x>> \o t)
<1>1. <<x>> \in Seq(Words) /\ Len(<<x>>) = 1 /\ <<x>>[1] = x
  <2>1. x \in Words
    BY WordsDiffer
  <2>. QED
    BY <2>1
<1>2. \A w \in Marks : Places(<<x>>, w) = {}
  BY <1>1 DEF Places
<1>3. ASSUME NEW w \in Marks PROVE Places(<<x>> \o t, w) = Shift(1, Places(t, w))
  <2>1. Places(<<x>> \o t, w) = Places(<<x>>, w) \cup Shift(Len(<<x>>), Places(t, w))
    <3>. DEFINE p == <<x>>
    <3>1. p \in Seq(Words)
      BY <1>1
    <3>. HIDE DEF p
    <3>2. Places(p \o t, w) = Places(p, w) \cup Shift(Len(p), Places(t, w))
      BY <3>1, ConcatPlaces
    <3>. QED
      BY <3>2 DEF p
  <2>. QED
    BY <1>1, <1>2, <2>1
<1>4. Len(<<x>> \o t) = 1 + Len(t) /\ Len(t) \in Nat
  BY <1>1, ConcatProperties, LenProperties
<1>5. PICK i \in 1..Len(t), j \in 1..Len(t) :
        Places(t, "<memory>") = {i} /\ Places(t, "</memory>") = {j} /\ i < j
  BY DEF Remembered, MemoryMalformed
<1>6. Places(<<x>> \o t, "<memory>") = {1 + i} /\ Places(<<x>> \o t, "</memory>") = {1 + j}
  BY <1>3, <1>5, Shifted DEF Marks
<1>7. 1 + i \in 1..Len(<<x>> \o t) /\ 1 + j \in 1..Len(<<x>> \o t) /\ 1 + i < 1 + j
  BY <1>4, <1>5
<1>8. ~MemoryMissing(<<x>> \o t)
  BY <1>6 DEF MemoryMissing
<1>9. ~MemoryMalformed(<<x>> \o t)
  BY <1>6, <1>7 DEF MemoryMalformed
<1>. QED
  BY <1>8, <1>9 DEF Remembered

(***************************************************************************)
(* The frontmatter.                                                        *)
(***************************************************************************)
Entries == {"-", "Read", "Skill", "Task", "navigation", "glued", "model"}
Fms == [on : BOOLEAN, tools : SUBSET Entries, deny : SUBSET Entries, skills : SUBSET Entries,
        own : SUBSET Entries]

(* The architect's list of skills has the one VCM requires: what would     *)
(* glue two entries together is an odd input.                              *)
FitFm(f, fm) ==
  fm \in Fms /\ (f = "architect" /\ fm.on => fm.skills = NoLine \/ "navigation" \in fm.skills)

LEMMA NoFmFits == /\ NoFm \in Fms /\ NoFm.on = FALSE /\ NoFm.own = {}
                  /\ \A f : FitFm(f, NoFm)
<1>1. NoFm \in Fms /\ NoFm.on = FALSE /\ NoFm.own = {}
  BY DEF NoFm, NoLine, Fms, Entries
<1>. QED
  BY <1>1 DEF FitFm

LEMMA NewFmFits ==
  ASSUME NEW f \in Managed
  PROVE  FitFm(f, NewFm(f)) /\ NewFm(f).own = {}
<1>1. CASE f \notin Agents
  BY <1>1, NoFmFits DEF NewFm
<1>2. CASE f \in Agents
  <2>1. /\ NewFm(f) \in Fms /\ NewFm(f).own = {}
        /\ f = "architect" => NewFm(f).skills = {"navigation"}
    BY <1>2 DEF NewFm, NoFm, NoLine, Fms, Entries, RequiredDeny, RequiredSkills, OrNoLine, Agents
  <2>. QED
    BY <2>1 DEF FitFm
<1>. QED
  BY <1>1, <1>2

LEMMA AllowedFits ==
  ASSUME NEW fm \in Fms, NEW g, g = EnsureAllowed(fm, {"Skill"})
  PROVE  g \in Fms /\ g.own = fm.own /\ EnsureAllowed(g, {"Skill"}) = g
<1>1. {"Skill"} # {} /\ {"Skill"} \subseteq Entries
  BY DEF Entries
<1>2. CASE ~fm.on
  BY <1>2 DEF EnsureAllowed
<1>3. CASE fm.on /\ fm.tools # NoLine
  <2>1. g = [fm EXCEPT !.tools = fm.tools \union {"Skill"}]
    BY <1>3 DEF EnsureAllowed
  <2>2. g \in Fms /\ g.own = fm.own /\ g.on = fm.on /\ g.tools = fm.tools \union {"Skill"}
    BY <1>1, <2>1 DEF Fms
  <2>3. g.tools # NoLine /\ g.tools \union {"Skill"} = g.tools
    BY <2>2 DEF NoLine
  <2>4. [g EXCEPT !.tools = g.tools] = g
    BY <2>2 DEF Fms
  <2>. QED
    BY <1>3, <2>2, <2>3, <2>4 DEF EnsureAllowed
<1>4. CASE fm.on /\ fm.tools = NoLine /\ fm.deny # NoLine
  <2>1. g = [fm EXCEPT !.deny = OrNoLine(fm.deny \ {"Skill"})]
    BY <1>1, <1>4 DEF EnsureAllowed
  <2>2. OrNoLine(fm.deny \ {"Skill"}) \in SUBSET Entries
    BY DEF OrNoLine, NoLine, Fms, Entries
  <2>3. /\ g \in Fms /\ g.own = fm.own /\ g.on = fm.on /\ g.tools = NoLine
        /\ g.deny = OrNoLine(fm.deny \ {"Skill"})
    BY <1>4, <2>1, <2>2 DEF Fms
  <2>4. OrNoLine(g.deny \ {"Skill"}) = g.deny
    BY <2>3 DEF OrNoLine, NoLine
  <2>5. [g EXCEPT !.deny = g.deny] = g
    BY <2>3 DEF Fms
  <2>. QED
    BY <1>1, <1>4, <2>3, <2>4, <2>5 DEF EnsureAllowed
<1>5. CASE fm.on /\ fm.tools = NoLine /\ fm.deny = NoLine
  BY <1>1, <1>5 DEF EnsureAllowed
<1>. QED
  BY <1>2, <1>3, <1>4, <1>5

LEMMA DeniedFits ==
  ASSUME NEW fm \in Fms, NEW g, g = EnsureDenied(fm, {"Task"})
  PROVE  /\ g \in Fms /\ g.own = fm.own /\ g.on = fm.on /\ g.skills = fm.skills
         /\ fm.on => g.tools = NoLine /\ "Task" \in g.deny
         /\ ~fm.on => g = fm
<1>1. {"Task"} # {} /\ {"Task"} \subseteq Entries /\ NoLine \subseteq Entries
  BY DEF Entries, NoLine
<1>2. CASE ~fm.on
  BY <1>2 DEF EnsureDenied
<1>3. CASE fm.on
  <2>. DEFINE d == (IF fm.deny = NoLine THEN {} ELSE fm.deny) \union {"Task"}
  <2>1. g = [fm EXCEPT !.tools = NoLine, !.deny = d]
    BY <1>1, <1>3 DEF EnsureDenied
  <2>2. d \in SUBSET Entries /\ "Task" \in d
    BY <1>1 DEF Fms
  <2>. HIDE DEF d
  <2>3. /\ g \in Fms /\ g.own = fm.own /\ g.on = fm.on /\ g.skills = fm.skills
        /\ g.tools = NoLine /\ g.deny = d
    BY <1>1, <2>1, <2>2 DEF Fms
  <2>. QED
    BY <1>3, <2>2, <2>3
<1>. QED
  BY <1>2, <1>3

(* Denied twice is denied once.                                            *)
LEMMA DeniedIsFixed ==
  ASSUME NEW g \in Fms, g.on => g.tools = NoLine /\ "Task" \in g.deny
  PROVE  EnsureDenied(g, {"Task"}) = g
<1>1. CASE ~g.on
  BY <1>1 DEF EnsureDenied
<1>2. CASE g.on
  <2>1. (IF g.deny = NoLine THEN {} ELSE g.deny) \union {"Task"} = g.deny
    BY <1>2 DEF NoLine
  <2>2. [g EXCEPT !.tools = NoLine, !.deny = g.deny] = g
    BY <1>2 DEF Fms
  <2>3. EnsureDenied(g, {"Task"}) =
          [g EXCEPT !.tools = NoLine,
                    !.deny = (IF g.deny = NoLine THEN {} ELSE g.deny) \union {"Task"}]
    BY <1>2 DEF EnsureDenied
  <2>. QED
    BY <2>1, <2>2, <2>3
<1>. QED
  BY <1>1, <1>2

LEMMA RemovedFits ==
  ASSUME NEW g \in Fms, NEW h, h = RemoveSkills(g, {"navigation"})
  PROVE  /\ h \in Fms /\ h.own = g.own /\ h.on = g.on /\ h.tools = g.tools /\ h.deny = g.deny
         /\ RemoveSkills(h, {"navigation"}) = h
<1>1. CASE ~g.on \/ g.skills \intersect {"navigation"} = {}
  BY <1>1 DEF RemoveSkills
<1>2. CASE g.on /\ g.skills \intersect {"navigation"} # {}
  <2>. DEFINE s == OrNoLine(g.skills \ {"navigation"})
  <2>1. h = [g EXCEPT !.skills = s]
    BY <1>2 DEF RemoveSkills
  <2>2. s \in SUBSET Entries /\ s \intersect {"navigation"} = {}
    BY DEF OrNoLine, NoLine, Fms, Entries
  <2>. HIDE DEF s
  <2>3. /\ h \in Fms /\ h.own = g.own /\ h.on = g.on /\ h.tools = g.tools /\ h.deny = g.deny
        /\ h.skills = s
    BY <2>1, <2>2 DEF Fms
  <2>. QED
    BY <2>2, <2>3 DEF RemoveSkills
<1>. QED
  BY <1>1, <1>2

LEMMA PreloadedFits ==
  ASSUME NEW g, FitFm("architect", g), NEW h, h = EnsureSkills(g, {"navigation"})
  PROVE  /\ FitFm("architect", h) /\ h.own = g.own /\ h.on = g.on /\ h.tools = g.tools
         /\ h.deny = g.deny /\ EnsureSkills(h, {"navigation"}) = h
<1>1. {"navigation"} # {} /\ {"navigation"} \subseteq Entries /\ g \in Fms
  BY DEF Entries, FitFm
<1>2. CASE ~g.on \/ g.skills # NoLine
  BY <1>1, <1>2 DEF EnsureSkills, FitFm
<1>3. CASE g.on /\ g.skills = NoLine
  <2>1. h = [g EXCEPT !.skills = {"navigation"}]
    BY <1>1, <1>3 DEF EnsureSkills
  <2>2. /\ h \in Fms /\ h.own = g.own /\ h.on = g.on /\ h.tools = g.tools /\ h.deny = g.deny
        /\ h.skills = {"navigation"}
    BY <1>1, <2>1 DEF Fms
  <2>3. {"navigation"} # NoLine
    BY DEF NoLine
  <2>. QED
    BY <2>2, <2>3 DEF EnsureSkills, FitFm
<1>. QED
  BY <1>2, <1>3

(* Normalizing keeps what is the project's, and a second time does nothing.*)
LEMMA NormalFm ==
  ASSUME NEW f \in Managed, NEW fm, FitFm(f, fm), NEW h, h = NormalizeFm(f, fm)
  PROVE  FitFm(f, h) /\ h.own = fm.own /\ NormalizeFm(f, h) = h
<1>0. fm \in Fms
  BY DEF FitFm
<1>1. \A g : /\ EnsureAllowed(g, {}) = g /\ EnsureDenied(g, {}) = g /\ EnsureSkills(g, {}) = g
             /\ RemoveSkills(g, {}) = g
  BY DEF EnsureAllowed, EnsureDenied, EnsureSkills, RemoveSkills
<1>2. CASE f = "manager"
  <2>1. \A g : NormalizeFm(f, g) = EnsureAllowed(g, {"Skill"})
    BY <1>1, <1>2 DEF NormalizeFm, RequiredTools, RequiredDeny, RequiredSkills, RemovedSkills
  <2>2. h \in Fms /\ h.own = fm.own /\ EnsureAllowed(h, {"Skill"}) = h
    BY <1>0, <2>1, AllowedFits
  <2>. QED
    BY <1>2, <2>1, <2>2 DEF FitFm
<1>3. CASE f \in {"coder", "reviewer"}
  <2>1. \A g : NormalizeFm(f, g) = RemoveSkills(EnsureDenied(g, {"Task"}), {"navigation"})
    BY <1>1, <1>3 DEF NormalizeFm, RequiredTools, RequiredDeny, RequiredSkills, RemovedSkills
  <2>. DEFINE g == EnsureDenied(fm, {"Task"})
  <2>2. /\ g \in Fms /\ g.own = fm.own /\ g.on = fm.on
        /\ fm.on => g.tools = NoLine /\ "Task" \in g.deny
    BY <1>0, DeniedFits
  <2>3. h = RemoveSkills(g, {"navigation"})
    BY <2>1
  <2>. HIDE DEF g
  <2>4. /\ h \in Fms /\ h.own = g.own /\ h.on = g.on /\ h.tools = g.tools /\ h.deny = g.deny
        /\ RemoveSkills(h, {"navigation"}) = h
    BY <2>2, <2>3, RemovedFits
  <2>5. EnsureDenied(h, {"Task"}) = h
    BY <2>2, <2>4, DeniedIsFixed
  <2>. QED
    BY <1>3, <2>1, <2>2, <2>4, <2>5 DEF FitFm
<1>4. CASE f = "architect"
  <2>1. \A g : NormalizeFm(f, g) = EnsureSkills(EnsureDenied(g, {"Task"}), {"navigation"})
    BY <1>1, <1>4 DEF NormalizeFm, RequiredTools, RequiredDeny, RequiredSkills, RemovedSkills
  <2>. DEFINE g == EnsureDenied(fm, {"Task"})
  <2>2. /\ g \in Fms /\ g.own = fm.own /\ g.on = fm.on /\ g.skills = fm.skills
        /\ fm.on => g.tools = NoLine /\ "Task" \in g.deny
    BY <1>0, DeniedFits
  <2>3. h = EnsureSkills(g, {"navigation"})
    BY <2>1
  <2>. HIDE DEF g
  <2>4. FitFm("architect", g)
    BY <1>4, <2>2 DEF FitFm
  <2>5. /\ FitFm("architect", h) /\ h.own = g.own /\ h.on = g.on /\ h.tools = g.tools
        /\ h.deny = g.deny /\ EnsureSkills(h, {"navigation"}) = h
    BY <2>3, <2>4, PreloadedFits
  <2>6. EnsureDenied(h, {"Task"}) = h
    BY <2>2, <2>5, DeniedIsFixed DEF FitFm
  <2>. QED
    BY <1>4, <2>1, <2>2, <2>5, <2>6
<1>5. CASE f \notin Agents
  <2>1. \A g : NormalizeFm(f, g) = g
    BY <1>1, <1>5 DEF NormalizeFm, RequiredTools, RequiredDeny, RequiredSkills, RemovedSkills, Agents
  <2>. QED
    BY <2>1
<1>. QED
  BY <1>2, <1>3, <1>4, <1>5 DEF Agents

(***************************************************************************)
(* A managed file as it is, and as the script installs it.                 *)
(***************************************************************************)
Sheets == [fm : Fms, lines : FitTexts]
FitSheet(f, c) == c \in Sheets /\ FitFm(f, c.fm)
\* Nothing is left to do.
Settled(f, c, v) ==
  /\ FitSheet(f, c) /\ NormalizeFm(f, c.fm) = c.fm
  /\ \E a, b \in Seq(Prose) : c.lines = Text(a, Rules(v), b)
  /\ f \in Remembers => Remembered(c.lines)

LEMMA TextIsText ==
  ASSUME NEW a \in Seq(Prose), NEW m \in Body, NEW b \in Seq(Prose)
  PROVE  Text(a, m, b) \in FitTexts
BY DEF FitTexts

(* A record as the code updates it.                                        *)
LEMMA SheetUpdated ==
  ASSUME NEW c \in Sheets
  PROVE  /\ c.fm \in Fms /\ c.lines \in FitTexts
         /\ [c EXCEPT !.lines = c.lines] = c /\ [c EXCEPT !.fm = c.fm] = c
         /\ \A t : /\ [c EXCEPT !.lines = t].fm = c.fm /\ [c EXCEPT !.lines = t].lines = t
                   /\ t \in FitTexts => [c EXCEPT !.lines = t] \in Sheets
         /\ \A g : /\ [c EXCEPT !.fm = g].lines = c.lines /\ [c EXCEPT !.fm = g].fm = g
                   /\ g \in Fms => [c EXCEPT !.fm = g] \in Sheets
<1>. HIDE DEF Fms, FitTexts
<1>. QED
  BY DEF Sheets

LEMMA OneLine ==
  ASSUME NEW x \in Prose
  PROVE  /\ <<x>> \in Seq(Prose) /\ Len(<<x>>) = 1 /\ <<x>>[1] = x
         /\ x \notin OwnLines => OwnPlaces(<<x>>) = {}
<1>1. <<x>> \in Seq(Prose) /\ Len(<<x>>) = 1 /\ <<x>>[1] = x /\ DOMAIN <<x>> = {1}
  OBVIOUS
<1>. QED
  BY <1>1 DEF OwnPlaces

LEMMA HeadOfProse ==
  ASSUME NEW t \in Seq(Prose), Len(t) > 0
  PROVE  t = <<t[1]>> \o Tail(t) /\ t[1] \in Prose /\ Tail(t) \in Seq(Prose) /\ Len(t) \in Nat
<1>1. Len(t) \in Nat /\ 1 \in 1..Len(t) /\ Len(t) \in 1..Len(t) /\ t # <<>>
  BY LenProperties, EmptySeq
<1>2. SubSeq(t, 1, Len(t)) = <<t[1]>> \o SubSeq(t, 1 + 1, Len(t))
  BY <1>1, SubSeqRecursiveFirst
<1>3. SubSeq(t, 1, Len(t)) = t /\ Tail(t) = SubSeq(t, 2, Len(t))
  BY <1>1, SubSeqFull, TailIsSubSeq
<1>4. 1 + 1 = 2
  OBVIOUS
<1>. QED
  BY <1>1, <1>2, <1>3, <1>4, ElementOfSeq, HeadTailProperties

(* The file before memory and frontmatter are seen to.                     *)
Base(f, c, v) == IF c \in {Absent, Plain(<<>>)} THEN NewFile(f, v) ELSE WithBlock(f, c, v)
BaseFits(f, c, v, base) ==
  /\ FitSheet(f, base)
  /\ c # Absent => base.fm.own = c.fm.own
  /\ \E a, b \in Seq(Prose) :
       /\ base.lines = Text(a, Rules(v), b)
       /\ c # Absent => SameText(Outside(c.lines), a \o b)
  /\ f \in Remembers /\ ~MemoryMalformed(c.lines) => ~MemoryMalformed(base.lines)

LEMMA NewFileFits ==
  ASSUME NEW f \in Managed, NEW v \in 1..2, NEW c \in {Absent, Plain(<<>>)}
  PROVE  BaseFits(f, c, v, NewFile(f, v))
<1>. DEFINE b == IF f \in Migrates THEN <<"section">> ELSE <<>>
            base == NewFile(f, v)
<1>1. "title" \in Prose /\ "section" \in Prose /\ "title" \notin OwnLines /\ "section" \notin OwnLines
  BY DEF Prose, OwnLines
<1>2. b \in Seq(Prose) /\ OwnPlaces(b) = {} /\ (f \in Remembers => b = <<>>)
  <2>1. <<>> \in Seq(Prose) /\ OwnPlaces(<<>>) = {}
    BY EmptySeq DEF OwnPlaces
  <2>2. <<"section">> \in Seq(Prose) /\ OwnPlaces(<<"section">>) = {}
    BY <1>1, OneLine
  <2>3. f \in Migrates => f \notin Remembers
    BY DEF Migrates, Remembers, Agents
  <2>. QED
    BY <2>1, <2>2, <2>3
<1>3. <<"title">> \in Seq(Prose) /\ OwnPlaces(<<"title">>) = {}
  BY <1>1, OneLine
<1>4. base.fm = NewFm(f) /\ base.lines = Text(<<"title">>, Rules(v), b)
  BY RulesAreBody DEF NewFile, Text, DefaultSection
<1>5. Rules(v) \in Body
  BY RulesAreBody
<1>6. FitFm(f, base.fm) /\ base.fm.own = {}
  BY <1>4, NewFmFits
<1>7. base.lines \in FitTexts
  BY <1>2, <1>3, <1>4, <1>5, TextIsText
<1>8. base = [fm |-> base.fm, lines |-> base.lines]
  BY DEF NewFile
<1>9. FitSheet(f, base)
  BY <1>6, <1>7, <1>8 DEF FitSheet, Sheets, FitFm
<1>10. c # Absent => base.fm.own = c.fm.own /\ SameText(Outside(c.lines), <<"title">> \o b)
  <2>. SUFFICES ASSUME c = Plain(<<>>)
                PROVE  base.fm.own = c.fm.own /\ SameText(Outside(c.lines), <<"title">> \o b)
    OBVIOUS
  <2>1. c.fm = NoFm /\ c.lines = <<>>
    BY DEF Plain
  <2>2. Outside(<<>>) = <<>> /\ <<>> \in Seq(Prose)
    BY EmptySeq, ProsePlaces
  <2>3. SameText(<<>>, <<"title">>) /\ SameText(<<>>, b)
    BY <1>2, <1>3, NothingOwn DEF OwnPlaces
  <2>4. SameText(<<>> \o <<>>, <<"title">> \o b)
    BY <1>2, <1>3, <2>2, <2>3, SameConcat
  <2>5. <<>> \o <<>> = <<>>
    BY <2>2, ConcatEmptySeq
  <2>. QED
    BY <1>6, <2>1, <2>2, <2>4, <2>5, NoFmFits
<1>11. f \in Remembers => ~MemoryMalformed(base.lines)
  <2>. SUFFICES ASSUME f \in Remembers PROVE ~MemoryMalformed(base.lines)
    OBVIOUS
  <2>1. base.lines = Text(<<"title">>, Rules(v), <<>>)
    BY <1>2, <1>4
  <2>2. MemoryMissing(<<"title">>)
    <3>1. Len(<<"title">>) = 1 /\ <<"title">>[1] = "title"
      BY <1>1, OneLine
    <3>. QED
      BY <3>1 DEF MemoryMissing, Places
  <2>3. MemoryMissing(base.lines)
    <3>. DEFINE p == <<"title">>  m == Rules(v)
    <3>1. p \in Seq(Prose) /\ m \in Body /\ MemoryMissing(p)
      BY <1>3, <1>5, <2>2
    <3>. HIDE DEF p, m
    <3>2. MemoryMissing(Text(p, m, <<>>))
      BY <3>1, MemoryOfProse
    <3>. QED
      BY <2>1, <3>2, Zenon DEF p, m
  <2>. QED
    BY <2>3 DEF MemoryMalformed
<1>. QED
  BY <1>2, <1>3, <1>4, <1>6, <1>9, <1>10, <1>11 DEF BaseFits

LEMMA WithBlockFits ==
  ASSUME NEW f \in Managed, NEW v \in 1..2, NEW c, FitSheet(f, c)
  PROVE  BaseFits(f, c, v, WithBlock(f, c, v))
<1>. DEFINE base == WithBlock(f, c, v)  t == c.lines
<1>0. c \in Sheets /\ FitFm(f, c.fm) /\ t \in FitTexts /\ Rules(v) \in Body
  BY SheetUpdated, RulesAreBody DEF FitSheet
<1>1. ASSUME NEW u \in FitTexts, base = [c EXCEPT !.lines = u]
      PROVE  FitSheet(f, base) /\ base.fm.own = c.fm.own /\ base.lines = u
  BY <1>0, <1>1, SheetUpdated DEF FitSheet
<1>2. CASE HasBlock(t)
  <2>1. t \notin Seq(Prose)
    BY <1>2, ProsePlaces
  <2>2. PICK a \in Seq(Prose), m \in Body, b \in Seq(Prose) : t = Text(a, m, b)
    BY <1>0, <2>1 DEF FitTexts
  <2>3. ReplaceBlock(t, v) = Text(a, Rules(v), b) /\ Outside(t) = a \o b
    BY <2>2, TextParts
  <2>4. base = [c EXCEPT !.lines = Text(a, Rules(v), b)]
    BY <1>2, <2>3 DEF WithBlock
  <2>5. Text(a, Rules(v), b) \in FitTexts
    BY <1>0, TextIsText
  <2>6. FitSheet(f, base) /\ base.fm.own = c.fm.own /\ base.lines = Text(a, Rules(v), b)
    BY <1>1, <2>4, <2>5
  <2>7. SameText(Outside(t), a \o b)
    BY <2>3, SameReflexive
  <2>8. ~MemoryMalformed(t) => ~MemoryMalformed(base.lines)
    BY <1>0, <2>2, <2>6, MemoryStays
  <2>. QED
    BY <2>6, <2>7, <2>8 DEF BaseFits
<1>3. ASSUME ~HasBlock(t) PROVE t \in Seq(Prose) /\ Outside(t) = t
  <2>1. \A a \in Seq(Prose), m \in Body, b \in Seq(Prose) : HasBlock(Text(a, m, b))
    BY TextParts
  <2>2. t \in Seq(Prose)
    BY <1>0, <1>3, <2>1 DEF FitTexts
  <2>. QED
    BY <2>2, ProsePlaces
<1>4. CASE ~HasBlock(t) /\ IsLegacy(f, t)
  <2>. DEFINE b == IF Len(t) > 1 THEN Tail(t) ELSE <<"section">>
  <2>1. t \in Seq(Prose) /\ Outside(t) = t /\ Len(t) > 0 /\ t[1] = "legacy" /\ f \notin Remembers
    BY <1>3, <1>4 DEF IsLegacy, Migrates, Remembers, Agents
  <2>2. t = <<"legacy">> \o Tail(t) /\ Tail(t) \in Seq(Prose) /\ Len(t) \in Nat
    BY <2>1, HeadOfProse
  <2>3. /\ "title" \in Prose /\ "section" \in Prose /\ "legacy" \in Prose
        /\ "title" \notin OwnLines /\ "section" \notin OwnLines /\ "legacy" \notin OwnLines
    BY DEF Prose, OwnLines
  <2>4. /\ <<"title">> \in Seq(Prose) /\ <<"section">> \in Seq(Prose) /\ <<"legacy">> \in Seq(Prose)
        /\ OwnPlaces(<<"title">>) = {} /\ OwnPlaces(<<"section">>) = {} /\ OwnPlaces(<<"legacy">>) = {}
    BY <2>3, OneLine
  <2>5. b \in Seq(Prose)
    BY <2>2, <2>4
  <2>6. SameText(Tail(t), b)
    <3>1. CASE Len(t) > 1
      BY <3>1, SameReflexive
    <3>2. CASE ~(Len(t) > 1)
      <4>1. Len(Tail(t)) = 0
        <5>1. t # <<>>
          BY <2>1, EmptySeq
        <5>. QED
          BY <2>1, <2>2, <3>2, <5>1, HeadTailProperties
      <4>2. DOMAIN Tail(t) = {}
        BY <2>2, <4>1, LenProperties
      <4>3. OwnPlaces(Tail(t)) = {}
        BY <4>2 DEF OwnPlaces
      <4>. QED
        BY <2>4, <3>2, <4>3, NothingOwn
    <3>. QED
      BY <3>1, <3>2
  <2>7. SameText(<<"legacy">>, <<"title">>)
    BY <2>4, NothingOwn
  <2>. HIDE DEF b
  <2>8. SameText(<<"legacy">> \o Tail(t), <<"title">> \o b)
    BY <2>2, <2>4, <2>5, <2>6, <2>7, SameConcat
  <2>9. SameText(Outside(t), <<"title">> \o b)
    BY <2>1, <2>2, <2>8
  <2>10. base = [c EXCEPT !.lines = Text(<<"title">>, Rules(v), b)]
    BY <1>4, RulesAreBody DEF WithBlock, Migrated, Text, DefaultSection, b
  <2>11. Text(<<"title">>, Rules(v), b) \in FitTexts
    BY <1>0, <2>4, <2>5, TextIsText
  <2>12. FitSheet(f, base) /\ base.fm.own = c.fm.own /\ base.lines = Text(<<"title">>, Rules(v), b)
    BY <1>1, <2>10, <2>11
  <2>. QED
    BY <2>1, <2>4, <2>5, <2>9, <2>12 DEF BaseFits
<1>5. CASE ~HasBlock(t) /\ ~IsLegacy(f, t)
  <2>1. t \in Seq(Prose) /\ Outside(t) = t /\ <<>> \in Seq(Prose)
    BY <1>3, <1>5, EmptySeq
  <2>2. InsertBlock(t, v) = Text(t, Rules(v), <<>>)
    <3>1. t \in Seq(Words) /\ Framed(Rules(v)) \in Seq(Words)
      BY <1>0, <2>1, ProseIsWords, WordsDiffer, FrameProperties
    <3>2. t \o Framed(Rules(v)) \in Seq(Words)
      BY <3>1, ConcatProperties
    <3>3. (t \o Framed(Rules(v))) \o <<>> = t \o Framed(Rules(v))
      BY <3>2, ConcatEmptySeq
    <3>. QED
      BY <3>3, RulesAreBody DEF InsertBlock, Text
  <2>3. base = [c EXCEPT !.lines = Text(t, Rules(v), <<>>)]
    BY <1>5, <2>2 DEF WithBlock
  <2>4. Text(t, Rules(v), <<>>) \in FitTexts
    BY <1>0, <2>1, TextIsText
  <2>5. FitSheet(f, base) /\ base.fm.own = c.fm.own /\ base.lines = Text(t, Rules(v), <<>>)
    BY <1>1, <2>3, <2>4
  <2>6. t \o <<>> = t
    BY <2>1, ConcatEmptySeq
  <2>7. SameText(Outside(t), t \o <<>>)
    BY <2>1, <2>6, SameReflexive
  <2>8. ~MemoryMalformed(t) => ~MemoryMalformed(base.lines)
    BY <1>0, <2>1, <2>5, MemoryOfProse
  <2>. QED
    BY <2>1, <2>5, <2>7, <2>8 DEF BaseFits
<1>. QED
  BY <1>2, <1>4, <1>5

LEMMA RememberFits ==
  ASSUME NEW f \in Managed, NEW v \in 1..2, NEW c, NEW base, BaseFits(f, c, v, base)
  PROVE  LET d == Remember(f, base)
         IN /\ BaseFits(f, c, v, d)
            /\ f \in Remembers /\ ~MemoryMalformed(c.lines) => Remembered(d.lines)
<1>. DEFINE d == Remember(f, base)  t == base.lines
<1>1. PICK a \in Seq(Prose), b \in Seq(Prose) :
        t = Text(a, Rules(v), b) /\ (c # Absent => SameText(Outside(c.lines), a \o b))
  BY Zenon DEF BaseFits
<1>2. /\ FitSheet(f, base) /\ base \in Sheets /\ (c # Absent => base.fm.own = c.fm.own)
      /\ f \in Remembers /\ ~MemoryMalformed(c.lines) => ~MemoryMalformed(t)
  BY DEF BaseFits, FitSheet
<1>3. CASE f \notin Remembers
  BY <1>3 DEF Remember
<1>4. CASE f \in Remembers /\ ~MemoryMissing(t)
  <2>1. EnsureMemory(t) = t
    BY <1>4 DEF EnsureMemory
  <2>2. d = base
    BY <1>2, <1>4, <2>1, SheetUpdated DEF Remember
  <2>. QED
    BY <1>2, <1>4, <2>2 DEF Remembered
<1>5. CASE f \in Remembers /\ MemoryMissing(t)
  <2>0. Rules(v) \in Body
    BY RulesAreBody
  <2>1. EnsureMemory(t) = Text(a \o DefaultMemory, Rules(v), b)
    BY <1>1, <1>5, <2>0, MemoryEnsured
  <2>2. d = [base EXCEPT !.lines = Text(a \o DefaultMemory, Rules(v), b)]
    BY <1>5, <2>1 DEF Remember
  <2>3. a \o DefaultMemory \in Seq(Prose)
    BY DefaultIsProse, ConcatProperties
  <2>4. Text(a \o DefaultMemory, Rules(v), b) \in FitTexts
    BY <2>0, <2>3, TextIsText
  <2>5. FitSheet(f, d) /\ d.fm = base.fm /\ d.lines = Text(a \o DefaultMemory, Rules(v), b)
    BY <1>2, <2>2, <2>4, SheetUpdated DEF FitSheet
  <2>6. Remembered(d.lines)
    BY <1>1, <1>5, <2>0, <2>5, AddedIsRemembered
  <2>7. c # Absent => SameText(Outside(c.lines), (a \o DefaultMemory) \o b)
    <3>1. SameText(a, a \o DefaultMemory) /\ SameText(b, b)
      BY DefaultIsProse, SameAfter, SameReflexive
    <3>2. SameText(a \o b, (a \o DefaultMemory) \o b)
      BY <2>3, <3>1, SameConcat
    <3>. QED
      BY <1>1, <3>2, SameTransitive
  <2>. QED
    BY <1>2, <2>3, <2>5, <2>6, <2>7 DEF BaseFits, Remembered
<1>. QED
  BY <1>3, <1>4, <1>5

(* What the script makes of a managed file: the project's text is kept,    *)
(* and unless it holds two memory blocks nothing is left to do.            *)
LEMMA InstalledFits ==
  ASSUME NEW f \in Managed, NEW v \in 1..2, NEW c, FitSheet(f, c), NEW d, d = InstalledManaged(f, c, v)
  PROVE  /\ FitSheet(f, d)
         /\ c # Absent => TextKept(c, d)
         /\ (f \in Remembers => ~MemoryMalformed(c.lines)) => Settled(f, d, v)
<1>. DEFINE base == Base(f, c, v)  e == Remember(f, base)
<1>1. BaseFits(f, c, v, base)
  BY NewFileFits, WithBlockFits DEF Base
<1>2. BaseFits(f, c, v, e) /\ (f \in Remembers /\ ~MemoryMalformed(c.lines) => Remembered(e.lines))
  <2>. HIDE DEF base
  <2>. QED
    BY <1>1, RememberFits
<1>3. d = [e EXCEPT !.fm = NormalizeFm(f, e.fm)]
  BY DEF InstalledManaged, Normalize, Base
<1>. HIDE DEF base, e
<1>4. PICK a \in Seq(Prose), b \in Seq(Prose) :
        e.lines = Text(a, Rules(v), b) /\ (c # Absent => SameText(Outside(c.lines), a \o b))
  BY <1>2, Zenon DEF BaseFits
<1>5. e \in Sheets /\ FitFm(f, e.fm) /\ (c # Absent => e.fm.own = c.fm.own)
  BY <1>2 DEF BaseFits, FitSheet
<1>6. /\ FitFm(f, NormalizeFm(f, e.fm)) /\ NormalizeFm(f, e.fm).own = e.fm.own
      /\ NormalizeFm(f, NormalizeFm(f, e.fm)) = NormalizeFm(f, e.fm)
  BY <1>5, NormalFm
<1>7. d \in Sheets /\ d.fm = NormalizeFm(f, e.fm) /\ d.lines = e.lines
  BY <1>3, <1>5, <1>6, SheetUpdated DEF FitFm
<1>8. FitSheet(f, d)
  BY <1>6, <1>7 DEF FitSheet
<1>9. c # Absent => TextKept(c, d)
  <2>1. Outside(d.lines) = a \o b
    BY <1>4, <1>7, RulesAreBody, TextParts
  <2>. QED
    BY <1>4, <1>5, <1>6, <1>7, <2>1 DEF TextKept
<1>10. (f \in Remembers => ~MemoryMalformed(c.lines)) => Settled(f, d, v)
  BY <1>2, <1>4, <1>6, <1>7, <1>8 DEF Settled
<1>. QED
  BY <1>8, <1>9, <1>10

LEMMA SettledIsCurrent ==
  ASSUME NEW f \in Managed, NEW v \in 1..2, NEW c, Settled(f, c, v)
  PROVE  /\ c # Absent /\ HasBlock(c.lines)
         /\ InstalledManaged(f, c, v) = c /\ PlannedManaged(f, c, v) = c
<1>1. PICK a \in Seq(Prose), b \in Seq(Prose) : c.lines = Text(a, Rules(v), b)
  BY DEF Settled
<1>2. c \in Sheets /\ NormalizeFm(f, c.fm) = c.fm /\ (f \in Remembers => ~MemoryMissing(c.lines))
  BY DEF Settled, FitSheet, Remembered
<1>3. HasBlock(c.lines) /\ ReplaceBlock(c.lines, v) = c.lines
  BY <1>1, RulesAreBody, TextParts
<1>4. c # Absent /\ c # Plain(<<>>)
  <2>1. <<"absent">> \in Seq(Prose) /\ <<>> \in Seq(Prose)
    <3>1. "absent" \in Prose
      BY DEF Prose
    <3>. QED
      BY <3>1, OneLine, EmptySeq
  <2>2. ~HasBlock(<<"absent">>) /\ ~HasBlock(<<>>)
    BY <2>1, ProsePlaces
  <2>3. Absent.lines = <<"absent">> /\ Plain(<<>>).lines = <<>>
    BY DEF Absent, Plain
  <2>. QED
    BY <1>3, <2>2, <2>3
<1>5. WithBlock(f, c, v) = c
  BY <1>2, <1>3, SheetUpdated DEF WithBlock
<1>6. Remember(f, c) = c
  BY <1>2, SheetUpdated DEF Remember, EnsureMemory
<1>7. Normalize(f, c) = c
  BY <1>2, SheetUpdated DEF Normalize
<1>. QED
  BY <1>3, <1>4, <1>5, <1>6, <1>7 DEF InstalledManaged, PlannedManaged

(***************************************************************************)
(* What the project and the engineer make of a text.                       *)
(***************************************************************************)
Mapped(t, map) == [i \in DOMAIN t |-> map[t[i]]]

LEMMA MappedSeq ==
  ASSUME NEW S, NEW T, NEW t \in Seq(S), NEW map, \A l \in S : map[l] \in T
  PROVE  /\ Mapped(t, map) \in Seq(T) /\ Len(Mapped(t, map)) = Len(t)
         /\ DOMAIN Mapped(t, map) = DOMAIN t
         /\ \A i \in 1..Len(t) : Mapped(t, map)[i] = map[t[i]]
<1>. DEFINE n == Len(t)  u == [i \in 1..n |-> map[t[i]]]
<1>1. n \in Nat /\ DOMAIN t = 1..n /\ \A i \in 1..n : t[i] \in S
  BY LenProperties, ElementOfSeq
<1>2. Mapped(t, map) = u
  BY <1>1 DEF Mapped
<1>3. u \in [1..n -> T]
  BY <1>1
<1>4. u \in Seq(T)
  BY <1>1, <1>3, SeqDef
<1>. HIDE DEF u
<1>5. DOMAIN u = 1..n /\ Len(u) \in Nat /\ DOMAIN u = 1..Len(u)
  BY <1>3, <1>4, LenProperties
<1>6. Len(u) = n
  BY <1>1, <1>5
<1>. QED
  BY <1>1, <1>2, <1>4, <1>5, <1>6 DEF u

(* A change of lines in their places, which leaves the markers.            *)
LEMMA MappedText ==
  ASSUME NEW map, map["BEGIN"] = "BEGIN", map["END"] = "END",
         \A l \in Prose : /\ map[l] \in Prose
                          /\ map[l] = l \/ (l \notin OwnLines /\ map[l] \notin OwnLines),
         \A m \in Body : map[m] \in Body,
         NEW t \in FitTexts
  PROVE  Mapped(t, map) \in FitTexts /\ SameText(Outside(t), Outside(Mapped(t, map)))
<1>. DEFINE u == Mapped(t, map)
<1>1. ASSUME NEW s \in Seq(Prose)
      PROVE  /\ Mapped(s, map) \in Seq(Prose) /\ Len(Mapped(s, map)) = Len(s)
             /\ \A i \in 1..Len(s) : Mapped(s, map)[i] = map[s[i]]
             /\ SameText(s, Mapped(s, map))
  <2>1. /\ Mapped(s, map) \in Seq(Prose) /\ Len(Mapped(s, map)) = Len(s)
        /\ DOMAIN Mapped(s, map) = DOMAIN s
        /\ \A i \in 1..Len(s) : Mapped(s, map)[i] = map[s[i]]
    BY MappedSeq
  <2>2. DOMAIN s = 1..Len(s) /\ \A i \in 1..Len(s) : s[i] \in Prose
    BY LenProperties, ElementOfSeq
  <2>. HIDE DEF Prose
  <2>3. \A i \in DOMAIN s : s[i] = Mapped(s, map)[i]
                              \/ (s[i] \notin OwnLines /\ Mapped(s, map)[i] \notin OwnLines)
    BY <2>1, <2>2
  <2>4. SameText(s, Mapped(s, map))
    BY <2>1, <2>3, SameInPlace
  <2>. QED
    BY <2>1, <2>4
<1>2. CASE t \in Seq(Prose)
  <2>1. u \in Seq(Prose) /\ SameText(t, u)
    BY <1>1, <1>2
  <2>. HIDE DEF u
  <2>2. Outside(t) = t /\ Outside(u) = u
    BY <1>2, <2>1, ProsePlaces
  <2>. QED
    BY <2>1, <2>2 DEF FitTexts, u
<1>3. ASSUME NEW a \in Seq(Prose), NEW m \in Body, NEW b \in Seq(Prose), t = Text(a, m, b)
      PROVE  u \in FitTexts /\ SameText(Outside(t), Outside(u))
  <2>. DEFINE A == Mapped(a, map)  B == Mapped(b, map)  w == Text(A, map[m], B)
              k == Len(a)  n == Len(b)
  <2>1. /\ A \in Seq(Prose) /\ Len(A) = k /\ (\A i \in 1..k : A[i] = map[a[i]])
        /\ B \in Seq(Prose) /\ Len(B) = n /\ (\A i \in 1..n : B[i] = map[b[i]])
        /\ SameText(a, A) /\ SameText(b, B)
    BY <1>1
  <2>2. /\ a \in Seq(Words) /\ m \in Words /\ b \in Seq(Words)
        /\ A \in Seq(Words) /\ map[m] \in Words /\ map[m] \in Body /\ B \in Seq(Words)
    BY <2>1, ProseIsWords, WordsDiffer
  <2>. HIDE DEF A, B, Words, Prose, Body
  <2>3. /\ t \in Seq(Words) /\ k \in Nat /\ n \in Nat /\ Len(t) = k + 3 + n
        /\ \A i \in 1..k : t[i] = a[i]
        /\ t[k + 1] = "BEGIN" /\ t[k + 2] = m /\ t[k + 3] = "END"
        /\ \A i \in 1..n : t[k + 3 + i] = b[i]
    <3>1. Laid(t, a, m, b)
      BY <1>3, <2>2, TextIsLaid
    <3>. QED
      BY <3>1 DEF Laid
  <2>4. /\ w \in Seq(Words) /\ Len(w) = k + 3 + n
        /\ \A i \in 1..k : w[i] = A[i]
        /\ w[k + 1] = "BEGIN" /\ w[k + 2] = map[m] /\ w[k + 3] = "END"
        /\ \A i \in 1..n : w[k + 3 + i] = B[i]
    <3>. DEFINE z == map[m]
    <3>1. z \in Words
      BY <2>2
    <3>. HIDE DEF z
    <3>2. Laid(Text(A, z, B), A, z, B)
      BY <2>2, <3>1, TextIsLaid
    <3>3. Laid(w, A, z, B)
      BY <3>2 DEF w, z
    <3>. HIDE DEF w
    <3>4. Laid(w, A, map[m], B)
      BY <3>3 DEF z
    <3>. QED
      BY <2>1, <3>4 DEF Laid
  <2>5. ASSUME NEW i \in 1..Len(t) PROVE w[i] = map[t[i]]
    <3>1. \/ i \in 1..k \/ i = k + 1 \/ i = k + 2 \/ i = k + 3
          \/ i - (k + 3) \in 1..n /\ i = k + 3 + (i - (k + 3))
      BY <2>3
    <3>. HIDE DEF w
    <3>2. CASE i \in 1..k
      BY <2>1, <2>3, <2>4, <3>2
    <3>3. CASE i = k + 1 \/ i = k + 2 \/ i = k + 3
      BY <2>3, <2>4, <3>3
    <3>4. CASE i - (k + 3) \in 1..n /\ i = k + 3 + (i - (k + 3))
      <4>1. t[i] = b[i - (k + 3)] /\ w[i] = B[i - (k + 3)]
        BY <2>3, <2>4, <3>4
      <4>. QED
        BY <2>1, <3>4, <4>1
    <3>. QED
      BY <3>1, <3>2, <3>3, <3>4
  <2>6. u \in Seq(Words) /\ Len(u) = Len(t) /\ \A i \in 1..Len(t) : u[i] = map[t[i]]
    <3>1. \A l \in Words : map[l] \in Words
      <4>1. \A l \in Words : l \in Prose \/ l \in Body \/ l = "BEGIN" \/ l = "END"
        BY DEF Words
      <4>. QED
        BY <4>1, WordsDiffer
    <3>. QED
      BY <2>3, <3>1, MappedSeq
  <2>. HIDE DEF u, w
  <2>7. u = w
    <3>1. Len(u) = Len(w)
      BY <2>3, <2>4, <2>6
    <3>2. Len(u) = Len(t)
      BY <2>6
    <3>3. ASSUME NEW i \in 1..Len(u) PROVE u[i] = w[i]
      <4>1. i \in 1..Len(t)
        BY <3>2
      <4>. QED
        BY <2>5, <2>6, <4>1
    <3>. QED
      BY <2>4, <2>6, <3>1, <3>3, SeqEqual
  <2>8. w \in FitTexts
    <3>. DEFINE z == map[m]
    <3>1. z \in Body
      BY <2>2
    <3>. HIDE DEF z
    <3>2. Text(A, z, B) \in FitTexts
      BY <2>1, <3>1, TextIsText
    <3>. QED
      BY <3>2 DEF w, z
  <2>9. Outside(t) = a \o b /\ Outside(w) = A \o B
    <3>1. Outside(t) = a \o b
      BY <1>3, TextParts
    <3>. DEFINE z == map[m]
    <3>2. z \in Body
      BY <2>2
    <3>. HIDE DEF z
    <3>3. Outside(Text(A, z, B)) = A \o B
      BY <2>1, <3>2, TextParts
    <3>4. Outside(w) = A \o B
      BY <3>3 DEF w, z
    <3>. QED
      BY <3>1, <3>4
  <2>10. SameText(a \o b, A \o B)
    BY <2>1, SameConcat
  <2>. QED
    BY <2>7, <2>8, <2>9, <2>10
<1>4. t \in Seq(Prose) \/ \E a, b \in Seq(Prose), m \in Body : t = Text(a, m, b)
  BY DEF FitTexts
<1>. QED
  BY <1>2, <1>3, <1>4

(* A line above, a line below, the block cut out.                          *)
LEMMA TextEdited ==
  ASSUME NEW t \in FitTexts, NEW x \in Prose
  PROVE  <<x>> \o t \in FitTexts /\ t \o <<x>> \in FitTexts /\ Outside(t) \in FitTexts
<1>1. <<x>> \in Seq(Prose)
  BY OneLine
<1>2. CASE t \in Seq(Prose)
  BY <1>1, <1>2, ConcatProperties, ProsePlaces DEF FitTexts
<1>3. ASSUME NEW a \in Seq(Prose), NEW m \in Body, NEW b \in Seq(Prose), t = Text(a, m, b)
      PROVE  <<x>> \o t \in FitTexts /\ t \o <<x>> \in FitTexts /\ Outside(t) \in FitTexts
  <2>1. /\ a \in Seq(Words) /\ b \in Seq(Words) /\ <<x>> \in Seq(Words) /\ Framed(m) \in Seq(Words)
    BY <1>1, ProseIsWords, WordsDiffer, FrameProperties
  <2>2. /\ a \o Framed(m) \in Seq(Words)
    BY <2>1, ConcatProperties
  <2>3. <<x>> \o a \in Seq(Prose) /\ b \o <<x>> \in Seq(Prose) /\ a \o b \in Seq(Prose)
    BY <1>1, ConcatProperties
  <2>4. <<x>> \o t = Text(<<x>> \o a, m, b)
    <3>1. <<x>> \o ((a \o Framed(m)) \o b) = (<<x>> \o (a \o Framed(m))) \o b
      BY <2>1, <2>2, ConcatAssociative
    <3>2. <<x>> \o (a \o Framed(m)) = (<<x>> \o a) \o Framed(m)
      BY <2>1, ConcatAssociative
    <3>. QED
      BY <1>3, <3>1, <3>2 DEF Text
  <2>5. t \o <<x>> = Text(a, m, b \o <<x>>)
    <3>1. ((a \o Framed(m)) \o b) \o <<x>> = (a \o Framed(m)) \o (b \o <<x>>)
      BY <2>1, <2>2, ConcatAssociative
    <3>. QED
      BY <1>3, <3>1 DEF Text
  <2>6. Outside(t) = a \o b
    BY <1>3, TextParts
  <2>7. <<x>> \o t \in FitTexts
    <3>. DEFINE p == <<x>> \o a
    <3>1. p \in Seq(Prose)
      BY <2>3
    <3>. HIDE DEF p
    <3>2. Text(p, m, b) \in FitTexts
      BY <3>1, TextIsText
    <3>. QED
      BY <2>4, <3>2 DEF p
  <2>8. t \o <<x>> \in FitTexts
    <3>. DEFINE p == b \o <<x>>
    <3>1. p \in Seq(Prose)
      BY <2>3
    <3>. HIDE DEF p
    <3>2. Text(a, m, p) \in FitTexts
      BY <3>1, TextIsText
    <3>. QED
      BY <2>5, <3>2 DEF p
  <2>9. Outside(t) \in FitTexts
    BY <2>3, <2>6 DEF FitTexts
  <2>. QED
    BY <2>7, <2>8, <2>9
<1>4. t \in Seq(Prose) \/ \E a, b \in Seq(Prose), m \in Body : t = Text(a, m, b)
  BY DEF FitTexts
<1>. QED
  BY <1>2, <1>3, <1>4

LEMMA TextsAreWords == \A t \in FitTexts : t \in Seq(Words)
<1>1. ASSUME NEW a \in Seq(Prose), NEW m \in Body, NEW b \in Seq(Prose)
      PROVE  Text(a, m, b) \in Seq(Words)
  <2>1. a \in Seq(Words) /\ m \in Words /\ b \in Seq(Words)
    BY ProseIsWords, WordsDiffer
  <2>. QED
    BY <2>1, TextProperties
<1>. QED
  BY <1>1, ProseIsWords DEF FitTexts

LEMMA PlainFits ==
  ASSUME NEW t \in FitTexts
  PROVE  \A f : FitSheet(f, Plain(t))
<1>1. Plain(t) \in Sheets /\ Plain(t).fm = NoFm
  BY NoFmFits DEF Plain, Sheets
<1>. QED
  BY <1>1, NoFmFits DEF FitSheet

LEMMA AbsentFits == \A f : FitSheet(f, Absent)
<1>1. "absent" \in Prose
  BY DEF Prose
<1>2. <<"absent">> \in FitTexts
  BY <1>1, OneLine DEF FitTexts
<1>. QED
  BY <1>2, PlainFits DEF Absent

LEMMA EditsFit ==
  ASSUME ~OddInputs, NEW f \in Managed, FitSheet(f, files[f]), NEW c \in Edits(f)
  PROVE  FitSheet(f, c)
<1>. DEFINE d == files[f]
<1>1. "own 2" \in Prose
  BY DEF Prose
<1>2. <<"own 2">> \in FitTexts
  <2>1. \A x \in Prose : <<x>> \in FitTexts
    BY OneLine DEF FitTexts
  <2>. QED
    BY <1>1, <2>1
<1>3. f # "settings" /\ OddEdits(f, d) = {}
  BY DEF OddEdits, Managed, Agents
<1>4. CASE d = Absent
  <2>1. c = Plain(<<"own 2">>) \/ c = Absent
    BY <1>3, <1>4 DEF Edits
  <2>. QED
    BY <1>2, <2>1, PlainFits, AbsentFits
<1>5. CASE d # Absent
  <2>. DEFINE map == [l \in Words |-> Redone(l)]
  <2>1. c \in {[d EXCEPT !.lines = <<"own 2">> \o @], [d EXCEPT !.lines = @ \o <<"own 2">>],
               [d EXCEPT !.lines = Outside(@)], [d EXCEPT !.lines = [i \in DOMAIN @ |-> Redone(@[i])]],
               Absent}
    BY <1>3, <1>5 DEF Edits
  <2>2. d \in Sheets /\ d.lines \in FitTexts /\ FitFm(f, d.fm)
    BY SheetUpdated DEF FitSheet
  <2>3. ASSUME NEW t \in FitTexts, c = [d EXCEPT !.lines = t] PROVE FitSheet(f, c)
    BY <2>2, <2>3, SheetUpdated DEF FitSheet
  <2>4. /\ <<"own 2">> \o d.lines \in FitTexts /\ d.lines \o <<"own 2">> \in FitTexts
        /\ Outside(d.lines) \in FitTexts
    BY <1>1, <2>2, TextEdited
  <2>5. Mapped(d.lines, map) \in FitTexts
    <3>1. \A l \in Words : map[l] = Redone(l)
      OBVIOUS
    <3>. HIDE DEF map
    <3>2. map["BEGIN"] = "BEGIN" /\ map["END"] = "END"
      BY <3>1, WordsDiffer DEF Redone
    <3>3. \A l \in Prose : map[l] = l
      BY <3>1, WordsDiffer DEF Redone, Body
    <3>4. \A m \in Body : map[m] \in Body
      BY <3>1, WordsDiffer DEF Redone, Body
    <3>. QED
      BY <2>2, <3>2, <3>3, <3>4, MappedText
  <2>6. [i \in DOMAIN d.lines |-> Redone(d.lines[i])] = Mapped(d.lines, map)
    <3>1. d.lines \in Seq(Words)
      BY <2>2, TextsAreWords
    <3>2. \A i \in DOMAIN d.lines : d.lines[i] \in Words
      BY <3>1, LenProperties, ElementOfSeq
    <3>. HIDE DEF Words, d
    <3>. QED
      BY <3>2 DEF Mapped
  <2>7. CASE c = [d EXCEPT !.lines = <<"own 2">> \o @]
    BY <2>3, <2>4, <2>7
  <2>8. CASE c = [d EXCEPT !.lines = @ \o <<"own 2">>]
    BY <2>3, <2>4, <2>8
  <2>9. CASE c = [d EXCEPT !.lines = Outside(@)]
    BY <2>3, <2>4, <2>9
  <2>10. CASE c = [d EXCEPT !.lines = [i \in DOMAIN @ |-> Redone(@[i])]]
    <3>. HIDE DEF map, d
    <3>1. c = [d EXCEPT !.lines = Mapped(d.lines, map)]
      BY <2>6, <2>10
    <3>. QED
      BY <2>3, <2>5, <3>1
  <2>11. CASE c = Absent
    BY <2>11, AbsentFits
  <2>. QED
    BY <2>1, <2>7, <2>8, <2>9, <2>10, <2>11
<1>. QED
  BY <1>4, <1>5

(* The reviewer under its former name keeps its text.                      *)
LEMMA RenamedFits ==
  ASSUME NEW c, FitSheet("gate-reviewer", c)
  PROVE  FitSheet("reviewer", Renamed(c)) /\ TextKept(c, Renamed(c))
<1>. DEFINE map == [l \in Words |-> IF l = "old title" THEN "title" ELSE l]
<1>1. c \in Sheets /\ c.lines \in FitTexts /\ c.fm \in Fms
  BY SheetUpdated DEF FitSheet
<1>2. Mapped(c.lines, map) \in FitTexts /\ SameText(Outside(c.lines), Outside(Mapped(c.lines, map)))
  <2>1. \A l \in Words : map[l] = IF l = "old title" THEN "title" ELSE l
    OBVIOUS
  <2>. HIDE DEF map
  <2>2. map["BEGIN"] = "BEGIN" /\ map["END"] = "END"
    BY <2>1, WordsDiffer
  <2>3. "title" \in Prose /\ "old title" \in Prose /\ "title" \notin OwnLines /\ "old title" \notin OwnLines
    BY DEF Prose, OwnLines
  <2>4. \A l \in Prose : map[l] \in Prose /\ (map[l] = l \/ (l \notin OwnLines /\ map[l] \notin OwnLines))
    BY <2>1, <2>3, WordsDiffer
  <2>5. \A m \in Body : map[m] \in Body
    BY <2>1, <2>3, WordsDiffer
  <2>. QED
    BY <1>1, <2>2, <2>4, <2>5, MappedText
<1>3. Renamed(c) = [c EXCEPT !.lines = Mapped(c.lines, map)]
  <2>1. c.lines \in Seq(Words)
    BY <1>1, TextsAreWords
  <2>2. \A i \in DOMAIN c.lines : c.lines[i] \in Words
    BY <2>1, LenProperties, ElementOfSeq
  <2>. HIDE DEF Words
  <2>3. [i \in DOMAIN c.lines |-> IF c.lines[i] = "old title" THEN "title" ELSE c.lines[i]] =
          Mapped(c.lines, map)
    BY <2>2 DEF Mapped
  <2>. QED
    BY <2>3 DEF Renamed
<1>. HIDE DEF map
<1>4. Renamed(c) \in Sheets /\ Renamed(c).fm = c.fm /\ Renamed(c).lines = Mapped(c.lines, map)
  BY <1>1, <1>2, <1>3, SheetUpdated
<1>5. FitFm("reviewer", c.fm)
  BY <1>1 DEF FitFm
<1>. QED
  BY <1>2, <1>4, <1>5 DEF FitSheet, TextKept

(***************************************************************************)
(* The hooks.                                                              *)
(***************************************************************************)
OwnHook == Plain(<<"own hook">>)
OnlyHooks(v) == Plain(<<Hooks(v)>>)
BothHooks(v) == Plain(<<"own hook", Hooks(v)>>)
Settings == {Absent, Junk, OwnHook} \cup {OnlyHooks(v) : v \in 1..2} \cup {BothHooks(v) : v \in 1..2}

Unrolls(f, s, at) ==
  f = [n \in 0..Len(s) |-> IF n = 0 THEN <<>>
                           ELSE IF n \in at THEN Append(f[n - 1], s[n]) ELSE f[n - 1]]

LEMMA KeptUnrolls ==
  ASSUME NEW s, NEW at, at # DOMAIN s, \E f : Unrolls(f, s, at)
  PROVE  \E f : Unrolls(f, s, at) /\ Kept(s, at) = f[Len(s)]
<1>. DEFINE f == CHOOSE f : Unrolls(f, s, at)
<1>1. Unrolls(f, s, at)
  OBVIOUS
<1>2. Kept(s, at) = f[Len(s)]
  BY Zenon DEF Kept, Unrolls
<1>. QED
  BY <1>1, <1>2

LEMMA KeptNothing ==
  ASSUME NEW x
  PROVE  Kept(<<x>>, {}) = <<>>
<1>. DEFINE s == <<x>>  g == [n \in 0..1 |-> <<>>]
<1>1. Len(s) = 1 /\ DOMAIN s = {1} /\ {} # DOMAIN s
  OBVIOUS
<1>. HIDE DEF s
<1>2. Unrolls(g, s, {})
  BY <1>1 DEF Unrolls
<1>3. PICK f : Unrolls(f, s, {}) /\ Kept(s, {}) = f[Len(s)]
  BY <1>1, <1>2, KeptUnrolls
<1>4. \A n \in 0..1 : f[n] = IF n = 0 THEN <<>> ELSE f[n - 1]
  BY <1>1, <1>3 DEF Unrolls
<1>5. f[0] = <<>> /\ f[1] = f[0]
  BY <1>4
<1>. QED
  BY <1>1, <1>3, <1>5 DEF s

LEMMA KeptFirst ==
  ASSUME NEW x, NEW y
  PROVE  Kept(<<x, y>>, {1}) = <<x>>
<1>. DEFINE s == <<x, y>>  g == [n \in 0..2 |-> IF n = 0 THEN <<>> ELSE <<x>>]
<1>1. Len(s) = 2 /\ DOMAIN s = {1, 2} /\ s[1] = x
  OBVIOUS
<1>2. {1} # DOMAIN s
  BY <1>1
<1>. HIDE DEF s
<1>3. Append(<<>>, x) = <<x>>
  OBVIOUS
<1>4. Unrolls(g, s, {1})
  <2>1. g[0] = <<>> /\ g[1] = <<x>> /\ g[2] = <<x>>
    OBVIOUS
  <2>2. ASSUME NEW n \in 0..2
        PROVE  g[n] = IF n = 0 THEN <<>>
                      ELSE IF n \in {1} THEN Append(g[n - 1], s[n]) ELSE g[n - 1]
    <3>1. n = 0 \/ n = 1 \/ n = 2
      OBVIOUS
    <3>. DEFINE none == <<>>  one == <<x>>
    <3>2. g[0] = none /\ g[1] = one /\ g[2] = one /\ Append(none, s[1]) = one
      BY <1>1, <1>3, <2>1
    <3>. HIDE DEF g, none, one
    <3>3. g[n] = IF n = 0 THEN none ELSE IF n \in {1} THEN Append(g[n - 1], s[n]) ELSE g[n - 1]
      <4>1. CASE n = 0
        BY <3>2, <4>1
      <4>2. CASE n = 1
        BY <3>2, <4>2
      <4>3. CASE n = 2
        BY <3>2, <4>3
      <4>. QED
        BY <3>1, <4>1, <4>2, <4>3
    <3>. QED
      BY <3>3 DEF none
  <2>3. g = [n \in 0..2 |-> g[n]]
    OBVIOUS
  <2>. HIDE DEF g
  <2>. QED
    BY <1>1, <2>2, <2>3 DEF Unrolls
<1>5. PICK f : Unrolls(f, s, {1}) /\ Kept(s, {1}) = f[Len(s)]
  BY <1>2, <1>4, KeptUnrolls
<1>6. \A n \in 0..2 : f[n] = IF n = 0 THEN <<>>
                             ELSE IF n \in {1} THEN Append(f[n - 1], s[n]) ELSE f[n - 1]
  BY <1>1, <1>5 DEF Unrolls
<1>7. f[0] = <<>> /\ f[1] = Append(f[0], s[1]) /\ f[2] = f[1]
  BY <1>6
<1>. QED
  BY <1>1, <1>3, <1>5, <1>7 DEF s

LEMMA HooksDiffer ==
  \A v \in 1..2 : /\ IsVcmHook(Hooks(v)) /\ ~IsVcmHook("own hook") /\ ~IsVcmHook("absent")
                  /\ Hooks(v) \notin OwnLines /\ "own hook" \in OwnLines /\ Hooks(v) # "own hook"
                  /\ Hooks(v) # "BEGIN" /\ Hooks(v) # "absent" /\ Hooks(v) # "junk"
<1>1. \A v \in 1..2 : Hooks(v) = "hooks 1" \/ Hooks(v) = "hooks 2"
  <2>1. Hooks(1) = "hooks 1" /\ Hooks(2) = "hooks 2"
    BY DEF Hooks
  <2>2. \A v \in 1..2 : v = 1 \/ v = 2
    OBVIOUS
  <2>. QED
    BY <2>1, <2>2
<1>. QED
  BY <1>1 DEF IsVcmHook, OwnLines

(* The project's hooks stay, those of VCM are the current ones.            *)
LEMMA Merged ==
  ASSUME NEW v \in 1..2
  PROVE  /\ MergeHooks(Absent, v) = OnlyHooks(v)
         /\ MergeHooks(OwnHook, v) = BothHooks(v)
         /\ \A u \in 1..2 : MergeHooks(OnlyHooks(u), v) = OnlyHooks(v)
         /\ \A u \in 1..2 : MergeHooks(BothHooks(u), v) = BothHooks(v)
<1>. DEFINE h == <<Hooks(v)>>
<1>1. <<>> \o h = h /\ <<"own hook">> \o h = <<"own hook", Hooks(v)>>
  <2>1. ASSUME NEW x, NEW y PROVE <<>> \o <<y>> = <<y>> /\ <<x>> \o <<y>> = <<x, y>>
    <3>. DEFINE S == {x, y}
    <3>1. <<>> \in Seq(S) /\ <<x>> \in Seq(S) /\ <<y>> \in Seq(S) /\ y \in S
      OBVIOUS
    <3>. HIDE DEF S
    <3>2. <<>> \o <<y>> = <<y>>
      BY <3>1, ConcatEmptySeq
    <3>3. Append(<<x>>, y) = <<x>> \o <<y>>
      BY <3>1, AppendIsConcat
    <3>4. Append(<<x>>, y) = <<x, y>>
      <4>. DEFINE s == <<x>>  p == Append(s, y)  q == <<x, y>>
      <4>1. s \in Seq(S) /\ Len(s) = 1 /\ s[1] = x
        BY <3>1
      <4>2. x \in S
        BY DEF S
      <4>3. q \in Seq(S) /\ Len(q) = 2 /\ q[1] = x /\ q[2] = y
        BY <3>1, <4>2
      <4>. HIDE DEF s, q
      <4>4. /\ p \in Seq(S) /\ Len(p) = Len(s) + 1 /\ (\A i \in 1..Len(s) : p[i] = s[i])
            /\ p[Len(s) + 1] = y
        <5>1. s \in Seq(S) /\ y \in S
          BY <3>1, <4>1
        <5>. QED
          BY <5>1, AppendProperties
      <4>. HIDE DEF p
      <4>5. Len(p) = Len(q) /\ \A i \in 1..Len(p) : p[i] = q[i]
        BY <4>1, <4>3, <4>4
      <4>6. p = q
        BY <4>3, <4>4, <4>5, SeqEqual
      <4>. QED
        BY <4>6 DEF p, q, s
    <3>. QED
      BY <3>2, <3>3, <3>4
  <2>. QED
    BY <2>1
<1>2. OwnHook # Absent /\ \A u \in 1..2 : OnlyHooks(u) # Absent /\ BothHooks(u) # Absent
  <2>1. /\ Absent.lines = <<"absent">> /\ OwnHook.lines = <<"own hook">>
        /\ \A u \in 1..2 : OnlyHooks(u).lines = <<Hooks(u)>> /\ BothHooks(u).lines = <<"own hook", Hooks(u)>>
    BY DEF Absent, OwnHook, OnlyHooks, BothHooks, Plain
  <2>2. /\ <<"absent">>[1] = "absent" /\ <<"own hook">>[1] = "own hook"
        /\ \A u \in 1..2 : <<Hooks(u)>>[1] = Hooks(u) /\ <<"own hook", Hooks(u)>>[1] = "own hook"
    OBVIOUS
  <2>. QED
    BY <2>1, <2>2, HooksDiffer
<1>3. MergeHooks(Absent, v) = OnlyHooks(v)
  <2>1. Absent.lines = <<"absent">>
    BY DEF Absent, Plain
  <2>2. MergeHooks(Absent, v) = Plain(Kept(<<"absent">>, {}) \o h)
    BY <2>1 DEF MergeHooks
  <2>. QED
    BY <1>1, <2>2, KeptNothing DEF OnlyHooks
<1>4. MergeHooks(OwnHook, v) = BothHooks(v)
  <2>1. OwnHook.lines = <<"own hook">>
    BY DEF OwnHook, Plain
  <2>2. {i \in DOMAIN <<"own hook">> : ~IsVcmHook(<<"own hook">>[i])} = DOMAIN <<"own hook">>
    <3>1. DOMAIN <<"own hook">> = {1} /\ <<"own hook">>[1] = "own hook"
      OBVIOUS
    <3>2. ~IsVcmHook("own hook")
      BY HooksDiffer
    <3>. QED
      BY <3>1, <3>2
  <2>3. MergeHooks(OwnHook, v) = Plain(Kept(<<"own hook">>, DOMAIN <<"own hook">>) \o h)
    BY <1>2, <2>1, <2>2 DEF MergeHooks
  <2>4. Kept(<<"own hook">>, DOMAIN <<"own hook">>) = <<"own hook">>
    BY Zenon DEF Kept
  <2>. QED
    BY <1>1, <2>3, <2>4 DEF BothHooks
<1>5. ASSUME NEW u \in 1..2 PROVE MergeHooks(OnlyHooks(u), v) = OnlyHooks(v)
  <2>. DEFINE g == <<Hooks(u)>>
  <2>1. OnlyHooks(u).lines = g
    BY DEF OnlyHooks, Plain
  <2>2. {i \in DOMAIN g : ~IsVcmHook(g[i])} = {}
    <3>1. DOMAIN g = {1} /\ g[1] = Hooks(u)
      OBVIOUS
    <3>2. IsVcmHook(Hooks(u))
      BY HooksDiffer
    <3>. HIDE DEF g
    <3>. QED
      BY <3>1, <3>2
  <2>3. MergeHooks(OnlyHooks(u), v) = Plain(Kept(g, {}) \o h)
    <3>. HIDE DEF g, h
    <3>. QED
      BY <1>2, <2>1, <2>2 DEF MergeHooks, h
  <2>. QED
    BY <1>1, <2>3, KeptNothing DEF OnlyHooks
<1>6. ASSUME NEW u \in 1..2 PROVE MergeHooks(BothHooks(u), v) = BothHooks(v)
  <2>. DEFINE g == <<"own hook", Hooks(u)>>
  <2>1. BothHooks(u).lines = g
    BY DEF BothHooks, Plain
  <2>2. {i \in DOMAIN g : ~IsVcmHook(g[i])} = {1}
    <3>1. DOMAIN g = {1, 2} /\ g[1] = "own hook" /\ g[2] = Hooks(u)
      OBVIOUS
    <3>2. IsVcmHook(Hooks(u)) /\ ~IsVcmHook("own hook")
      BY HooksDiffer
    <3>. HIDE DEF g
    <3>. QED
      BY <3>1, <3>2
  <2>3. MergeHooks(BothHooks(u), v) = Plain(Kept(g, {1}) \o h)
    <3>. HIDE DEF g, h
    <3>. QED
      BY <1>2, <2>1, <2>2 DEF MergeHooks, h
  <2>. QED
    BY <1>1, <2>3, KeptFirst DEF BothHooks
<1>. QED
  BY <1>3, <1>4, <1>5, <1>6

LEMMA OneOutside ==
  ASSUME NEW x, x # "BEGIN"
  PROVE  /\ Outside(<<x>>) = <<x>>
         /\ x \notin OwnLines => OwnPlaces(<<x>>) = {}
         /\ x \in OwnLines => OwnPlaces(<<x>>) = {1}
<1>. DEFINE g == <<x>>
<1>1. Len(g) = 1 /\ DOMAIN g = {1} /\ g[1] = x
  OBVIOUS
<1>. HIDE DEF g
<1>2. Places(g, "BEGIN") = {}
  BY <1>1 DEF Places
<1>3. Outside(g) = g
  BY <1>2 DEF Outside, HasBlock, Begins
<1>4. (x \notin OwnLines => OwnPlaces(g) = {}) /\ (x \in OwnLines => OwnPlaces(g) = {1})
  BY <1>1 DEF OwnPlaces
<1>. QED
  BY <1>3, <1>4 DEF g

LEMMA TwoOutside ==
  ASSUME NEW x \in OwnLines, NEW y, x # "BEGIN", y # "BEGIN", y \notin OwnLines
  PROVE  Outside(<<x, y>>) = <<x, y>> /\ OwnPlaces(<<x, y>>) = {1}
<1>. DEFINE g == <<x, y>>
<1>1. Len(g) = 2 /\ DOMAIN g = {1, 2} /\ g[1] = x /\ g[2] = y
  OBVIOUS
<1>. HIDE DEF g
<1>2. Places(g, "BEGIN") = {}
  BY <1>1 DEF Places
<1>3. Outside(g) = g
  BY <1>2 DEF Outside, HasBlock, Begins
<1>4. OwnPlaces(g) = {1}
  BY <1>1 DEF OwnPlaces
<1>. QED
  BY <1>3, <1>4 DEF g

LEMMA SameFirst ==
  ASSUME NEW s, NEW t, OwnPlaces(s) = {1}, OwnPlaces(t) = {1}, s[1] = t[1]
  PROVE  SameText(s, t)
<1>. DEFINE to == [i \in {1} |-> 1]
<1>1. to \in [{1} -> {1}] /\ to[1] = 1
  OBVIOUS
<1>. HIDE DEF to
<1>2. /\ \A i \in {1} : t[to[i]] = s[i]
      /\ \A i, j \in {1} : i < j => to[i] < to[j]
      /\ \A k \in {1} : \E i \in {1} : to[i] = k
  BY <1>1
<1>. QED
  BY <1>1, <1>2 DEF SameText

LEMMA HooksFit ==
  ASSUME NEW c \in Settings, c # Junk, NEW v \in 1..2, NEW d, d = MergeHooks(c, v)
  PROVE  /\ d \in Settings /\ d # Junk /\ MergeHooks(d, v) = d
         /\ c # Absent => TextKept(c, d)
<1>1. d = OnlyHooks(v) \/ d = BothHooks(v)
  BY Merged DEF Settings
<1>2. d \in Settings
  BY <1>1 DEF Settings
<1>3. MergeHooks(d, v) = d
  BY <1>1, Merged
<1>4. /\ OwnHook.lines = <<"own hook">> /\ OwnHook.fm = NoFm /\ Junk.lines = <<"junk">>
      /\ \A u \in 1..2 : /\ OnlyHooks(u).lines = <<Hooks(u)>> /\ OnlyHooks(u).fm = NoFm
                         /\ BothHooks(u).lines = <<"own hook", Hooks(u)>> /\ BothHooks(u).fm = NoFm
  BY DEF OwnHook, OnlyHooks, BothHooks, Plain, Junk
<1>5. d # Junk
  <2>1. /\ <<"junk">>[1] = "junk" /\ <<Hooks(v)>>[1] = Hooks(v)
        /\ <<"own hook", Hooks(v)>>[1] = "own hook" /\ "own hook" # "junk"
    OBVIOUS
  <2>. QED
    BY <1>1, <1>4, <2>1, HooksDiffer
<1>6. ASSUME NEW u \in 1..2
      PROVE  /\ Outside(<<Hooks(u)>>) = <<Hooks(u)>> /\ OwnPlaces(<<Hooks(u)>>) = {}
             /\ Outside(<<"own hook", Hooks(u)>>) = <<"own hook", Hooks(u)>>
             /\ OwnPlaces(<<"own hook", Hooks(u)>>) = {1}
  <2>1. Hooks(u) \notin OwnLines /\ "own hook" \in OwnLines /\ Hooks(u) # "BEGIN"
    BY HooksDiffer
  <2>2. Outside(<<Hooks(u)>>) = <<Hooks(u)>> /\ OwnPlaces(<<Hooks(u)>>) = {}
    BY <2>1, OneOutside
  <2>3. /\ Outside(<<"own hook", Hooks(u)>>) = <<"own hook", Hooks(u)>>
        /\ OwnPlaces(<<"own hook", Hooks(u)>>) = {1}
    BY <2>1, TwoOutside
  <2>. QED
    BY <2>2, <2>3
<1>7. Outside(<<"own hook">>) = <<"own hook">> /\ OwnPlaces(<<"own hook">>) = {1}
  <2>1. "own hook" \in OwnLines
    BY HooksDiffer
  <2>. QED
    BY <2>1, OneOutside
<1>8. c # Absent => TextKept(c, d)
  <2>1. CASE c = OwnHook
    <3>1. d = BothHooks(v)
      BY <2>1, Merged
    <3>2. <<"own hook">>[1] = <<"own hook", Hooks(v)>>[1]
      OBVIOUS
    <3>3. SameText(<<"own hook">>, <<"own hook", Hooks(v)>>)
      BY <1>6, <1>7, <3>2, SameFirst
    <3>. QED
      BY <1>4, <1>6, <1>7, <2>1, <3>1, <3>3 DEF TextKept
  <2>2. ASSUME NEW u \in 1..2, c = OnlyHooks(u) PROVE TextKept(c, d)
    <3>1. d = OnlyHooks(v)
      BY <2>2, Merged
    <3>2. SameText(<<Hooks(u)>>, <<Hooks(v)>>)
      BY <1>6, NothingOwn
    <3>. QED
      BY <1>4, <1>6, <2>2, <3>1, <3>2 DEF TextKept
  <2>3. ASSUME NEW u \in 1..2, c = BothHooks(u) PROVE TextKept(c, d)
    <3>1. d = BothHooks(v)
      BY <2>3, Merged
    <3>2. <<"own hook", Hooks(u)>>[1] = <<"own hook", Hooks(v)>>[1]
      OBVIOUS
    <3>3. SameText(<<"own hook", Hooks(u)>>, <<"own hook", Hooks(v)>>)
      BY <1>6, <3>2, SameFirst
    <3>. QED
      BY <1>4, <1>6, <2>3, <3>1, <3>3 DEF TextKept
  <2>. QED
    BY <2>1, <2>2, <2>3 DEF Settings
<1>. QED
  BY <1>2, <1>3, <1>5, <1>8

(***************************************************************************)
(* What the project may hold, and what the script has brought up to date.  *)
(***************************************************************************)
FitFile(f, c) ==
  /\ f \in Managed \cup {"gate-reviewer"} => FitSheet(f, c)
  /\ f = "settings" => c \in Settings
FilesFit ==
  /\ files = [f \in Files |-> files[f]] /\ \A f \in Files : FitFile(f, files[f])
  /\ vcm \in [package : 1..2, rules : 1..2, tool : 1..2]
  /\ files["gate-reviewer"] # Absent => files["reviewer"] = Absent
\* What one file is when the script has nothing to do about it.
CurrentFile(f, c, v) ==
  /\ f \in Managed => Settled(f, c, v.rules)
  /\ f \in {"gate-reviewer", "codex"} => c = Absent
  /\ f \in Seeded => c # Absent
  /\ f = "settings" => c # Junk /\ MergeHooks(c, v.rules) = c
  /\ f = "directories" => c = Plain(<<"made">>)
  /\ f = "skill" => c = Plain(<<Rules(v.rules)>>)
  /\ f = "guard" => c = Plain(<<Tool(v.tool)>>)
  /\ f = "flat-skill" => c # Plain(<<Rules(v.rules)>>)
  /\ f = "manifest" => IsManifest(c)
OperationFits ==
  /\ operation \in [kind : Operations, at : Nat, changed : SUBSET Files, fresh : BOOLEAN]
  /\ operation.kind = "install" => operation.at \in 1..Len(Order)
  /\ operation.kind = "install" /\ operation.at > 1 => files["gate-reviewer"] = Absent
FreshIsCurrent ==
  operation.fresh =>
    \A i \in 1..Len(Order) :
      (operation.kind = "install" => i < operation.at) => CurrentFile(Order[i], files[Order[i]], vcm)
TextInv == FilesFit /\ OperationFits /\ FreshIsCurrent

LEMMA FilesNamed ==
  /\ Files = Managed \cup Seeded \cup Whole \cup {"gate-reviewer", "settings", "directories",
                                                 "flat-skill", "codex", "manifest"}
  /\ Order[1] = "gate-reviewer" /\ \A i \in 1..Len(Order) : Order[i] \in Files
  /\ Len(Order) \in Nat
<1>1. Len(Order) = 18
  BY DEF Order
<1>2. /\ Order[1] = "gate-reviewer" /\ Order[2] = "claude" /\ Order[3] = "standards"
      /\ Order[4] = "ignore" /\ Order[5] = "manager" /\ Order[6] = "architect"
      /\ Order[7] = "coder" /\ Order[8] = "reviewer" /\ Order[9] = "glossary"
      /\ Order[10] = "testing" /\ Order[11] = "settings" /\ Order[12] = "directories"
      /\ Order[13] = "skill" /\ Order[14] = "guard" /\ Order[15] = "generator"
      /\ Order[16] = "flat-skill" /\ Order[17] = "codex" /\ Order[18] = "manifest"
  BY DEF Order
<1>. DEFINE names == Managed \cup Seeded \cup Whole \cup {"gate-reviewer", "settings", "directories",
                                                          "flat-skill", "codex", "manifest"}
<1>3. ASSUME NEW i \in 1..18 PROVE Order[i] \in names
  BY <1>2 DEF Managed, Seeded, Whole, Agents
<1>4. ASSUME NEW f \in names PROVE \E i \in 1..18 : Order[i] = f
  BY <1>2 DEF Managed, Seeded, Whole, Agents
<1>. HIDE DEF names
<1>5. Files = names
  BY <1>1, <1>3, <1>4 DEF Files
<1>6. \A i \in 1..Len(Order) : Order[i] \in Files
  BY DEF Files
<1>. QED
  BY <1>1, <1>2, <1>5, <1>6 DEF names

LEMMA InstallsWhat ==
  ASSUME NEW f, NEW ch
  PROVE  /\ f = "gate-reviewer" => Installs(f, ch) = Absent
         /\ f \in Managed => Installs(f, ch) = InstalledManaged(f, files[f], vcm.rules)
         /\ f \in Seeded => Installs(f, ch) = IF files[f] = Absent THEN SeedOf(f) ELSE files[f]
         /\ f = "settings" => Installs(f, ch) = MergeHooks(files[f], vcm.rules)
         /\ f = "directories" => Installs(f, ch) = Plain(<<"made">>)
         /\ f \in Whole => Installs(f, ch) = WholeFile(f)
         /\ f = "flat-skill" => Installs(f, ch) = IF IsOldSkill(files[f]) THEN Absent ELSE files[f]
         /\ f = "codex" => Installs(f, ch) = Absent
         /\ f = "manifest" =>
              Installs(f, ch) = IF IsManifest(files[f]) /\ ch = {} THEN files[f] ELSE Manifest
<1>. USE DEF Installs, Managed, Agents, Seeded, Whole
<1>1. f = "gate-reviewer" => Installs(f, ch) = Absent
  BY Zenon
<1>2. f \in Managed => Installs(f, ch) = InstalledManaged(f, files[f], vcm.rules)
  BY Zenon
<1>3. f \in Seeded => Installs(f, ch) = IF files[f] = Absent THEN SeedOf(f) ELSE files[f]
  BY Zenon
<1>4. f = "settings" => Installs(f, ch) = MergeHooks(files[f], vcm.rules)
  BY Zenon
<1>5. f = "directories" => Installs(f, ch) = Plain(<<"made">>)
  BY Zenon
<1>6. f \in Whole => Installs(f, ch) = WholeFile(f)
  BY Zenon
<1>7. f = "flat-skill" => Installs(f, ch) = IF IsOldSkill(files[f]) THEN Absent ELSE files[f]
  BY Zenon
<1>8. f = "codex" => Installs(f, ch) = Absent
  BY Zenon
<1>9. f = "manifest" =>
        Installs(f, ch) = IF IsManifest(files[f]) /\ ch = {} THEN files[f] ELSE Manifest
  BY Zenon
<1>. QED
  BY <1>1, <1>2, <1>3, <1>4, <1>5, <1>6, <1>7, <1>8, <1>9

\* Files of one line that VCM writes.
LEMMA SingleLines ==
  /\ \A x : Plain(<<x>>).lines = <<x>> /\ Plain(<<x>>).fm = NoFm
  /\ \A x, y : Plain(<<x>>) = Plain(<<y>>) => x = y
  /\ \A v \in 1..2 : Rules(v) # "absent" /\ Tool(v) # "absent"
<1>1. \A x : Plain(<<x>>).lines = <<x>> /\ Plain(<<x>>).fm = NoFm
  BY DEF Plain
<1>2. \A x : <<x>>[1] = x
  OBVIOUS
<1>3. \A x, y : Plain(<<x>>) = Plain(<<y>>) => x = y
  BY <1>1, <1>2
<1>4. \A v \in 1..2 : Rules(v) # "absent" /\ Tool(v) # "absent"
  <2>1. \A v \in 1..2 : v = 1 \/ v = 2
    OBVIOUS
  <2>2. Rules(1) # "absent" /\ Rules(2) # "absent" /\ Tool(1) # "absent" /\ Tool(2) # "absent"
    BY DEF Rules, Tool
  <2>. QED
    BY <2>1, <2>2
<1>. QED
  BY <1>1, <1>3, <1>4

LEMMA NamesDiffer ==
  /\ \A f \in Managed : f \notin Seeded \cup Whole
  /\ \A f \in Managed \cup Seeded \cup Whole :
       f \notin {"gate-reviewer", "settings", "directories", "flat-skill", "codex", "manifest"}
  /\ \A f \in Seeded : f \notin Whole
  /\ Whole = {"skill", "guard"} /\ "skill" \notin Managed \cup Seeded /\ "guard" \notin Managed \cup Seeded
BY DEF Managed, Agents, Seeded, Whole

(* One file of the script: it fits, nothing is left to do about it, and    *)
(* what the project wrote in it is kept.                                   *)
LEMMA InstallsFit ==
  ASSUME FilesFit, NEW f \in Files, ~ScriptExits(f), NEW ch, NEW d, d = Installs(f, ch)
  PROVE  /\ FitFile(f, d) /\ CurrentFile(f, d, vcm)
         /\ f \in Shared /\ files[f] # Absent => TextKept(files[f], d)
<1>. DEFINE c == files[f]
<1>0. vcm.rules \in 1..2 /\ vcm.tool \in 1..2 /\ FitFile(f, c)
  BY DEF FilesFit
<1>1. CASE f = "gate-reviewer"
  <2>1. d = Absent
    BY <1>1, InstallsWhat
  <2>2. FitFile(f, d)
    BY <1>1, <2>1, AbsentFits DEF FitFile
  <2>3. CurrentFile(f, d, vcm)
    BY <1>1, <2>1, NamesDiffer DEF CurrentFile
  <2>4. f \notin Shared
    BY <1>1, NamesDiffer DEF Shared
  <2>. QED
    BY <2>2, <2>3, <2>4
<1>2. CASE f \in Managed
  <2>1. d = InstalledManaged(f, c, vcm.rules) /\ FitSheet(f, c)
    BY <1>0, <1>2, InstallsWhat DEF FitFile
  <2>2. f \in Remembers => ~MemoryMalformed(c.lines)
    BY DEF ScriptExits
  <2>. DEFINE v == vcm.rules
  <2>3. v \in 1..2 /\ d = InstalledManaged(f, c, v)
    BY <1>0, <2>1
  <2>. HIDE DEF v, c
  <2>4. /\ FitSheet(f, d)
        /\ c # Absent => TextKept(c, d)
        /\ (f \in Remembers => ~MemoryMalformed(c.lines)) => Settled(f, d, v)
    BY <1>2, <2>1, <2>3, InstalledFits
  <2>5. f \notin Seeded /\ f \notin {"gate-reviewer", "codex", "settings", "directories", "skill", "guard",
                                     "flat-skill", "manifest"}
    BY <1>2, NamesDiffer
  <2>6. FitFile(f, d)
    BY <2>4, <2>5 DEF FitFile
  <2>7. CurrentFile(f, d, vcm)
    BY <2>2, <2>4, <2>5 DEF CurrentFile, v
  <2>. QED
    BY <2>4, <2>6, <2>7 DEF c
<1>3. CASE f \in Seeded
  <2>1. d = IF c = Absent THEN Plain(<<"seed">>) ELSE c
    BY <1>3, InstallsWhat DEF SeedOf
  <2>2. d # Absent /\ (c # Absent => d = c)
    BY <2>1, SingleLines DEF Absent
  <2>3. f \notin Managed /\ f \notin {"gate-reviewer", "codex", "settings", "directories", "skill", "guard",
                                      "flat-skill", "manifest"}
    BY <1>3, NamesDiffer
  <2>4. FitFile(f, d) /\ CurrentFile(f, d, vcm)
    BY <2>2, <2>3 DEF FitFile, CurrentFile
  <2>5. TextKept(c, c)
    BY SameReflexive DEF TextKept
  <2>. QED
    BY <2>2, <2>4, <2>5
<1>4. CASE f = "settings"
  <2>. DEFINE v == vcm.rules
  <2>1. d = MergeHooks(c, v) /\ c \in Settings /\ c # Junk /\ v \in 1..2
    BY <1>0, <1>4, InstallsWhat DEF FitFile, ScriptExits
  <2>. HIDE DEF v, c
  <2>2. /\ d \in Settings /\ d # Junk /\ MergeHooks(d, v) = d
        /\ c # Absent => TextKept(c, d)
    BY <2>1, HooksFit
  <2>3. f \notin Managed \cup Seeded
    BY <1>4, NamesDiffer
  <2>4. FitFile(f, d)
    BY <1>4, <2>2, <2>3 DEF FitFile
  <2>5. CurrentFile(f, d, vcm)
    BY <1>4, <2>2, <2>3 DEF CurrentFile, v
  <2>. QED
    BY <2>2, <2>4, <2>5 DEF c
<1>5. CASE f \in Whole
  <2>1. d = WholeFile(f) /\ (f = "skill" \/ f = "guard")
    BY <1>5, InstallsWhat, NamesDiffer
  <2>2. f = "skill" => d = Plain(<<Rules(vcm.rules)>>)
    BY <2>1 DEF WholeFile
  <2>3. f = "guard" => d = Plain(<<Tool(vcm.tool)>>)
    BY <2>1 DEF WholeFile
  <2>4. f \notin Managed \cup Seeded
    BY <2>1, NamesDiffer
  <2>5. FitFile(f, d) /\ CurrentFile(f, d, vcm)
    BY <2>1, <2>2, <2>3, <2>4 DEF FitFile, CurrentFile
  <2>6. f \notin Shared
    BY <2>1, <2>4 DEF Shared
  <2>. QED
    BY <2>5, <2>6
<1>6. CASE f = "flat-skill"
  <2>. DEFINE old == Plain(<<Rules(vcm.rules)>>)
  <2>1. d = IF c = old THEN Absent ELSE c
    BY <1>6, InstallsWhat DEF IsOldSkill, WholeFile
  <2>2. Absent # old
    BY <1>0, SingleLines DEF Absent
  <2>3. d # old
    BY <2>1, <2>2
  <2>4. f \notin Managed \cup Seeded
    BY <1>6, NamesDiffer
  <2>5. FitFile(f, d) /\ CurrentFile(f, d, vcm)
    BY <1>6, <2>3, <2>4 DEF FitFile, CurrentFile
  <2>6. TextKept(c, d)
    <3>1. CASE c = old
      <4>. DEFINE x == Rules(vcm.rules)  y == "absent"
      <4>1. x \in Body /\ y \notin OwnLines /\ y # "BEGIN"
        BY <1>0, RulesAreBody DEF OwnLines
      <4>2. x # "BEGIN" /\ x \notin OwnLines
        BY <4>1, WordsDiffer
      <4>3. c.lines = <<x>> /\ c.fm = NoFm /\ d.lines = <<y>> /\ d.fm = NoFm
        BY <2>1, <3>1, SingleLines DEF Absent
      <4>. HIDE DEF x, y, c
      <4>4. Outside(<<x>>) = <<x>> /\ OwnPlaces(<<x>>) = {}
        BY <4>2, OneOutside
      <4>5. Outside(<<y>>) = <<y>> /\ OwnPlaces(<<y>>) = {}
        BY <4>1, OneOutside
      <4>6. SameText(<<x>>, <<y>>)
        BY <4>4, <4>5, NothingOwn
      <4>. QED
        BY <4>3, <4>4, <4>5, <4>6 DEF TextKept
    <3>2. CASE c # old
      BY <2>1, <3>2, SameReflexive DEF TextKept
    <3>. QED
      BY <3>1, <3>2
  <2>. QED
    BY <2>5, <2>6
<1>7. CASE f \in {"directories", "codex", "manifest"}
  <2>1. f \notin Managed \cup Seeded /\ f \notin Shared
    BY <1>7, NamesDiffer DEF Shared
  <2>2. f = "directories" => d = Plain(<<"made">>)
    BY InstallsWhat
  <2>3. f = "codex" => d = Absent
    BY InstallsWhat
  <2>4. f = "manifest" => IsManifest(d)
    <3>1. IsManifest(Manifest)
      BY DEF IsManifest, Manifest, Plain
    <3>2. f = "manifest" => d = IF IsManifest(c) /\ ch = {} THEN c ELSE Manifest
      BY InstallsWhat
    <3>. QED
      BY <3>1, <3>2
  <2>5. FitFile(f, d) /\ CurrentFile(f, d, vcm)
    BY <1>7, <2>1, <2>2, <2>3, <2>4 DEF FitFile, CurrentFile
  <2>. QED
    BY <2>1, <2>5
<1>. QED
  BY <1>1, <1>2, <1>3, <1>4, <1>5, <1>6, <1>7, FilesNamed

(* About a file that is current the script, and the panel, do nothing.     *)
LEMMA CurrentStays ==
  ASSUME FilesFit, NEW f \in Files, CurrentFile(f, files[f], vcm)
  PROVE  Installs(f, {}) = files[f]
<1>. DEFINE c == files[f]
<1>0. vcm.rules \in 1..2
  BY DEF FilesFit
<1>1. CASE f \in Managed
  <2>. DEFINE v == vcm.rules
  <2>1. Settled(f, c, v) /\ v \in 1..2
    BY <1>0, <1>1 DEF CurrentFile
  <2>. HIDE DEF v, c
  <2>2. InstalledManaged(f, c, v) = c
    BY <1>1, <2>1, SettledIsCurrent
  <2>3. Installs(f, {}) = InstalledManaged(f, files[f], vcm.rules)
    BY <1>1, InstallsWhat
  <2>. QED
    BY <2>2, <2>3 DEF c, v
<1>2. CASE f \in {"gate-reviewer", "codex"}
  BY <1>2, InstallsWhat DEF CurrentFile
<1>3. CASE f \in Seeded
  BY <1>3, InstallsWhat DEF CurrentFile
<1>4. CASE f = "settings"
  BY <1>4, InstallsWhat DEF CurrentFile
<1>5. CASE f = "directories"
  BY <1>5, InstallsWhat DEF CurrentFile
<1>6. CASE f \in Whole
  <2>1. Installs(f, {}) = WholeFile(f) /\ (f = "skill" \/ f = "guard")
    BY <1>6, InstallsWhat, NamesDiffer
  <2>2. f = "skill" => WholeFile(f) = c
    BY DEF WholeFile, CurrentFile
  <2>3. f = "guard" => WholeFile(f) = c
    BY DEF WholeFile, CurrentFile
  <2>. QED
    BY <2>1, <2>2, <2>3
<1>7. CASE f = "flat-skill"
  <2>1. ~IsOldSkill(c)
    BY <1>7 DEF IsOldSkill, WholeFile, CurrentFile
  <2>. QED
    BY <1>7, <2>1, InstallsWhat
<1>8. CASE f = "manifest"
  <2>1. IsManifest(c)
    BY <1>8 DEF CurrentFile
  <2>. QED
    BY <1>8, <2>1, InstallsWhat
<1>. QED
  BY <1>1, <1>2, <1>3, <1>4, <1>5, <1>6, <1>7, <1>8, FilesNamed

LEMMA InstalledEffect ==
  ASSUME FilesFit, NEW f \in Files, NEW ch, NEW next, next = Installed(f, ch)
  PROVE  /\ next = [g \in Files |-> next[g]] /\ next[f] = Installs(f, ch)
         /\ \A g \in Files : \/ g = f \/ next[g] = files[g]
                             \/ f = "gate-reviewer" /\ g = "reviewer" /\ files[f] # Absent
         /\ f = "gate-reviewer" /\ files[f] # Absent => next["reviewer"] = Renamed(files[f])
<1>. DEFINE up == [files EXCEPT ![f] = Installs(f, ch)]
<1>0. files = [g \in Files |-> files[g]] /\ "reviewer" \in Files /\ "reviewer" # "gate-reviewer"
  BY FilesNamed DEF FilesFit, Managed, Agents
<1>1. /\ up = [g \in Files |-> up[g]] /\ up[f] = Installs(f, ch)
      /\ \A g \in Files : g = f \/ up[g] = files[g]
  <2>. DEFINE new == Installs(f, ch)
  <2>. HIDE DEF new
  <2>1. [files EXCEPT ![f] = new] = [g \in Files |-> IF g = f THEN new ELSE files[g]]
    BY <1>0
  <2>. QED
    BY <2>1 DEF new
<1>. HIDE DEF up
<1>2. CASE f = "gate-reviewer" /\ files[f] # Absent
  <2>1. files["reviewer"] = Absent
    BY <1>2 DEF FilesFit
  <2>2. next = [up EXCEPT !["reviewer"] = Renamed(files[f])]
    BY <1>2, <2>1 DEF Installed, up
  <2>. DEFINE new == Renamed(files[f])
  <2>. HIDE DEF new
  <2>3. [up EXCEPT !["reviewer"] = new] = [g \in Files |-> IF g = "reviewer" THEN new ELSE up[g]]
    BY <1>1
  <2>4. next = [g \in Files |-> IF g = "reviewer" THEN new ELSE up[g]]
    BY <2>2, <2>3 DEF new
  <2>5. next["reviewer"] = new /\ \A g \in Files : g # "reviewer" => next[g] = up[g]
    BY <1>0, <2>4
  <2>. QED
    BY <1>0, <1>1, <1>2, <2>4, <2>5 DEF new
<1>3. CASE ~(f = "gate-reviewer" /\ files[f] # Absent)
  <2>1. next = up
    BY <1>3 DEF Installed, up
  <2>. QED
    BY <1>1, <1>3, <2>1
<1>. QED
  BY <1>2, <1>3

(***************************************************************************)
(* The repositories a task may begin with.                                 *)
(***************************************************************************)
LEMMA ShortProse ==
  /\ \A x \in Prose : <<x>> \in Seq(Prose)
  /\ \A x, y \in Prose : <<x, y>> \in Seq(Prose)
  /\ \A x, y, z \in Prose : <<x, y, z>> \in Seq(Prose)
  /\ \A x, y, z, u, v \in Prose : <<x, y, z, u, v>> \in Seq(Prose)
OBVIOUS

LEMMA OneOfTwo == 1 \in 1..2
OBVIOUS

LEMMA BlockAndProse ==
  ASSUME NEW t \in Seq(Prose), NEW v \in 1..2
  PROVE  t \o ManagedBlock(v) \in FitTexts /\ ManagedBlock(v) \o t \in FitTexts /\ t \in FitTexts
<1>. DEFINE m == Rules(v)  none == <<>>  b == Framed(m)
<1>1. m \in Body /\ m \in Words /\ none \in Seq(Prose) /\ none \in Seq(Words) /\ t \in Seq(Words)
  BY RulesAreBody, WordsDiffer, ProseIsWords, EmptySeq
<1>2. ManagedBlock(v) = b
  BY RulesAreBody
<1>. HIDE DEF m, none
<1>3. b \in Seq(Words)
  BY <1>1, FrameProperties
<1>. HIDE DEF b
<1>4. t \o b \in Seq(Words)
  BY <1>1, <1>3, ConcatProperties
<1>5. Text(t, m, none) = t \o b
  BY <1>4, ConcatEmptySeq DEF Text, b, none
<1>6. Text(none, m, t) = b \o t
  <2>1. none \o b = b
    BY <1>3, ConcatEmptySeq DEF none
  <2>. QED
    BY <2>1 DEF Text, b
<1>7. Text(t, m, none) \in FitTexts /\ Text(none, m, t) \in FitTexts
  BY <1>1, TextIsText
<1>8. t \in FitTexts
  BY DEF FitTexts
<1>9. t \o b \in FitTexts /\ b \o t \in FitTexts
  BY <1>5, <1>6, <1>7
<1>. QED
  BY <1>2, <1>8, <1>9

LEMMA OldAgentFits ==
  ASSUME NEW name \in Prose, NEW t \in Seq(Words), <<name, "own 1">> \o t \in FitTexts
  PROVE  /\ \A f : FitSheet(f, OldAgent(name, t))
         /\ \A f : FitSheet(f, [OldAgent(name, t) EXCEPT !.fm.tools = NoLine, !.fm.deny = {"Skill"}])
<1>. DEFINE fm == [NoFm EXCEPT !.on = TRUE, !.tools = {"Read"}, !.skills = {"navigation"},
                               !.own = {"model"}]
            lines == <<name, "own 1">> \o t
            c == OldAgent(name, t)
            d == [c EXCEPT !.fm.tools = NoLine, !.fm.deny = {"Skill"}]
<1>1. fm \in Fms /\ fm.skills = {"navigation"}
  BY DEF NoFm, NoLine, Fms, Entries
<1>2. NoLine \in SUBSET Entries /\ {"Skill"} \in SUBSET Entries
  BY DEF NoLine, Entries
<1>3. c = [fm |-> fm, lines |-> lines]
  BY DEF OldAgent
<1>. HIDE DEF fm, lines, c
<1>4. lines \in FitTexts
  BY DEF lines
<1>5. c \in Sheets /\ c.fm = fm
  BY <1>1, <1>3, <1>4 DEF Sheets
<1>6. d \in Sheets /\ d.fm.skills = {"navigation"} /\ d.fm \in Fms
  BY <1>1, <1>2, <1>5 DEF Sheets, Fms
<1>. HIDE DEF d
<1>7. \A f : FitFm(f, c.fm) /\ FitFm(f, d.fm)
  BY <1>1, <1>5, <1>6 DEF FitFm
<1>. QED
  BY <1>5, <1>6, <1>7 DEF FitSheet, c, d

LEMMA FoundWhat ==
  ASSUME ~OddInputs, NEW f
  PROVE  /\ f = "gate-reviewer" =>
              Found(f) = {OldAgent("old title", ManagedBlock(1)), OldAgent("own 2", <<>>)}
         /\ f \in Agents =>
              Found(f) = {OldAgent("title", <<>>), Plain(<<"own 1">>),
                          [OldAgent("title", <<"<memory>", "memo", "</memory>">> \o ManagedBlock(1))
                           EXCEPT !.fm.tools = NoLine, !.fm.deny = {"Skill"}]}
         /\ f = "claude" =>
              Found(f) = {Plain(<<>>), Plain(<<"own 1">>), Plain(ManagedBlock(1) \o <<"own 1">>),
                          Plain(<<"own 1", "<memory>", "memo", "</memory>", "own 2">>)}
         /\ f = "standards" =>
              Found(f) = {Plain(<<"legacy">>), Plain(<<"legacy", "own 1">>),
                          Plain(<<"own 1", "legacy">>), Plain(<<>>)}
         /\ f = "ignore" => Found(f) = {Plain(<<"own 1">>), Plain(ManagedBlock(1) \o <<"own 1">>)}
         /\ f = "settings" =>
              Found(f) = {Junk, Plain(<<"own hook", "hooks 1">>), Plain(<<"own hook">>)}
<1>. USE DEF Found, Agents
<1>0. OddFound(f) = {}
  BY DEF OddFound
<1>00. \A S : {} \union S = S
  OBVIOUS
<1>1. f = "gate-reviewer" =>
        Found(f) = {OldAgent("old title", ManagedBlock(1)), OldAgent("own 2", <<>>)}
  BY <1>0, <1>00, Zenon
<1>2. f \in Agents =>
        Found(f) = {OldAgent("title", <<>>), Plain(<<"own 1">>),
                    [OldAgent("title", <<"<memory>", "memo", "</memory>">> \o ManagedBlock(1))
                     EXCEPT !.fm.tools = NoLine, !.fm.deny = {"Skill"}]}
  BY <1>0, <1>00, Zenon
<1>3. f = "claude" =>
        Found(f) = {Plain(<<>>), Plain(<<"own 1">>), Plain(ManagedBlock(1) \o <<"own 1">>),
                    Plain(<<"own 1", "<memory>", "memo", "</memory>", "own 2">>)}
  BY <1>0, <1>00, Zenon
<1>4. f = "standards" =>
        Found(f) = {Plain(<<"legacy">>), Plain(<<"legacy", "own 1">>),
                    Plain(<<"own 1", "legacy">>), Plain(<<>>)}
  BY <1>0, <1>00, Zenon
<1>5. f = "ignore" => Found(f) = {Plain(<<"own 1">>), Plain(ManagedBlock(1) \o <<"own 1">>)}
  BY <1>0, <1>00, Zenon
<1>6. f = "settings" =>
        Found(f) = {Junk, Plain(<<"own hook", "hooks 1">>), Plain(<<"own hook">>)}
  BY <1>0, <1>00, Zenon
<1>. QED
  BY <1>1, <1>2, <1>3, <1>4, <1>5, <1>6, Zenon

LEMMA FoundFits ==
  ASSUME ~OddInputs, NEW f \in Files, NEW c \in Found(f)
  PROVE  FitFile(f, c)
<1>0. /\ "own 1" \in Prose /\ "own 2" \in Prose /\ "legacy" \in Prose /\ "title" \in Prose
      /\ "old title" \in Prose /\ "<memory>" \in Prose /\ "</memory>" \in Prose /\ "memo" \in Prose
  BY DEF Prose
<1>1. /\ <<>> \in FitTexts /\ <<"own 1">> \in FitTexts /\ <<"legacy">> \in FitTexts
      /\ <<"legacy", "own 1">> \in FitTexts /\ <<"own 1", "legacy">> \in FitTexts
      /\ <<"own 1", "<memory>", "memo", "</memory>", "own 2">> \in FitTexts
  <2>1. \A s \in Seq(Prose) : s \in FitTexts
    BY DEF FitTexts
  <2>2. <<>> \in FitTexts
    BY <2>1, EmptySeq
  <2>3. <<"own 1">> \in FitTexts
    BY <1>0, <2>1, ShortProse, Zenon
  <2>4. <<"legacy">> \in FitTexts
    BY <1>0, <2>1, ShortProse, Zenon
  <2>5. <<"legacy", "own 1">> \in FitTexts
    BY <1>0, <2>1, ShortProse, Zenon
  <2>6. <<"own 1", "legacy">> \in FitTexts
    BY <1>0, <2>1, ShortProse, Zenon
  <2>7. <<"own 1", "<memory>", "memo", "</memory>", "own 2">> \in FitTexts
    BY <1>0, <2>1, ShortProse, Zenon
  <2>. QED
    BY <2>2, <2>3, <2>4, <2>5, <2>6, <2>7
<1>2. ManagedBlock(1) \o <<"own 1">> \in FitTexts
  <2>. DEFINE s == <<"own 1">>
  <2>1. s \in Seq(Prose)
    BY <1>0, ShortProse, Zenon
  <2>. HIDE DEF s
  <2>2. ManagedBlock(1) \o s \in FitTexts
    BY <2>1, OneOfTwo, BlockAndProse
  <2>. QED
    BY <2>2 DEF s
<1>3. \A t \in FitTexts : \A g : FitSheet(g, Plain(t))
  BY PlainFits
<1>4. CASE f = "gate-reviewer"
  <2>1. \A g : FitSheet(g, OldAgent("old title", ManagedBlock(1)))
    <3>. DEFINE s == <<"old title", "own 1">>  t == ManagedBlock(1)  name == "old title"
    <3>1. s \in Seq(Prose) /\ name \in Prose
      BY <1>0, ShortProse, Zenon
    <3>2. t \in Seq(Words)
      BY RulesAreBody, WordsDiffer, FrameProperties
    <3>. HIDE DEF s, name
    <3>3. s \o t \in FitTexts
      BY <3>1, OneOfTwo, BlockAndProse
    <3>. HIDE DEF t
    <3>4. <<name, "own 1">> \o t \in FitTexts
      BY <3>3 DEF s, name
    <3>5. \A g : FitSheet(g, OldAgent(name, t))
      BY <3>1, <3>2, <3>4, OldAgentFits
    <3>. QED
      BY <3>5 DEF name, t
  <2>2. \A g : FitSheet(g, OldAgent("own 2", <<>>))
    <3>. DEFINE s == <<"own 2", "own 1">>  t == <<>>  name == "own 2"
    <3>1. s \in Seq(Prose) /\ name \in Prose
      BY <1>0, ShortProse, Zenon
    <3>2. t \in Seq(Words)
      BY EmptySeq
    <3>. HIDE DEF s, name
    <3>3. s \o t \in FitTexts
      BY <3>1, ConcatEmptySeq DEF FitTexts
    <3>. HIDE DEF t
    <3>4. <<name, "own 1">> \o t \in FitTexts
      BY <3>3 DEF s, name
    <3>5. \A g : FitSheet(g, OldAgent(name, t))
      BY <3>1, <3>2, <3>4, OldAgentFits
    <3>. QED
      BY <3>5 DEF name, t
  <2>3. c \in {OldAgent("old title", ManagedBlock(1)), OldAgent("own 2", <<>>)}
    BY <1>4, FoundWhat
  <2>. QED
    BY <1>4, <2>1, <2>2, <2>3 DEF FitFile
<1>5. CASE f \in Agents
  <2>. DEFINE memo == <<"<memory>", "memo", "</memory>">>
  <2>1. \A g : FitSheet(g, OldAgent("title", <<>>))
    <3>. DEFINE s == <<"title", "own 1">>  t == <<>>  name == "title"
    <3>1. s \in Seq(Prose) /\ name \in Prose
      BY <1>0, ShortProse, Zenon
    <3>2. t \in Seq(Words)
      BY EmptySeq
    <3>. HIDE DEF s, name
    <3>3. s \o t \in FitTexts
      BY <3>1, ConcatEmptySeq DEF FitTexts
    <3>. HIDE DEF t
    <3>4. <<name, "own 1">> \o t \in FitTexts
      BY <3>3 DEF s, name
    <3>5. \A g : FitSheet(g, OldAgent(name, t))
      BY <3>1, <3>2, <3>4, OldAgentFits
    <3>. QED
      BY <3>5 DEF name, t
  <2>2. \A g : FitSheet(g, [OldAgent("title", memo \o ManagedBlock(1))
                             EXCEPT !.fm.tools = NoLine, !.fm.deny = {"Skill"}])
    <3>. DEFINE s == <<"title", "own 1">>  u == ManagedBlock(1)  name == "title"  t == memo \o u
    <3>1. s \in Seq(Prose) /\ memo \in Seq(Prose) /\ name \in Prose
      BY <1>0, ShortProse, Zenon
    <3>2. u \in Seq(Words)
      BY RulesAreBody, WordsDiffer, FrameProperties
    <3>. HIDE DEF s, name, memo
    <3>3. s \o memo \in Seq(Prose) /\ s \in Seq(Words) /\ memo \in Seq(Words)
      BY <3>1, ConcatProperties, ProseIsWords
    <3>4. (s \o memo) \o u \in FitTexts
      <4>. DEFINE p == s \o memo
      <4>1. p \in Seq(Prose)
        BY <3>3
      <4>. HIDE DEF p, u
      <4>2. p \o ManagedBlock(1) \in FitTexts
        BY <4>1, OneOfTwo, BlockAndProse
      <4>. QED
        BY <4>2 DEF p, u
    <3>. HIDE DEF u
    <3>5. (s \o memo) \o u = s \o t
      BY <3>2, <3>3, ConcatAssociative
    <3>6. t \in Seq(Words)
      BY <3>2, <3>3, ConcatProperties
    <3>. HIDE DEF t
    <3>7. <<name, "own 1">> \o t \in FitTexts
      BY <3>4, <3>5 DEF s, name
    <3>8. \A g : FitSheet(g, [OldAgent(name, t) EXCEPT !.fm.tools = NoLine, !.fm.deny = {"Skill"}])
      BY <3>1, <3>6, <3>7, OldAgentFits
    <3>. QED
      BY <3>8 DEF name, t, u
  <2>3. c \in {OldAgent("title", <<>>), Plain(<<"own 1">>),
               [OldAgent("title", memo \o ManagedBlock(1)) EXCEPT !.fm.tools = NoLine,
                                                                  !.fm.deny = {"Skill"}]}
    BY <1>5, FoundWhat
  <2>4. f # "settings"
    BY <1>5 DEF Agents
  <2>5. FitSheet(f, c)
    BY <1>1, <1>3, <2>1, <2>2, <2>3
  <2>. QED
    BY <2>4, <2>5 DEF FitFile
<1>6. CASE f \in {"claude", "standards", "ignore"}
  <2>1. c \in {Plain(<<>>), Plain(<<"own 1">>), Plain(ManagedBlock(1) \o <<"own 1">>),
               Plain(<<"own 1", "<memory>", "memo", "</memory>", "own 2">>), Plain(<<"legacy">>),
               Plain(<<"legacy", "own 1">>), Plain(<<"own 1", "legacy">>)}
    <3>1. CASE f = "claude"
      BY <3>1, FoundWhat
    <3>2. CASE f = "standards"
      BY <3>2, FoundWhat
    <3>3. CASE f = "ignore"
      BY <3>3, FoundWhat
    <3>. QED
      BY <1>6, <3>1, <3>2, <3>3
  <2>2. FitSheet(f, c)
    BY <1>1, <1>2, <1>3, <2>1
  <2>. QED
    BY <1>6, <2>2 DEF FitFile
<1>7. CASE f = "settings"
  <2>1. c \in {Junk, Plain(<<"own hook", "hooks 1">>), Plain(<<"own hook">>)}
    BY <1>7, FoundWhat
  <2>2. BothHooks(1) = Plain(<<"own hook", "hooks 1">>) /\ OwnHook = Plain(<<"own hook">>)
    BY DEF BothHooks, Hooks, OwnHook
  <2>3. BothHooks(1) \in Settings /\ OwnHook \in Settings /\ Junk \in Settings
    BY DEF Settings
  <2>4. f \notin Managed \cup {"gate-reviewer"}
    BY <1>7, NamesDiffer
  <2>. QED
    BY <2>1, <2>2, <2>3, <2>4 DEF FitFile
<1>8. CASE f \notin Managed \cup {"gate-reviewer", "settings"}
  BY <1>8 DEF FitFile
<1>. QED
  BY <1>4, <1>5, <1>6, <1>7, <1>8 DEF Managed

LEMMA BeginningFits ==
  ASSUME NEW base \in {[f \in Files |-> Absent], InstalledBefore}
  PROVE  /\ base = [f \in Files |-> base[f]] /\ base["gate-reviewer"] = Absent
         /\ \A f \in Files : FitFile(f, base[f])
<1>0. "gate-reviewer" \in Files /\ "settings" \in Files
  BY FilesNamed
<1>1. CASE base = [f \in Files |-> Absent]
  <2>1. Absent \in Settings
    BY DEF Settings
  <2>2. \A f \in Files : base[f] = Absent
    BY <1>1
  <2>. QED
    BY <1>0, <1>1, <2>1, <2>2, AbsentFits DEF FitFile
<1>2. CASE base = InstalledBefore
  <2>1. base = [f \in Files |-> base[f]]
    BY <1>2 DEF InstalledBefore
  <2>2. base["gate-reviewer"] = Absent
    BY <1>0, <1>2, Zenon DEF InstalledBefore, Managed, Agents, Seeded
  <2>3. base["settings"] = MergeHooks(Absent, 1)
    BY <1>0, <1>2, Zenon DEF InstalledBefore, Managed, Agents, Seeded
  <2>4. ASSUME NEW f \in Managed PROVE FitSheet(f, base[f])
    <3>1. base[f] = InstalledManaged(f, Absent, 1)
      BY <1>2, <2>4, FilesNamed DEF InstalledBefore
    <3>2. FitSheet(f, Absent)
      BY AbsentFits
    <3>. DEFINE c == Absent  d == InstalledManaged(f, c, 1)
    <3>3. FitSheet(f, c)
      BY <3>2
    <3>. HIDE DEF c
    <3>4. FitSheet(f, d)
      BY <3>3, OneOfTwo, InstalledFits
    <3>. QED
      BY <3>1, <3>4 DEF c
  <2>5. base["settings"] \in Settings
    BY <2>3, OneOfTwo, Merged DEF Settings
  <2>. QED
    BY <2>1, <2>2, <2>4, <2>5, AbsentFits DEF FitFile
<1>. QED
  BY <1>1, <1>2

LEMMA IdleFits == /\ Idle \in [kind : Operations, at : Nat, changed : SUBSET Files, fresh : BOOLEAN]
                  /\ Idle.kind = "none" /\ Idle.fresh = FALSE
BY DEF Idle, Operations

LEMMA TextInit == ASSUME ~OddInputs, HarnessInit PROVE TextInv
<1>1. PICK base \in {[f \in Files |-> Absent], InstalledBefore}, f \in Files :
        \E c \in Found(f) \union {base[f]} :
          files = [base EXCEPT ![f] = c, !["reviewer"] = IF f = "gate-reviewer" THEN Absent
                                                       ELSE IF f = "reviewer" THEN c ELSE @]
  BY DEF HarnessInit
<1>2. PICK c \in Found(f) \union {base[f]} :
        files = [base EXCEPT ![f] = c, !["reviewer"] = IF f = "gate-reviewer" THEN Absent
                                                     ELSE IF f = "reviewer" THEN c ELSE @]
  BY <1>1
<1>3. /\ base = [g \in Files |-> base[g]] /\ base["gate-reviewer"] = Absent
      /\ \A g \in Files : FitFile(g, base[g])
  BY BeginningFits
<1>4. FitFile(f, c)
  BY <1>3, FoundFits
<1>5. "reviewer" \in Files /\ "gate-reviewer" \in Files /\ "reviewer" # "gate-reviewer"
  BY FilesNamed DEF Managed, Agents
<1>6. /\ files = [g \in Files |-> files[g]]
      /\ \A g \in Files : g # "reviewer" => files[g] = IF g = f THEN c ELSE base[g]
      /\ files["reviewer"] = IF f = "gate-reviewer" THEN Absent
                             ELSE IF f = "reviewer" THEN c ELSE base["reviewer"]
  BY <1>2, <1>3, <1>5
<1>7. \A g : FitFile(g, Absent)
  <2>1. Absent \in Settings
    BY DEF Settings
  <2>. QED
    BY <2>1, AbsentFits DEF FitFile
<1>8. \A g \in Files : FitFile(g, files[g])
  BY <1>3, <1>4, <1>5, <1>6, <1>7
<1>9. files["gate-reviewer"] # Absent => files["reviewer"] = Absent
  BY <1>3, <1>5, <1>6
<1>10. vcm \in [package : 1..2, rules : 1..2, tool : 1..2]
  BY DEF HarnessInit, OldVcm
<1>11. FilesFit
  BY <1>6, <1>8, <1>9, <1>10 DEF FilesFit
<1>12. operation = Idle
  BY DEF HarnessInit
<1>. QED
  BY <1>11, <1>12, IdleFits DEF TextInv, OperationFits, FreshIsCurrent

(* Steps that leave the files and VCM alone.                               *)
LEMMA TextRests ==
  ASSUME TextInv, UNCHANGED <<files, vcm>>,
         \/ UNCHANGED operation
         \/ operation' = Idle
         \/ BeginApply \/ Bump \/ CommitHarness
  PROVE  TextInv'
<1>. USE DEF TextInv, OperationFits, FreshIsCurrent, Operations
<1>0. FilesFit'
  BY DEF FilesFit
<1>1. CASE UNCHANGED operation
  BY <1>0, <1>1
<1>2. CASE operation' = Idle
  BY <1>0, <1>2, IdleFits
<1>3. CASE BeginApply
  <2>1. operation' = [Idle EXCEPT !.kind = "install", !.at = 1, !.fresh = TRUE]
    BY <1>3 DEF BeginApply
  <2>2. /\ operation' \in [kind : Operations, at : Nat, changed : SUBSET Files, fresh : BOOLEAN]
        /\ operation'.at = 1 /\ operation'.kind = "install"
    BY <2>1, IdleFits
  <2>3. Len(Order) \in Nat /\ Len(Order) >= 1
    BY OrderIsASequence
  <2>. QED
    BY <1>0, <2>2, <2>3
<1>4. CASE Bump
  BY <1>0, <1>4 DEF Bump
<1>5. CASE CommitHarness
  <2>1. operation.kind = "commit" /\ operation' \in {Idle, [Idle EXCEPT !.fresh = operation.fresh]}
    BY <1>5 DEF CommitHarness
  <2>2. /\ operation' \in [kind : Operations, at : Nat, changed : SUBSET Files, fresh : BOOLEAN]
        /\ operation'.kind = "none" /\ (operation'.fresh => operation.fresh)
    BY <2>1, IdleFits
  <2>. QED
    BY <1>0, <2>1, <2>2
<1>. QED
  BY <1>1, <1>2, <1>3, <1>4, <1>5

LEMMA EditedFits ==
  ASSUME ~OddInputs, FilesFit, NEW f \in Files, Touched(f), NEW c \in Edits(f),
         files' = [files EXCEPT ![f] = c], vcm' = vcm
  PROVE  FilesFit' /\ files'["gate-reviewer"] = files["gate-reviewer"]
<1>1. /\ f \in Managed \cup Whole \cup Seeded \cup {"settings"} /\ f # "gate-reviewer"
      /\ f = "reviewer" => files["gate-reviewer"] = Absent
  BY NamesDiffer DEF Touched
<1>2. FitFile(f, c)
  <2>1. CASE f \in Managed
    <3>1. FitSheet(f, files[f])
      BY <2>1 DEF FilesFit, FitFile
    <3>2. FitSheet(f, c)
      BY <2>1, <3>1, EditsFit
    <3>. QED
      BY <2>1, <3>2, NamesDiffer DEF FitFile
  <2>2. CASE f = "settings"
    <3>1. c = OwnHook \/ c = Absent
      BY <2>2 DEF Edits, OwnHook
    <3>. QED
      BY <2>2, <3>1, NamesDiffer DEF FitFile, Settings
  <2>3. CASE f \in Whole \cup Seeded
    BY <1>1, <2>3, NamesDiffer DEF FitFile
  <2>. QED
    BY <1>1, <2>1, <2>2, <2>3
<1>3. /\ files' = [g \in Files |-> files'[g]] /\ files'[f] = c
      /\ \A g \in Files : g # f => files'[g] = files[g]
  BY DEF FilesFit
<1>4. "reviewer" \in Files /\ "gate-reviewer" \in Files
  BY FilesNamed DEF Managed, Agents
<1>5. \A g \in Files : FitFile(g, files'[g])
  BY <1>2, <1>3 DEF FilesFit
<1>6. files'["gate-reviewer"] = files["gate-reviewer"]
  BY <1>1, <1>3, <1>4
<1>7. files'["gate-reviewer"] # Absent => files'["reviewer"] = Absent
  BY <1>1, <1>3, <1>4, <1>6 DEF FilesFit
<1>8. vcm' \in [package : 1..2, rules : 1..2, tool : 1..2]
  BY DEF FilesFit
<1>. QED
  BY <1>3, <1>5, <1>6, <1>7, <1>8 DEF FilesFit

LEMMA TextEdit ==
  ASSUME ~OddInputs, TextInv, NEW f \in Files, Edit(f) \/ EditInStudio(f)
  PROVE  TextInv'
<1>. USE DEF Operations
<1>1. PICK c \in Edits(f) : files' = [files EXCEPT ![f] = c]
  BY DEF Edit, EditInStudio
<1>2. Touched(f) /\ vcm' = vcm
  BY DEF Edit, EditInStudio
<1>3. FilesFit' /\ files'["gate-reviewer"] = files["gate-reviewer"]
  BY <1>1, <1>2, EditedFits DEF TextInv
<1>4. CASE operation' = [operation EXCEPT !.fresh = FALSE]
  BY <1>3, <1>4 DEF TextInv, OperationFits, FreshIsCurrent
<1>5. CASE operation' = [Idle EXCEPT !.kind = "finish", !.changed = {f}]
  <2>1. /\ operation' \in [kind : Operations, at : Nat, changed : SUBSET Files, fresh : BOOLEAN]
        /\ operation'.kind = "finish" /\ operation'.fresh = FALSE
    BY <1>5, IdleFits
  <2>. QED
    BY <1>3, <2>1 DEF TextInv, OperationFits, FreshIsCurrent
<1>. QED
  BY <1>4, <1>5 DEF Edit, EditInStudio

LEMMA TextUpgrade == ASSUME TextInv, Upgrade PROVE TextInv'
<1>1. files' = files /\ operation' = Idle
  BY DEF Upgrade
<1>2. PICK r \in 1..2, t \in 1..2 : vcm' = [package |-> 2, rules |-> r, tool |-> t]
  BY DEF Upgrade
<1>3. vcm' \in [package : 1..2, rules : 1..2, tool : 1..2]
  BY <1>2
<1>4. FilesFit'
  BY <1>1, <1>3 DEF TextInv, FilesFit
<1>. QED
  BY <1>1, <1>4, IdleFits DEF TextInv, OperationFits, FreshIsCurrent

(* Lines written above a block stand above it.                             *)
LEMMA Regrouped ==
  ASSUME NEW s \in Seq(Words), NEW t \in Seq(Words), NEW u \in Seq(Words)
  PROVE  s \o (t \o u) = (s \o t) \o u
<1>1. s \in Seq(Words) /\ t \in Seq(Words) /\ u \in Seq(Words)
  OBVIOUS
<1>. QED
  BY <1>1, ConcatAssociative

LEMMA BlockBelow ==
  ASSUME NEW s \in Seq(Words), NEW a \in Seq(Words), NEW m \in Words, NEW b \in Seq(Words)
  PROVE  s \o Text(a, m, b) = Text(s \o a, m, b)
<1>1. Framed(m) \in Seq(Words)
  BY FrameProperties
<1>2. a \o Framed(m) \in Seq(Words)
  BY <1>1, ConcatProperties
<1>3. s \o ((a \o Framed(m)) \o b) = (s \o (a \o Framed(m))) \o b
  BY <1>2, Regrouped, Zenon
<1>4. s \o (a \o Framed(m)) = (s \o a) \o Framed(m)
  BY <1>1, Regrouped, Zenon
<1>. QED
  BY <1>3, <1>4, Zenon DEF Text

(* A sheet with other lines.                                               *)
Rewritten(c, u) == [c EXCEPT !.lines = u]

LEMMA RewrittenSheet ==
  ASSUME NEW c \in Sheets, NEW u \in FitTexts
  PROVE  /\ Rewritten(c, u) \in Sheets
         /\ Rewritten(c, u).fm = c.fm /\ Rewritten(c, u).lines = u
BY SheetUpdated DEF Rewritten

(* The project context the engineer writes above the block of CLAUDE.md.   *)
LEMMA AboveFits ==
  ASSUME NEW c, FitSheet("claude", c), NEW d, d = [c EXCEPT !.lines = <<"own 1">> \o @]
  PROVE  /\ FitSheet("claude", d)
         /\ \A v \in 1..2 : Settled("claude", c, v) => Settled("claude", d, v)
<1>. DEFINE x == "own 1"  s == <<x>>
<1>1. x \in Prose /\ x \in Prose \ Marks
  BY DEF Prose, Marks
<1>2. c \in Sheets /\ c.lines \in FitTexts /\ FitFm("claude", c.fm)
  BY SheetUpdated DEF FitSheet
<1>3. s \in Seq(Prose) /\ s \in Seq(Words)
  BY <1>1, OneLine, ProseIsWords
<1>. HIDE DEF x
<1>4. s \o c.lines \in FitTexts
  BY <1>1, <1>2, TextEdited
<1>5. d = [c EXCEPT !.lines = s \o c.lines]
  BY DEF x
<1>. HIDE DEF s
<1>6. d \in Sheets /\ d.fm = c.fm /\ d.lines = s \o c.lines
  <2>. DEFINE u == s \o c.lines
  <2>1. u \in FitTexts /\ d = [c EXCEPT !.lines = u]
    BY <1>4, <1>5
  <2>. HIDE DEF u
  <2>2. d = Rewritten(c, u)
    BY <2>1 DEF Rewritten
  <2>3. d \in Sheets /\ d.fm = c.fm /\ d.lines = u
    <3>1. c \in Sheets /\ u \in FitTexts
      BY <1>2, <2>1
    <3>2. /\ Rewritten(c, u) \in Sheets
          /\ Rewritten(c, u).fm = c.fm /\ Rewritten(c, u).lines = u
      BY <3>1, RewrittenSheet, Zenon
    <3>. QED
      BY <2>2, <3>2
  <2>. QED
    BY <2>3 DEF u
<1>7. FitSheet("claude", d)
  BY <1>2, <1>6 DEF FitSheet
<1>8. ASSUME NEW v \in 1..2, Settled("claude", c, v) PROVE Settled("claude", d, v)
  <2>1. PICK a \in Seq(Prose), b \in Seq(Prose) : c.lines = Text(a, Rules(v), b)
    BY <1>8 DEF Settled
  <2>2. Remembered(c.lines) /\ NormalizeFm("claude", c.fm) = c.fm
    BY <1>8 DEF Settled, Remembers
  <2>3. s \o a \in Seq(Prose)
    BY <1>3, ConcatProperties
  <2>4. s \o c.lines = Text(s \o a, Rules(v), b)
    <3>. DEFINE m == Rules(v)
    <3>1. m \in Words
      BY RulesAreBody, WordsDiffer
    <3>. HIDE DEF m
    <3>2. s \in Seq(Words) /\ a \in Seq(Words) /\ b \in Seq(Words)
      BY <1>3, ProseIsWords
    <3>3. s \o Text(a, m, b) = Text(s \o a, m, b)
      BY <3>1, <3>2, BlockBelow
    <3>. QED
      BY <2>1, <3>3 DEF m
  <2>5. c.lines \in Seq(Words)
    BY <1>2, TextsAreWords
  <2>6. Remembered(s \o c.lines)
    <3>. DEFINE t == c.lines
    <3>1. t \in Seq(Words) /\ Remembered(t)
      BY <2>2, <2>5
    <3>. HIDE DEF t
    <3>2. Remembered(<<x>> \o t)
      BY <1>1, <3>1, MemoryBelow
    <3>. QED
      BY <3>2 DEF s, t
  <2>7. \E a1, b1 \in Seq(Prose) : d.lines = Text(a1, Rules(v), b1)
    <3>1. d.lines = Text(s \o a, Rules(v), b)
      BY <1>6, <2>4
    <3>. QED
      BY <2>3, <3>1
  <2>. QED
    BY <1>6, <1>7, <2>2, <2>6, <2>7 DEF Settled
<1>. QED
  BY <1>7, <1>8

LEMMA TextEngineer == ASSUME TextInv, EngineerWorks PROVE TextInv'
<1>. DEFINE c == files["claude"]  d == [c EXCEPT !.lines = <<"own 1">> \o @]  own == Plain(<<"own 1">>)
<1>1. files' = Bootstrapped /\ UNCHANGED <<vcm, operation>>
  BY DEF EngineerWorks
<1>2. /\ "claude" \in Files /\ "glossary" \in Files /\ "testing" \in Files
      /\ "reviewer" \in Files /\ "gate-reviewer" \in Files /\ "claude" \in Managed
      /\ "glossary" \in Seeded /\ "testing" \in Seeded
  BY FilesNamed DEF Managed, Agents, Seeded
<1>3. files = [g \in Files |-> files[g]] /\ FitSheet("claude", c)
  BY <1>2 DEF TextInv, FilesFit, FitFile
<1>. HIDE DEF d, own
<1>4. files' = [files EXCEPT !["claude"] = d, !["glossary"] = own, !["testing"] = own]
  BY <1>1 DEF Bootstrapped, d, own
<1>5. /\ files' = [g \in Files |-> files'[g]]
      /\ files'["claude"] = d /\ files'["glossary"] = own /\ files'["testing"] = own
      /\ \A g \in Files \ {"claude", "glossary", "testing"} : files'[g] = files[g]
  BY <1>2, <1>3, <1>4
<1>6. FitSheet("claude", d) /\ \A v \in 1..2 : Settled("claude", c, v) => Settled("claude", d, v)
  BY <1>3, AboveFits DEF d
<1>7. own # Absent
  BY SingleLines DEF own, Absent
<1>8. ASSUME NEW g \in Files PROVE FitFile(g, files'[g])
  <2>1. CASE g = "claude"
    BY <1>2, <1>5, <1>6, <2>1, NamesDiffer DEF FitFile
  <2>2. CASE g \in {"glossary", "testing"}
    BY <1>2, <2>2, NamesDiffer DEF FitFile
  <2>3. CASE g \notin {"claude", "glossary", "testing"}
    BY <1>5, <2>3 DEF TextInv, FilesFit
  <2>. QED
    BY <2>1, <2>2, <2>3
<1>9. FilesFit'
  <2>1. files'["reviewer"] = files["reviewer"] /\ files'["gate-reviewer"] = files["gate-reviewer"]
    BY <1>2, <1>5
  <2>. QED
    BY <1>1, <1>5, <1>8, <2>1 DEF TextInv, FilesFit
<1>10. ASSUME NEW g \in Files, CurrentFile(g, files[g], vcm) PROVE CurrentFile(g, files'[g], vcm)
  <2>1. CASE g = "claude"
    <3>1. Settled("claude", c, vcm.rules) /\ vcm.rules \in 1..2
      BY <1>2, <1>10, <2>1 DEF CurrentFile, TextInv, FilesFit
    <3>2. Settled("claude", d, vcm.rules)
      BY <1>6, <3>1
    <3>. QED
      BY <1>2, <1>5, <2>1, <3>2, NamesDiffer DEF CurrentFile
  <2>2. CASE g \in {"glossary", "testing"}
    BY <1>2, <1>5, <1>7, <2>2, NamesDiffer DEF CurrentFile
  <2>3. CASE g \notin {"claude", "glossary", "testing"}
    BY <1>5, <1>10, <2>3
  <2>. QED
    BY <2>1, <2>2, <2>3
<1>11. FreshIsCurrent'
  <2>. HIDE DEF c
  <2>1. \A i \in 1..Len(Order) : Order[i] \in Files
    BY FilesNamed
  <2>. QED
    BY <1>1, <1>10, <2>1 DEF TextInv, FreshIsCurrent
<1>12. OperationFits'
  <2>1. files'["gate-reviewer"] = files["gate-reviewer"]
    BY <1>2, <1>5
  <2>. QED
    BY <1>1, <2>1 DEF TextInv, OperationFits
<1>. QED
  BY <1>9, <1>11, <1>12 DEF TextInv

(* A file of the script: what the project wrote is kept, and the file is   *)
(* up to date.                                                             *)
Kept1 ==
  /\ \A f \in Shared : files[f] # Absent => TextKept(files[f], files'[f])
  /\ files'["gate-reviewer"] # files["gate-reviewer"] =>
       TextKept(files["gate-reviewer"], files'["reviewer"])

LEMMA TextInstall == ASSUME TextInv, InstallFile PROVE TextInv' /\ Kept1
<1>. DEFINE i == operation.at  ch == operation.changed
<1>0. FilesFit /\ operation.kind = "install" /\ i \in 1..Len(Order) /\ Len(Order) \in Nat
  BY FilesNamed DEF InstallFile, TextInv, OperationFits
<1>1. PICK f \in Files : f = Order[i]
  BY <1>0, FilesNamed
<1>2. /\ ~ScriptExits(f) /\ files' = Installed(f, ch) /\ vcm' = vcm
      /\ \E S : operation' = [Step EXCEPT !.changed = @ \union S] /\ S \subseteq Files
  <2>. DEFINE S == IF Installed(f, ch) = files THEN {} ELSE {f}
  <2>1. operation' = [Step EXCEPT !.changed = @ \union S]
    BY <1>1 DEF InstallFile
  <2>2. S \subseteq Files
    OBVIOUS
  <2>3. ~ScriptExits(f) /\ files' = Installed(f, ch) /\ vcm' = vcm
    BY <1>1 DEF InstallFile
  <2>. HIDE DEF S
  <2>. QED
    BY <2>1, <2>2, <2>3
<1>. DEFINE d == Installs(f, ch)
<1>3. /\ FitFile(f, d) /\ CurrentFile(f, d, vcm)
      /\ f \in Shared /\ files[f] # Absent => TextKept(files[f], d)
  BY <1>0, <1>2, InstallsFit
<1>4. /\ files' = [g \in Files |-> files'[g]] /\ files'[f] = d
      /\ \A g \in Files : \/ g = f \/ files'[g] = files[g]
                          \/ f = "gate-reviewer" /\ g = "reviewer" /\ files[f] # Absent
      /\ f = "gate-reviewer" /\ files[f] # Absent => files'["reviewer"] = Renamed(files[f])
  BY <1>0, <1>2, InstalledEffect
<1>5. f = "gate-reviewer" => d = Absent
  BY InstallsWhat
<1>. HIDE DEF d
<1>6. /\ "reviewer" \in Files /\ "gate-reviewer" \in Files /\ "reviewer" # "gate-reviewer"
      /\ "reviewer" \in Managed /\ "gate-reviewer" \notin Managed /\ "gate-reviewer" \notin Shared
      /\ Shared \subseteq Files
  BY FilesNamed, NamesDiffer DEF Managed, Agents, Shared
<1>7. f = "gate-reviewer" /\ files[f] # Absent =>
        /\ FitSheet("reviewer", files'["reviewer"]) /\ files["reviewer"] = Absent
        /\ TextKept(files["gate-reviewer"], files'["reviewer"])
  <2>. SUFFICES ASSUME f = "gate-reviewer", files[f] # Absent
                PROVE  /\ FitSheet("reviewer", files'["reviewer"]) /\ files["reviewer"] = Absent
                       /\ TextKept(files["gate-reviewer"], files'["reviewer"])
    OBVIOUS
  <2>. DEFINE c == files["gate-reviewer"]
  <2>1. FitSheet("gate-reviewer", c) /\ files["reviewer"] = Absent
    BY <1>0, <1>6 DEF FilesFit, FitFile
  <2>. HIDE DEF c
  <2>2. FitSheet("reviewer", Renamed(c)) /\ TextKept(c, Renamed(c))
    BY <2>1, RenamedFits
  <2>3. files'["reviewer"] = Renamed(c)
    BY <1>4 DEF c
  <2>. QED
    BY <2>1, <2>2, <2>3 DEF c
<1>8. files'["gate-reviewer"] = files["gate-reviewer"] \/ (f = "gate-reviewer" /\ files'["gate-reviewer"] = Absent)
  BY <1>4, <1>5, <1>6
<1>9. \A g \in Files : FitFile(g, files'[g])
  <2>. SUFFICES ASSUME NEW g \in Files PROVE FitFile(g, files'[g])
    OBVIOUS
  <2>1. CASE g = f
    BY <1>3, <1>4, <2>1
  <2>2. CASE files'[g] = files[g]
    BY <1>0, <2>2 DEF FilesFit
  <2>3. CASE f = "gate-reviewer" /\ g = "reviewer" /\ files[f] # Absent
    BY <1>7, <2>3 DEF FitFile
  <2>. QED
    BY <1>4, <2>1, <2>2, <2>3
<1>10. i > 1 => files["gate-reviewer"] = Absent
  BY <1>0 DEF TextInv, OperationFits
<1>11. i = 1 => f = "gate-reviewer"
  BY <1>1, FilesNamed
<1>12. files'["gate-reviewer"] = Absent
  BY <1>0, <1>8, <1>10, <1>11, <1>4, <1>5, <1>6
<1>13. FilesFit'
  BY <1>0, <1>2, <1>4, <1>9, <1>12 DEF FilesFit
<1>14. /\ operation' \in [kind : Operations, at : Nat, changed : SUBSET Files, fresh : BOOLEAN]
       /\ operation'.fresh = operation.fresh
       /\ \/ operation'.kind = "install" /\ operation'.at = i + 1 /\ i + 1 \in 1..Len(Order)
          \/ operation'.kind = "finish" /\ i = Len(Order)
  <2>1. PICK S : operation' = [Step EXCEPT !.changed = @ \union S] /\ S \subseteq Files
    BY <1>2
  <2>2. operation \in [kind : Operations, at : Nat, changed : SUBSET Files, fresh : BOOLEAN]
    BY DEF TextInv, OperationFits
  <2>3. /\ Step \in [kind : Operations, at : Nat, changed : SUBSET Files, fresh : BOOLEAN]
        /\ Step.fresh = operation.fresh
        /\ \/ Step.kind = "install" /\ Step.at = i + 1 /\ i + 1 \in 1..Len(Order)
           \/ Step.kind = "finish" /\ i = Len(Order)
    BY <1>0, <2>2 DEF Step, Operations
  <2>4. /\ operation' \in [kind : Operations, at : Nat, changed : SUBSET Files, fresh : BOOLEAN]
        /\ operation'.kind = Step.kind /\ operation'.at = Step.at /\ operation'.fresh = Step.fresh
    BY <2>1, <2>3
  <2>. QED
    BY <2>3, <2>4
<1>15. OperationFits'
  BY <1>12, <1>14 DEF OperationFits
<1>16. ASSUME operation'.fresh, NEW j \in 1..Len(Order), operation'.kind = "install" => j < operation'.at
       PROVE  CurrentFile(Order[j], files'[Order[j]], vcm)
  <2>1. CASE Order[j] = f
    BY <1>3, <1>4, <2>1
  <2>2. CASE Order[j] # f
    <3>1. j < i
      <4>1. j # i
        BY <1>1, <2>2
      <4>2. j <= i
        BY <1>0, <1>14, <1>16
      <4>. QED
        BY <1>0, <4>1, <4>2
    <3>2. CurrentFile(Order[j], files[Order[j]], vcm)
      BY <1>0, <1>14, <1>16, <3>1 DEF TextInv, FreshIsCurrent
    <3>3. files["gate-reviewer"] = Absent /\ Order[j] \in Files
      BY <1>0, <1>10, <3>1, FilesNamed
    <3>4. files'[Order[j]] = files[Order[j]]
      BY <1>4, <2>2, <3>3
    <3>. QED
      BY <3>2, <3>4
  <2>. QED
    BY <2>1, <2>2
<1>17. FreshIsCurrent'
  BY <1>2, <1>16 DEF FreshIsCurrent
<1>18. ASSUME NEW g \in Shared, files[g] # Absent PROVE TextKept(files[g], files'[g])
  <2>1. CASE g = f
    BY <1>3, <1>4, <1>18, <2>1
  <2>2. CASE files'[g] = files[g]
    BY <2>2, SameReflexive DEF TextKept
  <2>3. CASE f = "gate-reviewer" /\ g = "reviewer" /\ files[f] # Absent
    BY <1>7, <1>18, <2>3
  <2>. QED
    BY <1>4, <1>6, <2>1, <2>2, <2>3
<1>19. files'["gate-reviewer"] # files["gate-reviewer"] =>
         TextKept(files["gate-reviewer"], files'["reviewer"])
  BY <1>7, <1>8
<1>. QED
  BY <1>13, <1>15, <1>17, <1>18, <1>19 DEF TextInv, Kept1

LEMMA TextStep ==
  ASSUME ~OddInputs, TextInv, [HarnessNext]_harnessVars
  PROVE  TextInv' /\ (InstallFile => Kept1)
<1>1. InstallFile => TextInv' /\ Kept1
  BY TextInstall
<1>2. CASE \/ CommitByHand \/ EditProduct \/ RoleStarts \/ RoleStops \/ NotifyRole
           \/ StartEngineer \/ RunBootstrap \/ PromptArrives \/ OtherTurn
           \/ EngineerStops \/ StopBootstrap \/ EngineerExits \/ UNCHANGED harnessVars
  <2>1. UNCHANGED <<files, vcm, operation>>
    BY <1>2 DEF CommitByHand, EditProduct, RoleStarts, RoleStops, NotifyRole, StartEngineer,
         RunBootstrap, PromptArrives, OtherTurn, EngineerStops, StopBootstrap, EngineerExits, harnessVars
  <2>. QED
    BY <1>1, <2>1, TextRests
<1>3. CASE BeginApply
  <2>1. UNCHANGED <<files, vcm>>
    BY <1>3 DEF BeginApply
  <2>. QED
    BY <1>1, <1>3, <2>1, TextRests
<1>4. CASE InstallFails \/ BumpFails
  <2>1. UNCHANGED <<files, vcm>> /\ operation' = Idle
    BY <1>4 DEF InstallFails, BumpFails, GivesUp
  <2>. QED
    BY <1>1, <2>1, TextRests
<1>5. CASE Bump \/ CommitHarness
  <2>1. UNCHANGED <<files, vcm>>
    BY <1>5 DEF Bump, CommitHarness
  <2>. QED
    BY <1>1, <1>5, <2>1, TextRests
<1>6. CASE Upgrade
  BY <1>1, <1>6, TextUpgrade
<1>7. ASSUME NEW f \in Files, Edit(f) \/ EditInStudio(f) PROVE TextInv'
  BY <1>7, TextEdit
<1>8. CASE EngineerWorks
  BY <1>1, <1>8, TextEngineer
<1>9. TextInv'
  BY <1>1, <1>2, <1>3, <1>4, <1>5, <1>6, <1>7, <1>8 DEF HarnessNext
<1>. QED
  BY <1>1, <1>9

LEMMA TextInductive == ASSUME ~OddInputs PROVE HarnessSpec => []TextInv
<1>1. HarnessInit => TextInv
  BY TextInit
<1>2. TextInv /\ [HarnessNext]_harnessVars => TextInv'
  BY TextStep
<1>. QED
  BY <1>1, <1>2, PTL DEF HarnessSpec

(* Installing the Harness keeps every line of the project outside the      *)
(* managed block, every recorded memory and every hook, in their order,    *)
(* whatever the project, Harness Studio, the engineer and newer versions   *)
(* of VCM made of the files before (install-vcm-harness.ts).               *)
THEOREM ProjectTextStays == ASSUME ~OddInputs PROVE HarnessSpec => ProjectTextKept
<1>1. TextInv /\ [HarnessNext]_harnessVars => [InstallFile => Kept1]_harnessVars
  BY TextStep
<1>. QED
  BY <1>1, TextInductive, PTL DEF HarnessSpec, ProjectTextKept, Kept1

(* After an Apply that nobody's edit followed, the panel plans nothing and *)
(* a second run of the script would change nothing: what the service       *)
(* (harness-service.ts) and the script (install-vcm-harness.ts) make of a  *)
(* file is the same, and making it again makes no difference.              *)
THEOREM AppliedStaysCurrent == ASSUME ~OddInputs PROVE HarnessSpec => []AppliedIsCurrent
<1>1. ASSUME TextInv, Quiet, operation.fresh
      PROVE  ~StatusFails /\ Planned = {} /\ \A f \in Files : Installed(f, {}) = files
  <2>1. FilesFit /\ vcm.rules \in 1..2
    BY <1>1 DEF TextInv, FilesFit
  <2>2. ASSUME NEW f \in Files PROVE CurrentFile(f, files[f], vcm)
    <3>1. PICK i \in 1..Len(Order) : f = Order[i]
      BY DEF Files
    <3>2. operation.kind # "install"
      BY <1>1 DEF Quiet
    <3>3. CurrentFile(Order[i], files[Order[i]], vcm)
      BY <1>1, <3>2 DEF TextInv, FreshIsCurrent
    <3>. QED
      BY <3>1, <3>3
  <2>3. /\ Managed \subseteq Files /\ "settings" \in Files /\ "skill" \in Files /\ "glossary" \in Files
        /\ "codex" \in Files /\ "manifest" \in Files /\ "gate-reviewer" \in Files
        /\ "glossary" \in Seeded /\ Remembers \subseteq Managed
    BY FilesNamed DEF Seeded, Whole, Remembers, Managed
  <2>4. ASSUME NEW f \in Managed PROVE PlannedManaged(f, files[f], vcm.rules) = files[f]
    <3>. DEFINE c == files[f]  v == vcm.rules
    <3>1. Settled(f, c, v) /\ v \in 1..2
      BY <2>1, <2>2, <2>3 DEF CurrentFile
    <3>. HIDE DEF c, v
    <3>2. PlannedManaged(f, c, v) = c
      BY <3>1, SettledIsCurrent
    <3>. QED
      BY <3>2 DEF c, v
  <2>5. ASSUME NEW f \in Remembers PROVE ~MemoryMalformed(files[f].lines)
    BY <2>2, <2>3 DEF CurrentFile, Settled, Remembered
  <2>6. files["settings"] # Junk /\ MergeHooks(files["settings"], vcm.rules) = files["settings"]
    BY <2>2, <2>3 DEF CurrentFile
  <2>7. WholeFile("skill") = files["skill"]
    BY <2>2, <2>3 DEF CurrentFile, WholeFile
  <2>8. files["glossary"] # Absent /\ files["codex"] = Absent /\ IsManifest(files["manifest"])
    BY <2>2, <2>3 DEF CurrentFile
  <2>9. ~StatusFails
    BY <2>5, <2>6 DEF StatusFails
  <2>10. Planned = {}
    BY <2>4, <2>6, <2>7, <2>8 DEF Planned
  <2>11. ASSUME NEW f \in Files PROVE Installed(f, {}) = files
    <3>. DEFINE next == Installed(f, {})
    <3>1. /\ next = [g \in Files |-> next[g]] /\ next[f] = Installs(f, {})
          /\ \A g \in Files : \/ g = f \/ next[g] = files[g]
                              \/ f = "gate-reviewer" /\ g = "reviewer" /\ files[f] # Absent
      BY <2>1, InstalledEffect
    <3>2. Installs(f, {}) = files[f]
      BY <2>1, <2>2, CurrentStays
    <3>3. f = "gate-reviewer" => files[f] = Absent
      BY <2>2 DEF CurrentFile
    <3>4. files = [g \in Files |-> files[g]]
      BY <2>1 DEF FilesFit
    <3>. HIDE DEF next
    <3>5. next = files
      BY <3>1, <3>2, <3>3, <3>4
    <3>. QED
      BY <3>5 DEF next
  <2>. QED
    BY <2>9, <2>10, <2>11
<1>2. TextInv => AppliedIsCurrent
  BY <1>1 DEF AppliedIsCurrent
<1>. QED
  BY <1>2, TextInductive, PTL
=============================================================================
