--------------------------- MODULE WorkflowJournal ---------------------------
(***************************************************************************)
(* The write-ahead commit of workflow-control-service: the transaction     *)
(* record is written, then Workflow Progress, then the runtime state, then *)
(* the record is marked committed and removed.  Every read of the state    *)
(* first replays a record it finds.  One step is one file-system call.     *)
(*                                                                         *)
(* Op stands for whichever request holds the task's workflow lock          *)
(* (withLock); Readers are calls of getState made without that lock.  A    *)
(* crash drops every request and keeps the files.                          *)
(***************************************************************************)
EXTENDS Naturals

CONSTANTS
  Op,        \* the request that holds the workflow lock
  Readers,   \* the calls of getState without the lock
  MaxOps,    \* bound on the number of updates
  Faults     \* whether calls may fail and the backend may crash

ASSUME OpAssumption == Op \notin Readers
ASSUME MaxOpsAssumption == MaxOps \in Nat
ASSUME FaultsAssumption == Faults \in BOOLEAN

VARIABLES
  progress,   \* workflow-progress.md: the paired update that wrote it
  wstate,     \* workflow-control.json: its stamp
  journal,    \* workflow-control-transaction.json
  phase,      \* the next file-system call of every request
  copy        \* the transaction record a request holds in memory
journalVars == <<progress, wstate, journal, phase, copy>>

(* The record a reader of the workflow is entitled to: a pending journal   *)
(* stands for the pair it announces, since every read replays it first.    *)
VisibleDoc == IF journal.status = "pending" THEN journal.progress ELSE progress
VisibleRt  == IF journal.status = "pending" THEN journal.wstate ELSE wstate

Store == INSTANCE WorkflowStore WITH doc <- VisibleDoc, rt <- VisibleRt

Procs == {Op} \cup Readers

NoStamp  == [commit |-> 0, seq |-> 0]
Record   == [status : {"pending", "committed"}, progress : Nat, wstate : Store!Stamp]
NoRecord == [status |-> "none", progress |-> 0, wstate |-> NoStamp]
ReplayPhases == {"look", "load", "replayProgress", "replayState", "replayMark", "replayRemove"}
CommitPhases == {"read", "begin", "progress", "state", "mark", "remove"}
Phases       == {"idle"} \cup ReplayPhases \cup CommitPhases

JournalInit ==
  /\ progress = 0
  /\ wstate = NoStamp
  /\ journal = NoRecord
  /\ phase = [p \in Procs |-> "idle"]
  /\ copy = [p \in Procs |-> NoRecord]

Goto(p, ph) == phase' = [phase EXCEPT ![p] = ph]

(* Where a request goes when the journal is dealt with: the lock holder on *)
(* to its own update, a reader away with what it read.                     *)
AfterReplay(p) == IF p = Op THEN "read" ELSE "idle"

(* The journal marked: the next reader only removes it. *)
Committed(j) == [j EXCEPT !.status = "committed"]
-----------------------------------------------------------------------------
(* recoverCommitJournal, run at the start of every getState. *)

Call(p) ==
  /\ phase[p] = "idle"
  /\ Goto(p, "look")
  /\ UNCHANGED <<progress, wstate, journal, copy>>

Look(p) ==
  /\ phase[p] = "look"
  /\ Goto(p, IF journal = NoRecord THEN AfterReplay(p) ELSE "load")
  /\ UNCHANGED <<progress, wstate, journal, copy>>

(* The record may be gone by the time it is read: readJson throws, getState *)
(* answers with a warning and the request ends.                             *)
Load(p) ==
  /\ phase[p] = "load"
  /\ copy' = [copy EXCEPT ![p] = journal]
  /\ Goto(p, CASE journal.status = "none"      -> "idle"
               [] journal.status = "pending"   -> "replayProgress"
               [] journal.status = "committed" -> "replayRemove")
  /\ UNCHANGED <<progress, wstate, journal>>

ReplayProgress(p) ==
  /\ phase[p] = "replayProgress"
  /\ progress' = copy[p].progress
  /\ Goto(p, "replayState")
  /\ UNCHANGED <<wstate, journal, copy>>

(* mutant of ReplayState: the replay forgets the second file *)
ReplayStateSkipped(p) ==
  /\ phase[p] = "replayState"
  /\ Goto(p, "replayMark")
  /\ UNCHANGED <<progress, wstate, journal, copy>>

ReplayState(p) ==
  /\ phase[p] = "replayState"
  /\ wstate' = copy[p].wstate
  /\ Goto(p, "replayMark")
  /\ UNCHANGED <<progress, journal, copy>>

ReplayMark(p) ==
  /\ phase[p] = "replayMark"
  /\ journal' = Committed(copy[p])
  /\ Goto(p, "replayRemove")
  /\ UNCHANGED <<progress, wstate, copy>>

(* removeTransactionJournal swallows a failed removal. *)
ReplayRemove(p) ==
  /\ phase[p] = "replayRemove"
  /\ journal' \in {NoRecord, journal}
  /\ Goto(p, AfterReplay(p))
  /\ UNCHANGED <<progress, wstate, copy>>

Replay(p) == \/ Call(p) \/ Look(p) \/ Load(p) \/ ReplayProgress(p)
             \/ ReplayState(p) \/ ReplayMark(p) \/ ReplayRemove(p)
-----------------------------------------------------------------------------
(* The lock holder's own update: a paired commit or a save of the state. *)

(* The rest of getState: both files are read, and the update is computed   *)
(* from what was read.                                                     *)
ReadFiles ==
  /\ phase[Op] = "read"
  /\ copy' = [copy EXCEPT ![Op] = [NoRecord EXCEPT !.progress = progress, !.wstate = wstate]]
  /\ Goto(Op, "begin")
  /\ UNCHANGED <<progress, wstate, journal>>

WriteJournal ==
  /\ phase[Op] = "begin"
  /\ copy[Op].wstate.seq < MaxOps
  /\ LET next == Store!PairedStamp(copy[Op].wstate)
         rec  == [status |-> "pending", progress |-> next.commit, wstate |-> next]
     IN  /\ journal' = rec
         /\ copy' = [copy EXCEPT ![Op] = rec]
  /\ Goto(Op, "progress")
  /\ UNCHANGED <<progress, wstate>>

WriteProgress ==
  /\ phase[Op] = "progress"
  /\ progress' = copy[Op].progress
  /\ Goto(Op, "state")
  /\ UNCHANGED <<wstate, journal, copy>>

WriteState ==
  /\ phase[Op] = "state"
  /\ wstate' = copy[Op].wstate
  /\ Goto(Op, "mark")
  /\ UNCHANGED <<progress, journal, copy>>

MarkCommitted ==
  /\ phase[Op] = "mark"
  /\ journal' = Committed(copy[Op])
  /\ Goto(Op, "remove")
  /\ UNCHANGED <<progress, wstate, copy>>

RemoveJournal ==
  /\ phase[Op] = "remove"
  /\ journal' \in {NoRecord, journal}
  /\ Goto(Op, "idle")
  /\ UNCHANGED <<progress, wstate, copy>>

(* claimDispatch, releaseDispatch, resolveUserInput...: no transaction record. *)
SaveAlone ==
  /\ phase[Op] = "begin"
  /\ copy[Op].wstate.seq < MaxOps
  /\ wstate' = Store!SavedStamp(copy[Op].wstate)
  /\ Goto(Op, "idle")
  /\ UNCHANGED <<progress, journal, copy>>

(* Any call may throw: the request ends, the lock is released, and what    *)
(* was written stays.  A request that refuses to update ends the same way, *)
(* before it has written anything.                                         *)
GiveUp(p) ==
  /\ phase[p] # "idle"
  /\ Faults \/ phase[p] = "begin"
  /\ Goto(p, "idle")
  /\ UNCHANGED <<progress, wstate, journal, copy>>

Crash ==
  /\ Faults
  /\ phase' = [p \in Procs |-> "idle"]
  /\ copy' = [p \in Procs |-> NoRecord]
  /\ UNCHANGED <<progress, wstate, journal>>

Commit == ReadFiles \/ WriteJournal \/ WriteProgress \/ WriteState \/ MarkCommitted \/ RemoveJournal

JournalNext ==
  \/ \E p \in Procs : Replay(p) \/ GiveUp(p)
  \/ Commit \/ SaveAlone
  \/ Crash

JournalSpec == JournalInit /\ [][JournalNext]_journalVars
-----------------------------------------------------------------------------
TypeOK ==
  /\ progress \in Nat
  /\ wstate \in Store!Stamp
  /\ journal \in Record \cup {NoRecord}
  /\ phase \in [Procs -> Phases]
  /\ copy \in [Procs -> [status : {"none", "pending", "committed"}, progress : Nat, wstate : Store!Stamp]]

(* The pair a read would return is never torn: whatever call failed or     *)
(* crashed last, Workflow Progress and the runtime state come from the     *)
(* same paired update (workflow-control-service 675-711).                  *)
PairNeverTorn == VisibleDoc = VisibleRt.commit

(* "The next state read replays an interrupted commit before exposing      *)
(* either file": once the lock holder is past the replay, the two FILES    *)
(* agree and no interrupted commit is left behind.                         *)
ReplayedBeforeUse == phase[Op] = "begin" => progress = wstate.commit /\ journal.status # "pending"

(* At rest - no request under way - the two files are one paired update    *)
(* or a pending journal can still make them so.  Checked with unlocked     *)
(* readers, where the replay of one request meets the commit of another.   *)
SettledPairConsistent == (\A p \in Procs : phase[p] = "idle") => PairNeverTorn

(* The two files with their journal implement the single record. *)
ImplementsStore == Store!StoreSpec
=============================================================================
