---------------------------- MODULE WorkflowStore ----------------------------
(***************************************************************************)
(* What the two workflow files of a task promise together.  Workflow       *)
(* Progress (workflow-progress.md) and the runtime state                   *)
(* (workflow-control.json) behave as ONE record: a paired update changes   *)
(* both at once, and a save of the runtime state alone leaves the progress *)
(* document it belongs to in place.  WorkflowJournal implements this with  *)
(* two files and a write-ahead record.                                     *)
(***************************************************************************)
EXTENDS Naturals

CONSTANT MaxOps   \* bound on the number of updates

VARIABLES
  doc,   \* the paired update that wrote Workflow Progress (0: the template)
  rt     \* the runtime state: the paired update it belongs to, and its own
         \* number in the sequence of all updates
storeVars == <<doc, rt>>

Stamp == [commit : Nat, seq : Nat]

(* The stamp of a runtime state written by a paired update / saved alone. *)
PairedStamp(s) == [commit |-> s.seq + 1, seq |-> s.seq + 1]
SavedStamp(s)  == [s EXCEPT !.seq = @ + 1]

StoreInit == doc = 0 /\ rt = [commit |-> 0, seq |-> 0]

(* commitStateAndProgress, seen from outside. *)
UpdateBoth ==
  /\ rt.seq < MaxOps
  /\ rt' = PairedStamp(rt)
  /\ doc' = rt'.commit

(* saveState, seen from outside. *)
UpdateState ==
  /\ rt.seq < MaxOps
  /\ rt' = SavedStamp(rt)
  /\ UNCHANGED doc

StoreNext == UpdateBoth \/ UpdateState
StoreSpec == StoreInit /\ [][StoreNext]_storeVars
=============================================================================
