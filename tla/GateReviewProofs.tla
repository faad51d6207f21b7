--------------------------- MODULE GateReviewProofs ---------------------------
(***************************************************************************)
(* Proofs about GateReview, for any number of requests, commits, edits,    *)
(* settings changes, reconnects and crashes.                               *)
(***************************************************************************)
EXTENDS GateReview, TLAPS

LiveSteps == {"spawned", "started", "waiting", "settling", "failing"}

(* A running record belongs to an issued request of that gate, is the      *)
(* active gate, and its run is alive while the backend is.                 *)
Owned ==
  \A g \in Gates : gate[g].status = "running" =>
    /\ gate[g].request \in 1..issued /\ run[gate[g].request].gate = g /\ active = g
    /\ up => run[gate[g].request].aborted \/ run[gate[g].request].step \in LiveSteps

(* Requests not yet issued have left no trace. *)
Fresh == \A r \in Requests : r > issued =>
           run[r].step = "none" /\ report[r] = "none" /\ r \notin reviewing

(* A run captured settings that require its gate, and settles on a report. *)
Captured == \A r \in Requests : run[r].step \notin {"none", "ended"} =>
              /\ run[r].gate \in run[r].config
              /\ run[r].step = "settling" => report[r] \in {"approve", "request_changes"}

GInv == TypeOK /\ Owned /\ Fresh /\ Captured /\ AcceptanceIsEarned

LEMMA BlankIsRecord == Blank \in Record /\ NoHash \in Hash
<1>1. NoHash \in Hash
  BY BoundsAssumption DEF NoHash, Hash
<1>. QED
  BY <1>1, BoundsAssumption DEF Blank, Record, Statuses, MaybeCommit, NoCommit

LEMMA LoadedIsTyped ==
  ASSUME TypeOK, NEW config \in SUBSET Gates
  PROVE  /\ Loaded(config) \in [Gates -> Record]
         /\ LoadedActive(config) \in Gates \cup {NoGate}
<1>1. ASSUME NEW g \in Gates PROVE [gate[g] EXCEPT !.status = NormalStatus(config, g)] \in Record
  <2>1. gate[g] \in Record /\ NormalStatus(config, g) \in Statuses
    BY <1>1 DEF TypeOK, NormalStatus, Record, Statuses
  <2>. QED
    BY <2>1 DEF Record
<1>. QED
  BY <1>1 DEF Loaded, LoadedActive, TypeOK

(* What a reload may change: a status that is running or completed is kept *)
(* or lost, never invented, and nothing else is touched.                   *)
LEMMA LoadedOnlyLoses ==
  ASSUME TypeOK, NEW config \in SUBSET Gates, NEW g \in Gates
  PROVE  LET record == Loaded(config)[g] IN
         /\ record.request = gate[g].request /\ record.decision = gate[g].decision
         /\ record.status \in {"running", "completed"} => record.status = gate[g].status
         /\ g \in config /\ gate[g].status # "disabled" => record.status = gate[g].status
<1>1. gate[g] \in Record
  BY DEF TypeOK
<1>. QED
  BY <1>1 DEF Loaded, NormalStatus, Record

(* Saving a record keeps the index typed; the other records only lose.     *)
LEMMA SaveKeeps ==
  ASSUME TypeOK, Owned, NEW config \in SUBSET Gates, NEW g \in Gates, NEW record \in Record,
         Save(config, g, record),
         record.status = "running" => LoadedActive(config) \in {g, NoGate}
  PROVE  /\ gate' \in [Gates -> Record] /\ active' \in Gates \cup {NoGate}
         /\ gate'[g] = record
         /\ \A h \in Gates \ {g} : gate'[h] = Loaded(config)[h]
         /\ \A h \in Gates : gate'[h].status = "running" => active' = h
<1>1. Loaded(config) \in [Gates -> Record] /\ LoadedActive(config) \in Gates \cup {NoGate}
  BY LoadedIsTyped
<1>2. /\ gate' \in [Gates -> Record] /\ active' \in Gates \cup {NoGate} /\ gate'[g] = record
      /\ \A h \in Gates \ {g} : gate'[h] = Loaded(config)[h]
  BY <1>1 DEF Save
<1>3. ASSUME NEW h \in Gates, gate'[h].status = "running" PROVE active' = h
  <2>1. CASE h = g
    BY <1>2, <1>3, <2>1 DEF Save
  <2>2. CASE h # g
    <3>1. Loaded(config)[h].status = "running"
      BY <1>2, <1>3, <2>2
    <3>2. active = h
      BY <3>1, LoadedOnlyLoses DEF Owned
    <3>3. LoadedActive(config) = h
      BY <3>1, <3>2 DEF LoadedActive, Gates, NoGate, Plan, Validation, Diff
    <3>. QED
      BY <1>2, <2>2, <3>3 DEF Save, Gates, NoGate, Plan, Validation, Diff
  <2>. QED
    BY <2>1, <2>2
<1>. QED
  BY <1>2, <1>3

LEMMA InputsAreTyped ==
  ASSUME TypeOK, NEW g \in Gates, NEW record \in Record
  PROVE  /\ DiffBase(record) \in MaybeCommit /\ DiffCommits(record) \in SUBSET Commits
         /\ \A commits \in SUBSET Commits : InputHash(g, commits) \in Hash
<1>1. DiffBase(record) \in MaybeCommit
  BY BoundsAssumption DEF DiffBase, Record, MaybeCommit, NoCommit
<1>2. DiffCommits(record) \in SUBSET Commits
  BY DEF DiffCommits
<1>3. ASSUME NEW commits \in SUBSET Commits PROVE InputHash(g, commits) \in Hash
  <2>1. /\ evidence[Diff] \in 0..MaxEdits /\ evidence[Validation] \in 0..MaxEdits
        /\ latest[Validation] \in 0..MaxRequests /\ head \in 0..MaxCommits
        /\ evidence[g] \in 0..MaxEdits
    BY DEF TypeOK, Gates, Plan, Validation, Diff
  <2>2. CASE g = Diff
    BY <2>1, <2>2, BoundsAssumption DEF InputHash, Hash
  <2>3. CASE g # Diff
    <3>1. InputHash(g, commits) = [commits |-> {}, head |-> head, evidence |-> evidence[g],
                                   tested |-> 0, prior |-> 0]
      BY <2>3 DEF InputHash, NoHash
    <3>. QED
      BY <2>1, <3>1, BoundsAssumption DEF Hash
  <2>. QED
    BY <2>2, <2>3
<1>. QED
  BY <1>1, <1>2, <1>3

(* The index never starts to show a running request by itself.             *)
IndexLoses == \A h \in Gates : gate'[h].status = "running" =>
                /\ gate[h].status = "running" /\ gate'[h].request = gate[h].request
                /\ active' = h

LEMMA SaveLoses ==
  ASSUME TypeOK, Owned, NEW config \in SUBSET Gates, NEW g \in Gates, NEW record \in Record,
         Save(config, g, record),
         record.status = "running" => Loaded(config)[g].status = "running"
                                      /\ record.request = Loaded(config)[g].request
  PROVE  IndexLoses
<1>1. record.status = "running" => LoadedActive(config) \in {g, NoGate}
  BY LoadedOnlyLoses DEF Owned, LoadedActive
<1>2. /\ gate'[g] = record
      /\ \A h \in Gates \ {g} : gate'[h] = Loaded(config)[h]
      /\ \A h \in Gates : gate'[h].status = "running" => active' = h
  BY <1>1, SaveKeeps
<1>. QED
  BY <1>2, LoadedOnlyLoses DEF IndexLoses

LEMMA OwnedKept ==
  ASSUME Owned, TypeOK, IndexLoses, issued' = issued, up' => up,
         \A r \in 1..issued :
           /\ run'[r].gate = run[r].gate
           /\ \/ run'[r].aborted \/ run'[r].step \in LiveSteps
              \/ run[r].step \notin LiveSteps /\ ~run[r].aborted
              \/ \A h \in Gates : gate'[h].status = "running" => gate'[h].request # r
              \/ ~up'
  PROVE  Owned'
BY DEF Owned, IndexLoses

(* What a saved record leaves of the index. *)
LEMMA Saved ==
  ASSUME GInv, NEW config \in SUBSET Gates, NEW g \in Gates, NEW record \in Record,
         Save(config, g, record),
         record.status = "running" => Loaded(config)[g].status = "running"
                                      /\ record.request = Loaded(config)[g].request
  PROVE  /\ gate' \in [Gates -> Record] /\ active' \in Gates \cup {NoGate}
         /\ gate'[g] = record
         /\ \A h \in Gates \ {g} : gate'[h] = Loaded(config)[h]
         /\ IndexLoses
<1>1. record.status = "running" => LoadedActive(config) \in {g, NoGate}
  BY LoadedOnlyLoses DEF GInv, Owned, LoadedActive
<1>. QED
  BY <1>1, SaveKeeps, SaveLoses DEF GInv

(* A completed gate gains nothing, and its stable report stays.            *)
OnlyWithdraws ==
  /\ UNCHANGED <<issued, report, latest>>
  /\ IndexLoses
  /\ \A h \in Gates : gate'[h].status = "completed" => gate[h].status = "completed"

LEMMA SaveWithdraws ==
  ASSUME GInv, NEW config \in SUBSET Gates, NEW g \in Gates, NEW record \in Record,
         Save(config, g, record), UNCHANGED <<issued, report, latest>>,
         record.status = "running" => Loaded(config)[g].status = "running"
                                      /\ record.request = Loaded(config)[g].request,
         record.status = "completed" => Loaded(config)[g].status = "completed"
  PROVE  OnlyWithdraws
<1>1. gate'[g] = record /\ IndexLoses /\ \A h \in Gates \ {g} : gate'[h] = Loaded(config)[h]
  BY Saved
<1>2. ASSUME NEW h \in Gates, gate'[h].status = "completed" PROVE gate[h].status = "completed"
  <2>1. Loaded(config)[h].status = "completed"
    BY <1>1, <1>2
  <2>. QED
    BY <2>1, LoadedOnlyLoses DEF GInv
<1>. QED
  BY <1>1, <1>2 DEF OnlyWithdraws

LEMMA IndexStays ==
  ASSUME GInv, UNCHANGED <<indexVars, issued, report, latest>> PROVE OnlyWithdraws
BY DEF OnlyWithdraws, IndexLoses, indexVars, GInv, Owned

(* A record other than a running one is saved, and nothing else happens    *)
(* but what the Architect restart is told.                                 *)
LEMMA SettledRecord ==
  ASSUME GInv, NEW config \in SUBSET Gates, NEW g \in Gates, NEW record \in Record,
         Save(config, g, record), record.status \notin {"running", "completed"},
         Answered, UNCHANGED disposition \/ Notify(g, TRUE)
  PROVE  GInv' /\ OnlyWithdraws
<1>. USE DEF Answered, Notify
<1>1. /\ gate' \in [Gates -> Record] /\ active' \in Gates \cup {NoGate} /\ gate'[g] = record
      /\ \A h \in Gates \ {g} : gate'[h] = Loaded(config)[h]
  BY SaveKeeps DEF GInv
<1>2. IndexLoses
  BY SaveLoses DEF GInv
<1>3. TypeOK'
  BY <1>1 DEF GInv, TypeOK, runVars, worldVars, limitVars
<1>4. Owned'
  BY <1>2 DEF GInv, runVars, Owned, IndexLoses
<1>5. Fresh' /\ Captured'
  BY DEF GInv, Fresh, Captured, runVars
<1>6. AcceptanceIsEarned'
  <2>1. Plan \in Gates
    BY DEF Gates
  <2>2. CASE g = Plan
    BY <1>1, <2>1, <2>2 DEF AcceptanceIsEarned, Decided
  <2>3. CASE g # Plan
    <3>1. disposition' = disposition /\ gate'[Plan] = Loaded(config)[Plan]
      BY <1>1, <2>1, <2>3
    <3>. QED
      BY <3>1, <2>1, LoadedOnlyLoses DEF GInv, AcceptanceIsEarned, Decided
  <2>. QED
    BY <2>2, <2>3
<1>7. OnlyWithdraws
  BY SaveWithdraws DEF runVars
<1>. QED
  BY <1>3, <1>4, <1>5, <1>6, <1>7 DEF GInv
-----------------------------------------------------------------------------
LEMMA RequiredIsTyped == GInv => /\ required \in SUBSET Gates /\ Loaded(required) \in [Gates -> Record]
                                 /\ \A r \in Requests : run[r] \in Run /\ run[r].config \in SUBSET Gates
BY LoadedIsTyped DEF GInv, TypeOK, Run

LEMMA RequestEnds ==
  ASSUME GInv, NEW g \in Gates, NEW status \in {"failed", "not_required"},
         NEW base \in MaybeCommit, NEW last \in MaybeCommit, EndsWith(g, status, base, last)
  PROVE  GInv' /\ OnlyWithdraws
<1>1. [Blank EXCEPT !.status = status, !.base = base, !.head = last] \in Record
  BY BlankIsRecord DEF Record, Statuses
<1>. DEFINE rec == [Blank EXCEPT !.status = status, !.base = base, !.head = last]
<1>2. rec.status = status
  BY DEF Blank
<1>3. Save(required, g, rec)
  BY DEF EndsWith
<1>4. rec \in Record
  BY <1>1
<1>. HIDE DEF rec
<1>5. rec.status \notin {"running", "completed"}
  BY <1>2
<1>6. Answered /\ UNCHANGED disposition
  BY DEF EndsWith
<1>. QED
  BY <1>3, <1>4, <1>5, <1>6, SettledRecord, RequiredIsTyped

LEMMA RequestsKeep ==
  ASSUME GInv, NEW g \in Gates,
         \/ RequestExempt(g) \/ RequestUnready(g) \/ RequestWithoutInput(g)
         \/ RequestAlreadyApproved(g) \/ RequestWithoutCommits \/ RequestUntested
  PROVE  GInv' /\ OnlyWithdraws
<1>. USE RequiredIsTyped
<1>0. NoCommit \in MaybeCommit /\ head \in MaybeCommit /\ Diff \in Gates
  BY BoundsAssumption DEF NoCommit, MaybeCommit, GInv, TypeOK, Gates
<1>1. CASE RequestExempt(g)
  <2>. DEFINE rec == [Loaded(required)[g] EXCEPT !.decision = "none"]
  <2>1. rec \in Record /\ rec.status = NormalStatus(required, g) /\ g \notin required
    <3>1. Loaded(required)[g] \in Record /\ gate[g] \in Record
      BY DEF GInv, TypeOK
    <3>. QED
      BY <1>1, <3>1 DEF Record, Loaded, RequestExempt
  <2>2. rec.status \in {"disabled", "not_required"}
    BY <2>1 DEF NormalStatus
  <2>3. Save(required, g, rec) /\ Answered /\ Notify(g, TRUE)
    BY <1>1 DEF RequestExempt
  <2>. HIDE DEF rec
  <2>. QED
    BY <2>1, <2>2, <2>3, SettledRecord
<1>2. CASE RequestUnready(g)
  BY <1>0, <1>2, RequestEnds DEF RequestUnready
<1>3. CASE RequestWithoutInput(g)
  BY <1>0, <1>3, RequestEnds DEF RequestWithoutInput
<1>4. CASE RequestAlreadyApproved(g)
  <2>1. TypeOK' /\ Owned' /\ Fresh' /\ Captured'
    BY <1>4 DEF RequestAlreadyApproved, Answered, Notify, GInv, TypeOK, Owned, Fresh, Captured,
                indexVars, runVars, worldVars, limitVars
  <2>2. AcceptanceIsEarned'
    <3>1. CASE g = Plan
      <4>1. Loaded(required)[Plan].status = "completed" /\ Loaded(required)[Plan].decision = "approve"
        BY <1>4, <3>1 DEF RequestAlreadyApproved, AlreadyApproved, Decided
      <4>2. gate[Plan].status = "completed" /\ gate[Plan].decision = "approve"
        BY <4>1, <3>1, LoadedOnlyLoses DEF GInv
      <4>. QED
        BY <1>4, <4>2 DEF AcceptanceIsEarned, Decided, RequestAlreadyApproved, indexVars
    <3>2. CASE g # Plan
      BY <1>4, <3>2 DEF RequestAlreadyApproved, Notify, indexVars, GInv, AcceptanceIsEarned
    <3>. QED
      BY <3>1, <3>2
  <2>3. OnlyWithdraws
    BY <1>4, IndexStays DEF RequestAlreadyApproved, Answered, runVars
  <2>. QED
    BY <2>1, <2>2, <2>3 DEF GInv
<1>5. CASE RequestWithoutCommits
  <2>. DEFINE base == DiffBase(Loaded(required)[Diff])
  <2>1. base \in MaybeCommit
    BY <1>0, InputsAreTyped DEF GInv
  <2>2. EndsWith(Diff, "not_required", NoCommit, NoCommit) \/ EndsWith(Diff, "not_required", base, head)
    BY <1>5 DEF RequestWithoutCommits
  <2>. HIDE DEF base
  <2>. QED
    BY <1>0, <2>1, <2>2, RequestEnds
<1>6. CASE RequestUntested
  <2>. DEFINE base == DiffBase(Loaded(required)[Diff])
  <2>1. base \in MaybeCommit
    BY <1>0, InputsAreTyped DEF GInv
  <2>2. EndsWith(Diff, "failed", base, head)
    BY <1>6 DEF RequestUntested
  <2>. HIDE DEF base
  <2>. QED
    BY <1>0, <2>1, <2>2, RequestEnds
<1>. QED
  BY <1>1, <1>2, <1>3, <1>4, <1>5, <1>6

LEMMA ExceptKeeps == ASSUME GInv, NEW g \in Gates, Except(g) PROVE GInv' /\ OnlyWithdraws
<1>1. PICK status \in {"skipped", "overridden"} :
        Save(required, g, [Loaded(required)[g] EXCEPT
              !.status = status, !.callback = "called",
              !.decision = IF status = "overridden" THEN "approve" ELSE "none",
              !.hash = IF g = Diff THEN @ ELSE InputHash(g, {})])
  BY ChoicesAssumption DEF Except
<1>. DEFINE rec == [Loaded(required)[g] EXCEPT
              !.status = status, !.callback = "called",
              !.decision = IF status = "overridden" THEN "approve" ELSE "none",
              !.hash = IF g = Diff THEN @ ELSE InputHash(g, {})]
<1>2. Loaded(required)[g] \in Record
  BY RequiredIsTyped
<1>3. InputHash(g, {}) \in Hash
  BY <1>2, InputsAreTyped DEF GInv
<1>4. rec \in Record /\ rec.status = status
  BY <1>2, <1>3 DEF Record, Statuses
<1>5. Save(required, g, rec)
  BY <1>1
<1>6. Answered /\ Notify(g, TRUE)
  BY DEF Except
<1>. HIDE DEF rec
<1>. QED
  BY <1>4, <1>5, <1>6, SettledRecord, RequiredIsTyped

LEMMA StartedRecord ==
  ASSUME NEW q \in 0..MaxRequests, NEW hash \in Hash, NEW base \in MaybeCommit, NEW last \in MaybeCommit
  PROVE  [Blank EXCEPT !.status = "running", !.request = q, !.hash = hash, !.base = base,
                       !.head = last] \in Record
BY BlankIsRecord DEF Record, Statuses

(* What the start of a review does to the index. *)
Opens(g) ==
  /\ issued < MaxRequests /\ issued' = issued + 1 /\ UNCHANGED <<report, latest>>
  /\ gate[g].status # "running"
  /\ gate'[g].status = "running" /\ gate'[g].request = issued + 1
  /\ \A h \in Gates \ {g} :
       /\ gate'[h].status # "running"
       /\ gate'[h].status = "completed" => gate[h].status = "completed"

LEMMA ReviewKeeps == ASSUME GInv, NEW g \in Gates, NEW force \in BOOLEAN, RequestReview(g, force)
                     PROVE  GInv' /\ Opens(g)
<1>. USE RequiredIsTyped
<1>. DEFINE old     == Loaded(required)[g]
            commits == IF g = Diff THEN DiffCommits(old) ELSE {}
            base    == IF g = Diff THEN DiffBase(old) ELSE NoCommit
            last    == IF g = Diff THEN head ELSE NoCommit
            rec     == [Blank EXCEPT !.status = "running", !.request = issued + 1,
                              !.hash = InputHash(g, commits), !.base = base, !.head = last]
            new     == [step |-> "spawned", gate |-> g, config |-> required,
                        commits |-> commits, aborted |-> FALSE]
<1>1. Save(required, g, rec) /\ run' = [run EXCEPT ![issued + 1] = new] /\ issued' = issued + 1
  BY DEF RequestReview
<1>2. issued + 1 \in Requests /\ issued \in 0..MaxRequests /\ g \in required
      /\ LoadedActive(required) \in {g, NoGate}
  BY BoundsAssumption DEF RequestReview, Reviewable, Requestable, GInv, TypeOK, Requests
<1>3. commits \in SUBSET Commits /\ base \in MaybeCommit /\ last \in MaybeCommit
      /\ InputHash(g, commits) \in Hash
  BY InputsAreTyped, BoundsAssumption DEF GInv, TypeOK, MaybeCommit, NoCommit
<1>4. rec \in Record /\ rec.status = "running" /\ rec.request = issued + 1
  <2>1. /\ rec.status = "running" /\ rec.decision = "none" /\ rec.request = issued + 1
        /\ rec.callback = "not_sent"
    BY DEF Blank
  <2>2. issued + 1 \in 0..MaxRequests
    BY <1>2, BoundsAssumption DEF Requests
  <2>. HIDE DEF commits, base, last
  <2>3. rec \in Record
    BY <1>3, <2>2, StartedRecord
  <2>. QED
    BY <2>1, <2>3
<1>5. new \in Run /\ new.gate = g /\ new.config = required /\ new.step = "spawned"
  BY <1>3 DEF Run, Steps
<1>. HIDE DEF rec, new
<1>6. /\ gate' \in [Gates -> Record] /\ active' \in Gates \cup {NoGate} /\ gate'[g] = rec
      /\ \A h \in Gates : gate'[h].status = "running" => active' = h
      /\ \A h \in Gates \ {g} : gate'[h] = Loaded(required)[h]
  BY <1>1, <1>2, <1>4, SaveKeeps DEF GInv
<1>7. active' = g /\ \A h \in Gates : gate'[h].status = "running" => h = g
  BY <1>4, <1>6
<1>8. TypeOK'
  <2>1. run' \in [Requests -> Run]
    BY <1>1, <1>5, <1>2 DEF GInv, TypeOK
  <2>2. issued' \in 0..MaxRequests
    BY <1>1, <1>2, BoundsAssumption DEF RequestReview, GInv, TypeOK
  <2>3. disposition' \in {"none", "accepted", "rejected"}
    BY DEF RequestReview, Notify, GInv, TypeOK
  <2>4. file' \in [Requests -> {"none", "requested", "running", "completed", "failed",
                                 "cancelled", "stale_completion"}]
    BY <1>2 DEF RequestReview, GInv, TypeOK
  <2>. QED
    BY <1>6, <2>1, <2>2, <2>3, <2>4 DEF RequestReview, GInv, TypeOK, worldVars, limitVars
<1>9. Owned'
  <2>1. run'[issued + 1] = new
    BY <1>1, <1>2 DEF GInv, TypeOK
  <2>2. issued + 1 \in 1..issued'
    BY <1>1, <1>2, BoundsAssumption
  <2>. QED
    BY <1>4, <1>5, <1>6, <1>7, <2>1, <2>2 DEF Owned, LiveSteps
<1>10. Fresh' /\ Captured'
  <2>1. \A r \in Requests : run'[r] = IF r = issued + 1 THEN new ELSE run[r]
    BY <1>1 DEF GInv, TypeOK
  <2>2. \A r \in Requests : r > issued' => r > issued /\ r # issued + 1
    BY <1>1, <1>2, BoundsAssumption DEF Requests
  <2>3. Fresh'
    BY <2>1, <2>2 DEF RequestReview, GInv, Fresh
  <2>4. Captured'
    BY <1>2, <1>5, <2>1 DEF RequestReview, GInv, Captured
  <2>. QED
    BY <2>3, <2>4
<1>11. AcceptanceIsEarned'
  <2>1. Plan \in Gates
    BY DEF Gates
  <2>2. CASE g = Plan
    BY <2>2 DEF RequestReview, Notify, AcceptanceIsEarned
  <2>3. CASE g # Plan
    <3>1. disposition' = disposition /\ gate'[Plan] = Loaded(required)[Plan]
      BY <1>6, <2>1, <2>3 DEF RequestReview, Notify
    <3>. QED
      BY <3>1, <2>1, LoadedOnlyLoses DEF GInv, AcceptanceIsEarned, Decided
  <2>. QED
    BY <2>2, <2>3
<1>12. Opens(g)
  <2>1. gate[g].status # "running"
    <3>1. Loaded(required)[g].status # "running"
      BY DEF RequestReview, Reviewable, Requestable
    <3>2. gate[g].status # "disabled" => Loaded(required)[g].status = gate[g].status
      BY <1>2, LoadedOnlyLoses DEF GInv, TypeOK
    <3>. QED
      BY <3>1, <3>2
  <2>2. \A h \in Gates \ {g} : gate'[h].status = "completed" => gate[h].status = "completed"
    BY <1>6, LoadedOnlyLoses DEF GInv, TypeOK
  <2>3. issued < MaxRequests /\ UNCHANGED <<report, latest>>
    BY DEF RequestReview
  <2>. QED
    BY <1>1, <1>4, <1>6, <1>7, <2>1, <2>2, <2>3 DEF Opens
<1>. QED
  BY <1>8, <1>9, <1>10, <1>11, <1>12 DEF GInv
-----------------------------------------------------------------------------
(* The acceptance of the plan under a save of a record of gate g.          *)
LEMMA SavedAcceptance ==
  ASSUME GInv, NEW config \in SUBSET Gates, NEW g \in Gates, NEW record \in Record,
         gate'[g] = record, \A h \in Gates \ {g} : gate'[h] = Loaded(config)[h],
         \/ Notify(g, FALSE)
         \/ Notify(g, TRUE) /\ record.status # "running" /\ ~Decided(record, "request_changes")
         \/ /\ UNCHANGED disposition
            /\ \/ record.status \notin {"running", "completed"}
               \/ record.status = Loaded(config)[g].status /\ record.decision = Loaded(config)[g].decision
  PROVE  AcceptanceIsEarned'
<1>1. Plan \in Gates
  BY DEF Gates
<1>2. CASE g = Plan
  <2>1. gate'[Plan] = record
    BY <1>2
  <2>2. CASE Notify(g, FALSE)
    BY <1>2, <2>2 DEF Notify, AcceptanceIsEarned
  <2>3. CASE ~Notify(g, FALSE) /\ record.status \notin {"running"} /\ ~Decided(record, "request_changes")
    BY <2>1, <2>3 DEF AcceptanceIsEarned, Decided
  <2>4. CASE /\ UNCHANGED disposition
             /\ record.status = Loaded(config)[g].status /\ record.decision = Loaded(config)[g].decision
    BY <1>2, <2>1, <2>4, LoadedOnlyLoses DEF GInv, AcceptanceIsEarned, Decided
  <2>. QED
    BY <2>2, <2>3, <2>4 DEF Decided
<1>3. CASE g # Plan
  <2>1. disposition' = disposition /\ gate'[Plan] = Loaded(config)[Plan]
    BY <1>1, <1>3 DEF Notify
  <2>. QED
    BY <1>1, <2>1, LoadedOnlyLoses DEF GInv, AcceptanceIsEarned, Decided
<1>. QED
  BY <1>2, <1>3

(* A request whose result is not current is not shown by any gate.         *)
LEMMA NotCurrent ==
  ASSUME GInv, NEW r \in Requests, run[r].step \notin {"none", "ended"}, ~IsCurrent(r)
  PROVE  \A h \in Gates : gate[h].status = "running" => gate[h].request # r
<1>1. SUFFICES ASSUME NEW h \in Gates, gate[h].status = "running", gate[h].request = r PROVE FALSE
  OBVIOUS
<1>2. run[r].gate = h /\ h \in run[r].config /\ run[r].config \in SUBSET Gates
  BY <1>1, RequiredIsTyped DEF GInv, Owned, Captured
<1>. QED
  BY <1>1, <1>2, LoadedOnlyLoses DEF GInv, IsCurrent

LEMMA Current ==
  ASSUME GInv, NEW r \in Requests, run[r].step \notin {"none", "ended"}, IsCurrent(r)
  PROVE  /\ run[r].gate \in Gates /\ run[r].config \in SUBSET Gates
         /\ Loaded(run[r].config)[run[r].gate] \in Record
         /\ gate[run[r].gate].status = "running" /\ gate[run[r].gate].request = r
         /\ \A h \in Gates : gate[h].status = "running" => h = run[r].gate
<1>1. run[r].gate \in Gates /\ run[r].config \in SUBSET Gates
  BY RequiredIsTyped DEF GInv, Captured
<1>2. Loaded(run[r].config)[run[r].gate] \in Record
  BY <1>1, LoadedIsTyped DEF GInv
<1>3. gate[run[r].gate].status = "running" /\ gate[run[r].gate].request = r
  BY <1>1, LoadedOnlyLoses DEF GInv, IsCurrent
<1>. QED
  BY <1>1, <1>2, <1>3 DEF GInv, Owned

(* A step of the run of request r keeps the invariant when it keeps the    *)
(* index typed, shows no new running gate, and leaves the run alive or its *)
(* request not shown.                                                      *)
LEMMA RunMoves ==
  ASSUME GInv, NEW r \in Requests, NEW s \in Steps, run[r].step \notin {"none", "ended"},
         GoTo(r, s), Idle, IndexLoses,
         gate' \in [Gates -> Record], active' \in Gates \cup {NoGate},
         file' \in [Requests -> {"none", "requested", "running", "completed", "failed",
                                 "cancelled", "stale_completion"}],
         reviewing' \subseteq reviewing \cup {r}, latest' \in [Gates -> 0..MaxRequests],
         disposition' \in {"none", "accepted", "rejected"},
         s = "settling" => report[r] \in {"approve", "request_changes"},
         \/ s \in LiveSteps \/ run[r].aborted \/ run[r].step \notin LiveSteps
         \/ \A h \in Gates : gate'[h].status = "running" => gate'[h].request # r,
         AcceptanceIsEarned'
  PROVE  GInv'
<1>. USE DEF Idle, GoTo
<1>1. /\ \A q \in Requests : run'[q] = IF q = r THEN [run[r] EXCEPT !.step = s] ELSE run[q]
      /\ run[r] \in Run /\ run' \in [Requests -> Run]
  BY DEF GInv, TypeOK, Run
<1>2. /\ run'[r].step = s /\ run'[r].gate = run[r].gate /\ run'[r].config = run[r].config
      /\ run'[r].aborted = run[r].aborted
  BY <1>1 DEF Run
<1>3. TypeOK'
  BY <1>1 DEF GInv, TypeOK, worldVars, limitVars
<1>4. issued \in 0..MaxRequests /\ issued' = issued /\ up' = up
  BY DEF GInv, TypeOK
<1>5. Owned'
  <2>1. SUFFICES ASSUME NEW h \in Gates, gate'[h].status = "running"
                 PROVE  LET q == gate'[h].request IN
                        /\ q \in 1..issued /\ run'[q].gate = h /\ active' = h
                        /\ up => run'[q].aborted \/ run'[q].step \in LiveSteps
    BY <1>4 DEF Owned
  <2>. DEFINE q == gate'[h].request
  <2>2. gate[h].status = "running" /\ q = gate[h].request /\ active' = h
    BY <2>1 DEF IndexLoses
  <2>3. q \in 1..issued /\ run[q].gate = h /\ q \in Requests
        /\ (up => run[q].aborted \/ run[q].step \in LiveSteps)
    BY <1>4, <2>2, BoundsAssumption DEF GInv, Owned, Requests
  <2>4. CASE q = r
    BY <1>2, <2>1, <2>2, <2>3, <2>4
  <2>5. CASE q # r
    BY <1>1, <2>2, <2>3, <2>5
  <2>. QED
    BY <2>4, <2>5
<1>6. Fresh'
  BY <1>1, <1>4 DEF GInv, Fresh
<1>7. Captured'
  BY <1>1, <1>2 DEF GInv, Captured
<1>. QED
  BY <1>3, <1>5, <1>6, <1>7 DEF GInv

LEMMA FilesAndReports ==
  ASSUME GInv, NEW r \in Requests, NEW st \in {"requested", "running", "completed", "failed",
                                              "cancelled", "stale_completion"}
  PROVE  /\ [file EXCEPT ![r] = st] \in [Requests -> {"none", "requested", "running", "completed",
                                                      "failed", "cancelled", "stale_completion"}]
         /\ file \in [Requests -> {"none", "requested", "running", "completed", "failed",
                                   "cancelled", "stale_completion"}]
         /\ latest \in [Gates -> 0..MaxRequests]
         /\ \A g \in Gates : [latest EXCEPT ![g] = r] \in [Gates -> 0..MaxRequests]
<1>1. r \in 0..MaxRequests
  BY BoundsAssumption DEF Requests
<1>. QED
  BY <1>1 DEF GInv, TypeOK

LEMMA IndexKept ==
  ASSUME GInv, UNCHANGED indexVars
  PROVE  /\ IndexLoses /\ gate' \in [Gates -> Record] /\ active' \in Gates \cup {NoGate}
         /\ UNCHANGED disposition => /\ AcceptanceIsEarned'
                                     /\ disposition' \in {"none", "accepted", "rejected"}
<1>. USE DEF indexVars
<1>1. gate' = gate /\ active' = active
  OBVIOUS
<1>2. IndexLoses
  BY <1>1 DEF GInv, Owned, IndexLoses
<1>3. UNCHANGED disposition => AcceptanceIsEarned'
  BY <1>1 DEF GInv, AcceptanceIsEarned
<1>. QED
  BY <1>1, <1>2, <1>3 DEF GInv, TypeOK

(* A result that is not current any more. *)
LEMMA StaleKeeps ==
  ASSUME GInv, NEW r \in Requests, run[r].step \notin {"none", "ended"}, ~IsCurrent(r),
         StaleResult(r), UNCHANGED reviewing, Idle
  PROVE  GInv' /\ OnlyWithdraws
<1>1. UNCHANGED indexVars /\ UNCHANGED disposition /\ GoTo(r, "ended")
  BY DEF StaleResult
<1>2. \A h \in Gates : gate'[h].status = "running" => gate'[h].request # r
  BY <1>1, NotCurrent DEF indexVars
<1>3. /\ file' \in [Requests -> {"none", "requested", "running", "completed", "failed",
                                 "cancelled", "stale_completion"}]
      /\ latest' \in [Gates -> 0..MaxRequests]
  BY FilesAndReports DEF StaleResult
<1>4. "ended" \in Steps
  BY DEF Steps
<1>5. OnlyWithdraws
  BY <1>1, IndexStays DEF StaleResult, Idle
<1>. QED
  BY <1>1, <1>2, <1>3, <1>4, <1>5, IndexKept, RunMoves

LEMMA RunStartsKeeps == ASSUME GInv, NEW r \in Requests, RunStarts(r) PROVE GInv' /\ OnlyWithdraws
<1>1. /\ run[r].step = "spawned" /\ Idle /\ UNCHANGED <<reviewing, latest, disposition>>
      /\ "started" \in Steps /\ "ended" \in Steps
  BY DEF RunStarts, At, Steps
<1>2. CASE IsCurrent(r)
  <2>. DEFINE g == run[r].gate
              config == run[r].config
              rec == Loaded(config)[g]
  <2>1. g \in Gates /\ config \in SUBSET Gates /\ rec \in Record
    BY <1>1, <1>2, Current
  <2>2. Save(config, g, rec) /\ file' = [file EXCEPT ![r] = "running"] /\ GoTo(r, "started")
    BY <1>2 DEF RunStarts
  <2>3. /\ gate' \in [Gates -> Record] /\ active' \in Gates \cup {NoGate} /\ IndexLoses
        /\ gate'[g] = rec /\ \A h \in Gates \ {g} : gate'[h] = Loaded(config)[h]
    BY <2>1, <2>2, LoadedOnlyLoses, Saved DEF GInv
  <2>4. AcceptanceIsEarned'
    BY <1>1, <2>1, <2>3, SavedAcceptance
  <2>5. file' \in [Requests -> {"none", "requested", "running", "completed", "failed",
                                "cancelled", "stale_completion"}]
        /\ latest' \in [Gates -> 0..MaxRequests] /\ disposition' \in {"none", "accepted", "rejected"}
    BY <1>1, <2>2, FilesAndReports DEF GInv, TypeOK
  <2>6. "started" \in LiveSteps
    BY DEF LiveSteps
  <2>7. OnlyWithdraws
    BY <1>1, <2>1, <2>2, SaveWithdraws DEF Idle
  <2>. QED
    BY <1>1, <2>2, <2>3, <2>4, <2>5, <2>6, <2>7, RunMoves
<1>3. CASE ~IsCurrent(r)
  <2>1. GoTo(r, "ended") /\ UNCHANGED <<indexVars, file>>
    BY <1>3 DEF RunStarts
  <2>2. \A h \in Gates : gate'[h].status = "running" => gate'[h].request # r
    BY <1>1, <1>3, <2>1, NotCurrent DEF indexVars
  <2>3. file' \in [Requests -> {"none", "requested", "running", "completed", "failed",
                                "cancelled", "stale_completion"}]
        /\ latest' \in [Gates -> 0..MaxRequests]
    BY <1>1, <2>1 DEF GInv, TypeOK
  <2>4. OnlyWithdraws
    BY <1>1, <2>1, IndexStays DEF Idle
  <2>. QED
    BY <1>1, <2>1, <2>2, <2>3, <2>4, IndexKept, RunMoves
<1>. QED
  BY <1>2, <1>3

LEMMA RunWaitsKeeps ==
  ASSUME GInv, NEW r \in Requests, RunPrompts(r) \/ RunReadsReport(r) PROVE GInv' /\ OnlyWithdraws
<1>1. /\ UNCHANGED <<indexVars, file, latest, disposition>> /\ Idle
      /\ run[r].step \in {"started", "waiting"} /\ reviewing' \subseteq reviewing \cup {r}
  BY DEF RunPrompts, RunReadsReport, At
<1>2. PICK s \in Steps : /\ s \in LiveSteps \/ run[r].aborted
                         /\ GoTo(r, s)
                         /\ s = "settling" => report[r] \in {"approve", "request_changes"}
  BY DEF RunPrompts, RunReadsReport, LiveSteps, Steps
<1>3. file' \in [Requests -> {"none", "requested", "running", "completed", "failed",
                              "cancelled", "stale_completion"}]
      /\ latest' \in [Gates -> 0..MaxRequests]
  BY <1>1 DEF GInv, TypeOK
<1>4. OnlyWithdraws
  BY <1>1, IndexStays DEF Idle
<1>. QED
  BY <1>1, <1>2, <1>3, <1>4, IndexKept, RunMoves

(* What a decision does to the index. *)
Decides(r) ==
  LET g == run[r].gate IN
  /\ g \in Gates /\ gate[g].status = "running" /\ gate[g].request = r /\ r # 0
  /\ report[r] \in {"approve", "request_changes"}
  /\ gate'[g].status = "completed" /\ latest' = [latest EXCEPT ![g] = r]
  /\ UNCHANGED <<issued, report>>
  /\ IndexLoses
  /\ \A h \in Gates \ {g} : gate'[h].status = "completed" => gate[h].status = "completed"

(* The outcome of a review: the record stops running, its report or its    *)
(* failure replaces it, and the Architect restart is told.                 *)
LEMMA OutcomeKeeps ==
  ASSUME GInv, NEW r \in Requests, RunCompletes(r) \/ RunFails(r)
  PROVE  GInv' /\ (OnlyWithdraws \/ Decides(r))
<1>1. /\ run[r].step \in {"settling", "failing"} /\ Idle /\ UNCHANGED reviewing
      /\ "calling" \in Steps
  BY DEF RunCompletes, RunFails, At, Steps
<1>2. CASE ~IsCurrent(r)
  <2>1. StaleResult(r)
    BY <1>2 DEF RunCompletes, RunFails
  <2>. QED
    BY <1>1, <1>2, <2>1, StaleKeeps
<1>3. CASE IsCurrent(r)
  <2>. DEFINE g == run[r].gate
              config == run[r].config
              old == Loaded(config)[g]
              done == [old EXCEPT !.status = "completed", !.decision = report[r], !.callback = "not_sent"]
              failed == [old EXCEPT !.status = "failed", !.callback = "not_sent"]
  <2>1. g \in Gates /\ config \in SUBSET Gates /\ old \in Record
    BY <1>1, <1>3, Current
  <2>2. /\ failed \in Record /\ failed.status = "failed"
        /\ RunCompletes(r) => /\ done \in Record /\ done.status = "completed"
                              /\ done.decision = report[r]
                              /\ report[r] \in {"approve", "request_changes"}
    <3>1. RunCompletes(r) => report[r] \in {"approve", "request_changes"}
      BY DEF RunCompletes, At, GInv, Captured
    <3>. HIDE DEF old
    <3>. QED
      BY <2>1, <3>1 DEF Record, Statuses
  <2>3. PICK rec \in Record :
          /\ Save(config, g, rec) /\ GoTo(r, "calling") /\ rec.status # "running"
          /\ \/ Notify(g, FALSE)
             \/ Notify(g, TRUE) /\ ~Decided(rec, "request_changes")
          /\ \/ UNCHANGED latest /\ rec.status = "failed"
             \/ /\ RunCompletes(r) /\ latest' = [latest EXCEPT ![g] = r]
                /\ rec.status = "completed"
    <3>1. CASE RunCompletes(r)
      <4>1. Save(config, g, done) /\ GoTo(r, "calling") /\ Notify(g, report[r] = "approve")
            /\ latest' = [latest EXCEPT ![g] = r]
        BY <1>3, <3>1 DEF RunCompletes
      <4>2. CASE report[r] = "approve"
        <5>1. Notify(g, TRUE)
          BY <4>1, <4>2 DEF Notify
        <5>. HIDE DEF done
        <5>. QED
          BY <2>2, <3>1, <4>1, <4>2, <5>1 DEF Decided
      <4>3. CASE report[r] # "approve"
        <5>1. Notify(g, FALSE)
          BY <4>1, <4>3 DEF Notify
        <5>. HIDE DEF done
        <5>. QED
          BY <2>2, <3>1, <4>1, <5>1
      <4>. QED
        BY <4>2, <4>3
    <3>2. CASE RunFails(r)
      <4>1. Save(config, g, failed) /\ GoTo(r, "calling") /\ Notify(g, FALSE)
            /\ UNCHANGED latest
        BY <1>3, <3>2 DEF RunFails
      <4>. HIDE DEF failed
      <4>. QED
        BY <2>2, <4>1
    <3>. QED
      BY <3>1, <3>2
  <2>4. /\ latest' \in [Gates -> 0..MaxRequests]
        /\ file' \in [Requests -> {"none", "requested", "running", "completed", "failed",
                                   "cancelled", "stale_completion"}]
        /\ disposition' \in {"none", "accepted", "rejected"}
    <3>1. \/ latest' = latest /\ file' = [file EXCEPT ![r] = "failed"]
          \/ latest' = [latest EXCEPT ![g] = r] /\ file' = [file EXCEPT ![r] = "completed"]
      BY <1>3 DEF RunCompletes, RunFails
    <3>2. disposition' \in {"none", "accepted", "rejected"}
      BY <2>3 DEF Notify, GInv, TypeOK
    <3>. QED
      BY <2>1, <3>1, <3>2, FilesAndReports
  <2>. HIDE DEF done, failed, old
  <2>5. Save(config, g, rec) /\ rec.status # "running"
    BY <2>3
  <2>6. /\ gate' \in [Gates -> Record] /\ active' \in Gates \cup {NoGate} /\ IndexLoses
        /\ gate'[g] = rec /\ \A h \in Gates \ {g} : gate'[h] = Loaded(config)[h]
    <3>1. g \in Gates /\ config \in SUBSET Gates
      BY <2>1
    <3>. HIDE DEF g, config
    <3>. QED
      BY <2>5, <3>1, Saved
  <2>7. AcceptanceIsEarned'
    BY <2>1, <2>3, <2>6, SavedAcceptance
  <2>8. \A h \in Gates : gate'[h].status = "running" => gate'[h].request # r
    BY <1>1, <1>3, <2>1, <2>3, <2>6, Current DEF IndexLoses
  <2>9. OnlyWithdraws \/ Decides(r)
    <3>1. UNCHANGED <<issued, report>>
      BY <1>1 DEF Idle
    <3>2. CASE UNCHANGED latest /\ rec.status = "failed"
      BY <2>1, <2>3, <3>1, <3>2, SaveWithdraws
    <3>3. CASE RunCompletes(r) /\ latest' = [latest EXCEPT ![g] = r] /\ rec.status = "completed"
      <4>1. \A h \in Gates \ {g} : gate'[h].status = "completed" => gate[h].status = "completed"
        BY <2>1, <2>6, LoadedOnlyLoses DEF GInv
      <4>2. r # 0
        BY BoundsAssumption DEF Requests
      <4>3. report[r] \in {"approve", "request_changes"}
        BY <2>2, <3>3
      <4>4. gate[g].status = "running" /\ gate[g].request = r
        BY <1>1, <1>3, Current
      <4>5. gate'[g].status = "completed" /\ IndexLoses
        BY <2>6, <3>3
      <4>. QED
        BY <2>1, <3>1, <3>3, <4>1, <4>2, <4>3, <4>4, <4>5 DEF Decides
    <3>. QED
      BY <2>3, <3>2, <3>3
  <2>. QED
    BY <1>1, <2>3, <2>4, <2>6, <2>7, <2>8, <2>9, RunMoves
<1>. QED
  BY <1>2, <1>3

LEMMA CallbackKeeps == ASSUME GInv, NEW r \in Requests, RunCallsPM(r) PROVE GInv' /\ OnlyWithdraws
<1>1. /\ run[r].step = "calling" /\ Idle /\ UNCHANGED <<file, latest, reviewing, disposition>>
      /\ GoTo(r, "ended") /\ "ended" \in Steps /\ run[r].step \notin LiveSteps
  BY DEF RunCallsPM, At, Steps, LiveSteps
<1>2. file' \in [Requests -> {"none", "requested", "running", "completed", "failed",
                              "cancelled", "stale_completion"}]
      /\ latest' \in [Gates -> 0..MaxRequests] /\ disposition' \in {"none", "accepted", "rejected"}
  BY <1>1 DEF GInv, TypeOK
<1>3. CASE StillShown(r)
  <2>. DEFINE g == run[r].gate
              config == run[r].config
              old == Loaded(config)[g]
              rec == [old EXCEPT !.callback = "called"]
  <2>1. g \in Gates /\ config \in SUBSET Gates /\ old \in Record
    <3>1. g \in Gates /\ config \in SUBSET Gates
      BY <1>1, RequiredIsTyped DEF GInv, Captured
    <3>. QED
      BY <3>1, LoadedIsTyped DEF GInv
  <2>2. Save(config, g, rec)
    BY <1>3 DEF RunCallsPM
  <2>3. rec \in Record /\ rec.status = old.status /\ rec.request = old.request
        /\ rec.decision = old.decision
    <3>. HIDE DEF old
    <3>. QED
      BY <2>1 DEF Record
  <2>. HIDE DEF rec
  <2>4. /\ gate' \in [Gates -> Record] /\ active' \in Gates \cup {NoGate} /\ IndexLoses
        /\ gate'[g] = rec /\ \A h \in Gates \ {g} : gate'[h] = Loaded(config)[h]
    BY <2>1, <2>2, <2>3, Saved
  <2>5. AcceptanceIsEarned'
    BY <1>1, <2>1, <2>3, <2>4, SavedAcceptance
  <2>6. OnlyWithdraws
    BY <1>1, <2>1, <2>2, <2>3, SaveWithdraws DEF Idle
  <2>. QED
    BY <1>1, <1>2, <2>4, <2>5, <2>6, RunMoves
<1>4. CASE ~StillShown(r)
  <2>1. UNCHANGED indexVars
    BY <1>4 DEF RunCallsPM
  <2>2. OnlyWithdraws
    BY <1>1, <2>1, IndexStays DEF Idle
  <2>. QED
    BY <1>1, <1>2, <2>1, <2>2, IndexKept, RunMoves
<1>. QED
  BY <1>3, <1>4
-----------------------------------------------------------------------------
LEMMA CancelKeeps == ASSUME GInv, NEW g \in Gates, CancelReview(g) PROVE GInv' /\ OnlyWithdraws
<1>. DEFINE old == Loaded(required)[g]
            r == old.request
<1>1. /\ gate[g].status = "running" /\ r = gate[g].request /\ r \in 1..issued
      /\ run[r].gate = g /\ required \in SUBSET Gates
  <2>1. required \in SUBSET Gates
    BY DEF GInv, TypeOK
  <2>. QED
    BY <2>1, LoadedOnlyLoses DEF CancelReview, GInv, Owned
<1>2. r \in Requests /\ issued \in 0..MaxRequests
  BY <1>1, BoundsAssumption DEF GInv, TypeOK, Requests
<1>3. /\ run' = [run EXCEPT ![r].aborted = TRUE] /\ UNCHANGED <<latest, disposition>> /\ Idle
      /\ reviewing' \subseteq reviewing
  BY DEF CancelReview
<1>4. \/ file' = [file EXCEPT ![r] = "cancelled"] /\ Save(required, g, Blank)
      \/ UNCHANGED <<indexVars, file>>
  BY DEF CancelReview
<1>. HIDE DEF r, old
<1>5. /\ gate' \in [Gates -> Record] /\ active' \in Gates \cup {NoGate} /\ IndexLoses
      /\ AcceptanceIsEarned'
  <2>1. CASE Save(required, g, Blank)
    <3>1. Blank.status = "pending"
      BY DEF Blank
    <3>2. /\ gate' \in [Gates -> Record] /\ active' \in Gates \cup {NoGate} /\ IndexLoses
          /\ gate'[g] = Blank /\ \A h \in Gates \ {g} : gate'[h] = Loaded(required)[h]
      BY <1>1, <2>1, <3>1, BlankIsRecord, Saved
    <3>3. AcceptanceIsEarned'
      BY <1>1, <1>3, <3>1, <3>2, BlankIsRecord, SavedAcceptance
    <3>. QED
      BY <3>2, <3>3
  <2>2. CASE UNCHANGED indexVars
    BY <1>3, <2>2, IndexKept
  <2>. QED
    BY <1>4, <2>1, <2>2
<1>6. /\ \A q \in Requests : run'[q] = IF q = r THEN [run[r] EXCEPT !.aborted = TRUE] ELSE run[q]
      /\ run[r] \in Run /\ run' \in [Requests -> Run]
  BY <1>2, <1>3 DEF GInv, TypeOK, Run
<1>7. \A q \in Requests : /\ run'[q].gate = run[q].gate /\ run'[q].step = run[q].step
                          /\ run'[q].config = run[q].config
                          /\ run[q].aborted => run'[q].aborted
  BY <1>6 DEF Run
<1>8. TypeOK'
  <2>1. file' \in [Requests -> {"none", "requested", "running", "completed", "failed",
                                "cancelled", "stale_completion"}]
    BY <1>2, <1>4, FilesAndReports
  <2>2. UNCHANGED <<required, issued, report, evidence, head, harness, changes, recoveries, up>>
    BY <1>3 DEF Idle, worldVars, limitVars
  <2>. QED
    BY <1>3, <1>5, <1>6, <2>1, <2>2 DEF GInv, TypeOK
<1>9. Owned'
  <2>1. issued' = issued /\ up' = up
    BY <1>3 DEF Idle
  <2>2. \A q \in 1..issued : q \in Requests
    BY <1>2, BoundsAssumption DEF Requests
  <2>. QED
    BY <1>5, <1>7, <2>1, <2>2, OwnedKept DEF GInv
<1>10. Fresh' /\ Captured'
  BY <1>3, <1>7 DEF Idle, GInv, Fresh, Captured
<1>11. OnlyWithdraws
  <2>1. CASE Save(required, g, Blank)
    <3>1. Blank.status = "pending"
      BY DEF Blank
    <3>. QED
      BY <1>1, <1>3, <2>1, <3>1, BlankIsRecord, SaveWithdraws DEF Idle
  <2>2. CASE UNCHANGED indexVars
    BY <1>3, <2>2, IndexStays DEF Idle
  <2>. QED
    BY <1>4, <2>1, <2>2
<1>. QED
  BY <1>5, <1>8, <1>9, <1>10, <1>11 DEF GInv

LEMMA SettingsKeep ==
  ASSUME GInv, NEW g \in Gates, UpdateSettings(g) \/ SettingsElsewhere(g) PROVE GInv' /\ OnlyWithdraws
<1>1. PICK config \in SUBSET Gates :
        /\ required' = config
        /\ \/ gate' = Loaded(config) /\ active' = LoadedActive(config)
           \/ UNCHANGED indexVars
  <2>. DEFINE toggled == IF g \in required THEN required \ {g} ELSE required \cup {g}
  <2>1. toggled \in SUBSET Gates
    BY DEF GInv, TypeOK
  <2>2. /\ required' = toggled
        /\ \/ gate' = Loaded(toggled) /\ active' = LoadedActive(toggled)
           \/ UNCHANGED indexVars
    BY DEF UpdateSettings, SettingsElsewhere
  <2>. HIDE DEF toggled
  <2>. QED
    BY <2>1, <2>2
<1>2. UNCHANGED <<issued, runVars, report, reviewing, disposition, worldVars, recoveries, up>>
      /\ changes' \in 0..MaxSettings
  BY BoundsAssumption DEF UpdateSettings, SettingsElsewhere, GInv, TypeOK
<1>3. /\ gate' \in [Gates -> Record] /\ active' \in Gates \cup {NoGate} /\ IndexLoses
      /\ AcceptanceIsEarned'
  <2>1. CASE gate' = Loaded(config) /\ active' = LoadedActive(config)
    <3>1. gate' \in [Gates -> Record] /\ active' \in Gates \cup {NoGate}
      BY <2>1, LoadedIsTyped DEF GInv
    <3>2. IndexLoses
      BY <2>1, LoadedOnlyLoses DEF GInv, IndexLoses, LoadedActive, Owned, Gates, NoGate, Plan,
                                   Validation, Diff
    <3>3. Plan \in Gates /\ disposition' = disposition
      BY <1>2 DEF Gates
    <3>4. AcceptanceIsEarned'
      BY <2>1, <3>3, LoadedOnlyLoses DEF GInv, AcceptanceIsEarned, Decided
    <3>. QED
      BY <3>1, <3>2, <3>4
  <2>2. CASE UNCHANGED indexVars
    BY <1>2, <2>2, IndexKept
  <2>. QED
    BY <1>1, <2>1, <2>2
<1>4. TypeOK'
  BY <1>1, <1>2, <1>3 DEF GInv, TypeOK, runVars, worldVars
<1>5. Owned'
  BY <1>2, <1>3 DEF GInv, Owned, IndexLoses, runVars
<1>6. Fresh' /\ Captured'
  BY <1>2 DEF GInv, Fresh, Captured, runVars
<1>7. OnlyWithdraws
  BY <1>1, <1>2, <1>3, LoadedOnlyLoses DEF GInv, OnlyWithdraws, indexVars, runVars
<1>. QED
  BY <1>3, <1>4, <1>5, <1>6, <1>7 DEF GInv

LEMMA StopsKeep == ASSUME GInv, Crash \/ Recover PROVE GInv' /\ OnlyWithdraws
<1>1. CASE Crash
  <2>1. \A r \in Requests : /\ run'[r] \in Run /\ run'[r].gate = run[r].gate
                            /\ run'[r].step \in {"none", "ended"}
                            /\ run[r].step = "none" => run'[r].step = "none"
    BY <1>1, RequiredIsTyped DEF Crash, Run, Steps
  <2>2. run' \in [Requests -> Run]
    BY <1>1, <2>1 DEF Crash
  <2>3. TypeOK'
    BY <1>1, <2>2 DEF Crash, GInv, TypeOK, indexVars, worldVars, limitVars
  <2>4. \A r \in 1..issued : r \in Requests
    BY BoundsAssumption DEF GInv, TypeOK, Requests
  <2>5. Owned'
    BY <1>1, <2>1, <2>4 DEF Crash, GInv, Owned, indexVars
  <2>6. Fresh' /\ Captured' /\ AcceptanceIsEarned'
    BY <1>1, <2>1 DEF Crash, GInv, Fresh, Captured, AcceptanceIsEarned, indexVars
  <2>7. OnlyWithdraws
    BY <1>1, IndexStays DEF Crash
  <2>. QED
    BY <2>3, <2>5, <2>6, <2>7 DEF GInv
<1>2. CASE Recover
  <2>1. \A g \in Gates : /\ gate'[g] \in Record /\ gate'[g].status # "running"
                         /\ gate'[g].status = "completed" => gate'[g] = gate[g]
    <3>1. SUFFICES ASSUME NEW g \in Gates
                   PROVE  /\ gate'[g] \in Record /\ gate'[g].status # "running"
                          /\ gate'[g].status = "completed" => gate'[g] = gate[g]
      OBVIOUS
    <3>2. gate[g] \in Record
      BY DEF GInv, TypeOK
    <3>. QED
      BY <1>2, <3>2 DEF Recover, Record, Statuses
  <2>2. gate' \in [Gates -> Record]
    BY <1>2, <2>1 DEF Recover
  <2>3. TypeOK'
    BY <1>2, <2>2, BoundsAssumption DEF Recover, GInv, TypeOK, runVars, worldVars
  <2>4. Plan \in Gates
    BY DEF Gates
  <2>5. AcceptanceIsEarned'
    BY <1>2, <2>1, <2>4 DEF Recover, GInv, AcceptanceIsEarned, Decided
  <2>6. OnlyWithdraws
    BY <1>2, <2>1 DEF Recover, OnlyWithdraws, IndexLoses, runVars
  <2>7. Owned' /\ Fresh' /\ Captured'
    BY <1>2, <2>1 DEF Recover, GInv, Owned, Fresh, Captured, runVars
  <2>. QED
    BY <2>3, <2>5, <2>6, <2>7 DEF GInv
<1>. QED
  BY <1>1, <1>2

LEMMA OthersKeep ==
  ASSUME GInv,
         \/ \E r \in Requests : WriteReport(r)
         \/ \E g \in Gates : EditArtifact(g)
         \/ \E byHarness \in BOOLEAN : Commit(byHarness)
  PROVE  GInv'
<1>1. ASSUME NEW r \in Requests, WriteReport(r) PROVE GInv'
  <2>1. TypeOK'
    BY <1>1 DEF WriteReport, GInv, TypeOK, indexVars, runVars, worldVars, limitVars
  <2>. QED
    BY <1>1, <2>1 DEF WriteReport, GInv, TypeOK, Owned, Fresh, Captured, AcceptanceIsEarned,
                      indexVars, runVars
<1>2. ASSUME NEW g \in Gates, EditArtifact(g) PROVE GInv'
  <2>1. evidence' \in [Gates -> 0..MaxEdits]
    BY <1>2, BoundsAssumption DEF EditArtifact, GInv, TypeOK
  <2>2. TypeOK'
    BY <1>2, <2>1 DEF EditArtifact, GInv, TypeOK, indexVars, runVars, limitVars
  <2>. QED
    BY <1>2, <2>2 DEF EditArtifact, GInv, Owned, Fresh, Captured, AcceptanceIsEarned,
                      indexVars, runVars
<1>3. ASSUME NEW byHarness \in BOOLEAN, Commit(byHarness) PROVE GInv'
  <2>1. head' \in 0..MaxCommits /\ harness' \subseteq Commits
    BY <1>3, BoundsAssumption DEF Commit, GInv, TypeOK, Commits
  <2>2. TypeOK'
    BY <1>3, <2>1 DEF Commit, GInv, TypeOK, indexVars, runVars, limitVars
  <2>. QED
    BY <1>3, <2>2 DEF Commit, GInv, Owned, Fresh, Captured, AcceptanceIsEarned,
                      indexVars, runVars
<1>. QED
  BY <1>1, <1>2, <1>3
-----------------------------------------------------------------------------
LEMMA InitHolds == Init => GInv
<1>. SUFFICES ASSUME Init PROVE GInv
  OBVIOUS
<1>1. \A g \in Gates : gate[g] \in Record /\ gate[g].status = "disabled"
  BY BlankIsRecord DEF Init, Record, Statuses, Blank
<1>2. gate \in [Gates -> Record]
  BY <1>1 DEF Init
<1>3. NoRun \in Run /\ NoRun.step = "none"
  BY DEF NoRun, Run, Steps
<1>4. TypeOK
  BY <1>2, <1>3, ChoicesAssumption, BoundsAssumption DEF Init, TypeOK
<1>. QED
  BY <1>1, <1>3, <1>4 DEF Init, GInv, Owned, Fresh, Captured, AcceptanceIsEarned

LEMMA StepHolds == GInv /\ [Next]_vars => GInv'
<1>. SUFFICES ASSUME GInv, [Next]_vars PROVE GInv'
  OBVIOUS
<1>. USE ChoicesAssumption
<1>1. ASSUME NEW g \in Used, RequestGate(g) PROVE GInv'
  <2>1. g \in Gates
    OBVIOUS
  <2>2. CASE \E force \in BOOLEAN : RequestReview(g, force)
    BY <2>1, <2>2, ReviewKeeps
  <2>3. CASE ~\E force \in BOOLEAN : RequestReview(g, force)
    BY <1>1, <2>1, <2>3, RequestsKeep DEF RequestGate
  <2>. QED
    BY <2>2, <2>3
<1>2. ASSUME NEW g \in Gates, UserStep(g) PROVE GInv'
  BY <1>2, CancelKeeps, ExceptKeeps, SettingsKeep DEF UserStep
<1>3. ASSUME NEW r \in Requests, RunStep(r) PROVE GInv'
  BY <1>3, RunStartsKeeps, RunWaitsKeeps, OutcomeKeeps, CallbackKeeps DEF RunStep
<1>4. ASSUME UNCHANGED vars PROVE GInv'
  BY <1>4 DEF vars, indexVars, runVars, worldVars, limitVars, GInv, TypeOK, Owned, Fresh,
              Captured, AcceptanceIsEarned
<1>. QED
  BY <1>1, <1>2, <1>3, <1>4, StopsKeep, OthersKeep DEF Next

LEMMA GateInvariant == Spec => []GInv
BY InitHolds, StepHolds, PTL DEF Spec

(* The index, the runs and the request files stay well formed, whatever    *)
(* the user changes while runs are on their way.                           *)
THEOREM GateIsTyped == Spec => []TypeOK
<1>1. GInv => TypeOK
  BY DEF GInv
<1>. QED
  BY <1>1, GateInvariant, PTL

(* A gate shown as running always has a run that will take it out of       *)
(* running, or that the user has tried to cancel.                          *)
THEOREM RunningGateHasRunner == Spec => []RunningHasRunner
<1>1. GInv => RunningHasRunner
  <2>1. SUFFICES ASSUME GInv, up, NEW g \in Gates, gate[g].status = "running"
                 PROVE  LET r == gate[g].request IN
                        /\ r \in Requests /\ run[r].gate = g /\ active = g
                        /\ \/ run[r].aborted
                           \/ run[r].step \in {"spawned", "started", "waiting", "settling", "failing"}
    BY DEF RunningHasRunner
  <2>. QED
    BY <2>1, BoundsAssumption DEF GInv, TypeOK, Owned, LiveSteps, Requests
<1>. QED
  BY <1>1, GateInvariant, PTL

(* The Architect's restart is never released by a plan that is under       *)
(* review or rejected.                                                     *)
THEOREM PlanAcceptanceIsEarned == Spec => []AcceptanceIsEarned
<1>1. GInv => AcceptanceIsEarned
  BY DEF GInv
<1>. QED
  BY <1>1, GateInvariant, PTL
-----------------------------------------------------------------------------
(* The refinement.  Every step opens a request, decides the open one,      *)
(* withdraws what gates show, or writes a report.                          *)
Shown == [g \in Gates |-> IF gate[g].status = "running" THEN gate[g].request ELSE 0]
DecidedBy == [g \in Gates |-> IF gate[g].status = "completed" THEN latest[g] ELSE 0]

LEMMA WithdrawalRefines == ASSUME GInv, OnlyWithdraws PROVE Ledger!Withdraw
<1>1. \A h \in Gates : Shown'[h] \in {Shown[h], 0} /\ DecidedBy'[h] \in {DecidedBy[h], 0}
  BY DEF OnlyWithdraws, IndexLoses, Shown, DecidedBy
<1>. QED
  BY <1>1 DEF Ledger!Withdraw, Ledger!OnlyLoses, OnlyWithdraws, Shown, DecidedBy

LEMMA OpeningRefines == ASSUME GInv, NEW g \in Gates, Opens(g) PROVE Ledger!Open(g)
<1>1. Shown[g] = 0
  BY DEF Opens, Shown
<1>2. Shown' = [h \in Gates |-> IF h = g THEN issued + 1 ELSE 0]
  BY DEF Opens, Shown
<1>3. DecidedBy'[g] = 0 /\ \A h \in Gates \ {g} : /\ DecidedBy'[h] \in {DecidedBy[h], 0}
                                                  /\ Shown'[h] \in {Shown[h], 0}
  BY DEF Opens, Shown, DecidedBy
<1>. QED
  BY <1>1, <1>2, <1>3 DEF Ledger!Open, Ledger!OnlyLoses, Opens, Shown, DecidedBy

LEMMA DecisionRefines ==
  ASSUME GInv, NEW r \in Requests, NEW g \in Gates, g = run[r].gate, Decides(r)
  PROVE  Ledger!Decide(g)
<1>1. g \in Gates /\ Shown[g] = r /\ r # 0
  BY DEF Decides, Shown
<1>2. DecidedBy'[g] = r /\ Shown'[g] = 0
  BY DEF Decides, Shown, DecidedBy, GInv, TypeOK
<1>3. ASSUME NEW h \in Gates \ {g}
      PROVE  DecidedBy'[h] \in {DecidedBy[h], 0} /\ Shown'[h] \in {Shown[h], 0}
  <2>1. latest'[h] = latest[h]
    BY DEF Decides, GInv, TypeOK
  <2>. QED
    BY <2>1 DEF Decides, IndexLoses, Shown, DecidedBy
<1>. QED
  BY <1>1, <1>2, <1>3 DEF Ledger!Decide, Ledger!OnlyLoses, Decides, Shown, DecidedBy

LEMMA WritingRefines ==
  ASSUME GInv, NEW r \in Requests, WriteReport(r)
  PROVE  \E v \in Ledger!Verdicts : Ledger!Judge(r, v)
<1>1. PICK v \in {"approve", "request_changes", "malformed"} : report' = [report EXCEPT ![r] = v]
  BY DEF WriteReport
<1>2. r <= issued
  BY BoundsAssumption DEF WriteReport, GInv, TypeOK, Fresh, Requests
<1>. QED
  BY <1>1, <1>2 DEF WriteReport, Ledger!Judge, Ledger!Verdicts, indexVars, runVars

LEMMA StepRefines == GInv /\ [Next]_vars => [Ledger!LedgerNext]_(Ledger!ledgerVars)
<1>. SUFFICES ASSUME GInv, [Next]_vars PROVE [Ledger!LedgerNext]_(Ledger!ledgerVars)
  OBVIOUS
<1>. USE ChoicesAssumption
<1>1. OnlyWithdraws => Ledger!LedgerNext
  BY WithdrawalRefines DEF Ledger!LedgerNext
<1>2. ASSUME NEW g \in Used, RequestGate(g) PROVE Ledger!LedgerNext
  <2>1. CASE \E force \in BOOLEAN : RequestReview(g, force)
    BY <2>1, ReviewKeeps, OpeningRefines DEF Ledger!LedgerNext
  <2>2. CASE ~\E force \in BOOLEAN : RequestReview(g, force)
    BY <1>1, <1>2, <2>2, RequestsKeep DEF RequestGate
  <2>. QED
    BY <2>1, <2>2
<1>3. ASSUME NEW g \in Gates, UserStep(g) PROVE Ledger!LedgerNext
  BY <1>1, <1>3, CancelKeeps, ExceptKeeps, SettingsKeep DEF UserStep
<1>4. ASSUME NEW r \in Requests, RunStep(r) PROVE Ledger!LedgerNext
  <2>1. CASE RunCompletes(r) \/ RunFails(r)
    <3>1. OnlyWithdraws \/ Decides(r)
      BY <2>1, OutcomeKeeps
    <3>2. ASSUME Decides(r) PROVE Ledger!LedgerNext
      <4>1. PICK h \in Gates : h = run[r].gate
        BY <3>2 DEF Decides
      <4>2. Ledger!Decide(h)
        BY <3>2, <4>1, DecisionRefines
      <4>. QED
        BY <4>1, <4>2 DEF Ledger!LedgerNext
    <3>. QED
      BY <1>1, <3>1, <3>2
  <2>2. CASE ~(RunCompletes(r) \/ RunFails(r))
    BY <1>1, <1>4, <2>2, RunStartsKeeps, RunWaitsKeeps, CallbackKeeps DEF RunStep
  <2>. QED
    BY <2>1, <2>2
<1>5. ASSUME NEW r \in Requests, WriteReport(r) PROVE Ledger!LedgerNext
  BY <1>5, WritingRefines DEF Ledger!LedgerNext, Ledger!Requests, Requests
<1>6. ASSUME \/ \E g \in Gates : EditArtifact(g)
             \/ \E byHarness \in BOOLEAN : Commit(byHarness)
             \/ UNCHANGED vars
      PROVE  UNCHANGED <<gate, latest, issued, report>>
  BY <1>6 DEF EditArtifact, Commit, vars, indexVars, runVars
<1>7. UNCHANGED <<gate, latest, issued, report>> => UNCHANGED Ledger!ledgerVars
  BY DEF Ledger!ledgerVars
<1>. QED
  BY <1>1, <1>2, <1>3, <1>4, <1>5, <1>6, <1>7, StopsKeep DEF Next

(* The Gate index implements the ledger: only the request a gate shows as  *)
(* running decides it, with the verdict of its own report, so the late     *)
(* result of a cancelled, recovered or superseded request never does.      *)
THEOREM IndexImplementsLedger == Spec => ImplementsLedger
<1>1. Init => Ledger!LedgerInit
  BY DEF Init, Ledger!LedgerInit, Blank, Ledger!Requests, Requests, Gates
<1>. QED
  BY <1>1, StepRefines, GateInvariant, PTL DEF Spec, ImplementsLedger, Ledger!LedgerSpec
-----------------------------------------------------------------------------
(***************************************************************************)
(* An approval covers the code.                                            *)
(***************************************************************************)

(* A request whose run is alive, or that a gate shows as running, has no   *)
(* outcome in its file yet.                                                *)
OpenFiles ==
  /\ \A r \in Requests : run[r].step \in LiveSteps => file[r] # "completed"
  /\ \A g \in Gates : gate[g].status = "running" => file[gate[g].request] # "completed"

(* Whether code-diff is required is the same for everybody at all times.   *)
SameSettings ==
  /\ Diff \in required <=> Diff \in FirstRequired
  /\ \A r \in Requests : run[r].step \notin {"none", "ended"} =>
       (Diff \in run[r].config <=> Diff \in FirstRequired)

(* The code of the branch up to a commit, and that of a record's range.    *)
CodeUpTo(k, H) == { c \in Commits : c <= k } \ H
CodeOf(d, H)   == { c \in Commits : d.base < c /\ c <= d.head } \ H

(* What code-diff record d says when A is the approved code, H the Harness *)
(* commits and R the runs: the code below a range that is reviewed, or     *)
(* will be again, is approved; the range under review is its run's; and    *)
(* the code below a head that the next range starts from is approved.      *)
Covers(d, A, H, R) ==
  /\ d.status \in {"running", "completed", "failed"} /\ d.base # NoCommit =>
       CodeUpTo(d.base, H) \subseteq A
  /\ d.status = "running" => d.base # NoCommit /\ CodeOf(d, H) \subseteq R[d.request].commits
  /\ Decided(d, "approve") \/ (d.status = "not_required" /\ d.head # NoCommit) =>
       CodeUpTo(d.head, H) \subseteq A
  /\ Diff \notin FirstRequired =>
       d.head = NoCommit /\ d.status \notin {"running", "completed", "failed"}

CoverInv == GInv /\ OpenFiles /\ SameSettings /\ Covers(gate[Diff], Approved, harness, run)

(* The approved code and the Harness commits only grow, and an issued run  *)
(* keeps the commits it reviews.                                           *)
Grows ==
  /\ Approved \subseteq Approved' /\ harness \subseteq harness'
  /\ \A r \in 1..issued : run'[r].commits = run[r].commits

LEMMA CoversStays ==
  ASSUME GInv, Grows, Covers(gate[Diff], Approved, harness, run)
  PROVE  Covers(gate[Diff], Approved', harness', run')
<1>1. gate[Diff].status = "running" => run'[gate[Diff].request].commits = run[gate[Diff].request].commits
  BY DEF GInv, Owned, Grows, Gates
<1>. QED
  BY <1>1 DEF Grows, Covers, CodeUpTo, CodeOf

(* A reload of the index, or a record that is none of the four, keeps what *)
(* was covered.                                                            *)
LEMMA CoversLoaded ==
  ASSUME TypeOK, NEW A, NEW H, NEW R, Covers(gate[Diff], A, H, R), NEW config \in SUBSET Gates,
         Diff \in config <=> Diff \in FirstRequired
  PROVE  Covers(Loaded(config)[Diff], A, H, R)
<1>1. gate[Diff] \in Record /\ Diff \in Gates
  BY DEF TypeOK, Gates
<1>. DEFINE d == Loaded(config)[Diff]
<1>2. /\ d.base = gate[Diff].base /\ d.head = gate[Diff].head /\ d.request = gate[Diff].request
      /\ d.decision = gate[Diff].decision
      /\ d.status = NormalStatus(config, Diff)
  BY <1>1 DEF Loaded, Record
<1>3. /\ Diff \in FirstRequired => d.status \in {gate[Diff].status, "pending"}
      /\ Diff \notin FirstRequired => d.status \in {"disabled", "not_required"}
  BY <1>2 DEF NormalStatus
<1>. SUFFICES Covers(d, A, H, R)
  OBVIOUS
<1>. HIDE DEF d
<1>4. CASE Diff \in FirstRequired
  BY <1>2, <1>3, <1>4 DEF Covers, Decided, CodeOf
<1>5. CASE Diff \notin FirstRequired
  BY <1>2, <1>3, <1>5 DEF Covers, Decided
<1>. QED
  BY <1>4, <1>5

(* The range of a new review starts where the approved code ends.          *)
LEMMA BaseIsCovered ==
  ASSUME CoverInv, Diff \in required
  PROVE  LET base == DiffBase(Loaded(required)[Diff]) IN
         base # NoCommit /\ CodeUpTo(base, harness) \subseteq Approved
<1>. DEFINE d == Loaded(required)[Diff]
<1>1. Covers(d, Approved, harness, run)
  BY CoversLoaded, RequiredIsTyped DEF CoverInv, GInv, SameSettings
<1>2. 0 # NoCommit /\ CodeUpTo(0, harness) = {}
  BY BoundsAssumption DEF NoCommit, CodeUpTo, Commits
<1>. HIDE DEF d
<1>. QED
  BY <1>1, <1>2 DEF DiffBase, Covers, Decided, d

(* The outcome in a request's file, its report and the commits of its run  *)
(* are written once.                                                       *)
LEMMA ApprovedGrows ==
  ASSUME GInv, OpenFiles, [Next]_vars
  PROVE  Grows
<1>. SUFFICES /\ harness \subseteq harness'
              /\ \A q \in Requests : file[q] = "completed" /\ report[q] = "approve" =>
                   file'[q] = "completed" /\ report'[q] = "approve" /\ q <= issued
              /\ \A q \in 1..issued : run'[q].commits = run[q].commits
  <2>1. ASSUME NEW c \in Approved,
               \A q \in Requests : file[q] = "completed" /\ report[q] = "approve" =>
                 file'[q] = "completed" /\ report'[q] = "approve" /\ q <= issued,
               \A q \in 1..issued : run'[q].commits = run[q].commits
        PROVE  c \in Approved'
    <3>1. PICK q \in Requests : file[q] = "completed" /\ report[q] = "approve" /\ c \in run[q].commits
      BY DEF Approved
    <3>2. q \in 1..issued
      BY <2>1, <3>1 DEF GInv, TypeOK, Requests
    <3>. QED
      BY <2>1, <3>1, <3>2 DEF Approved
  <2>. QED
    BY <2>1 DEF Grows
<1>. USE DEF GInv, TypeOK
<1>1. \A q \in Requests : report[q] = "approve" => q <= issued
  BY BoundsAssumption DEF Fresh, Requests
<1>2. CASE \/ \E g \in Gates : \/ RequestExempt(g) \/ RequestUnready(g) \/ RequestWithoutInput(g)
                               \/ RequestAlreadyApproved(g) \/ Except(g) \/ UpdateSettings(g)
                               \/ SettingsElsewhere(g) \/ EditArtifact(g)
           \/ RequestWithoutCommits \/ RequestUntested \/ Recover \/ UNCHANGED vars
  <2>1. UNCHANGED <<harness, file, report, run>>
    BY <1>2 DEF RequestExempt, RequestUnready, RequestWithoutInput, RequestAlreadyApproved, Except,
       UpdateSettings, SettingsElsewhere, EditArtifact, RequestWithoutCommits, RequestUntested,
       Recover, EndsWith, Answered, runVars, worldVars, vars
  <2>. QED
    BY <1>1, <2>1
<1>3. CASE \E g \in Gates, force \in BOOLEAN : RequestReview(g, force)
  <2>1. /\ UNCHANGED <<harness, report>> /\ \A q \in Requests : q # issued + 1 => file'[q] = file[q]
        /\ \A q \in Requests : q # issued + 1 => run'[q] = run[q]
    BY <1>3 DEF RequestReview, worldVars
  <2>2. \A q \in Requests : q <= issued => q # issued + 1
    BY BoundsAssumption DEF Requests
  <2>3. \A q \in 1..issued : q \in Requests
    BY BoundsAssumption DEF Requests
  <2>. QED
    BY <1>1, <2>1, <2>2, <2>3
<1>4. CASE \E r \in Requests : RunStep(r)
  <2>1. PICK r \in Requests : RunStep(r)
    BY <1>4
  <2>2. run[r].step \in LiveSteps \/ file' = file
    BY <2>1 DEF RunStep, RunStarts, RunPrompts, RunReadsReport, RunCompletes, RunFails, RunCallsPM,
       At, LiveSteps
  <2>3. \A q \in Requests : q # r => file'[q] = file[q]
    BY <2>1 DEF RunStep, RunStarts, RunPrompts, RunReadsReport, RunCompletes, RunFails, RunCallsPM,
       StaleResult
  <2>4. \E s \in Steps : GoTo(r, s)
    BY <2>1 DEF RunStep, RunStarts, RunPrompts, RunReadsReport, RunCompletes, RunFails, RunCallsPM,
       StaleResult, Steps
  <2>5. \A q \in Requests : run'[q].commits = run[q].commits
    BY <2>4 DEF GoTo, Run
  <2>6. UNCHANGED <<harness, report>>
    BY <2>1 DEF RunStep, RunStarts, RunPrompts, RunReadsReport, RunCompletes, RunFails, RunCallsPM,
       Idle, worldVars
  <2>7. \A q \in 1..issued : q \in Requests
    BY BoundsAssumption DEF Requests
  <2>. QED
    BY <1>1, <2>2, <2>3, <2>5, <2>6, <2>7 DEF OpenFiles
<1>5. CASE \E g \in Gates : CancelReview(g)
  <2>1. PICK g \in Gates : CancelReview(g)
    BY <1>5
  <2>. DEFINE r == gate[g].request
  <2>2. gate[g].status = "running" /\ Loaded(required)[g].request = r
    BY <2>1, LoadedOnlyLoses DEF CancelReview
  <2>3. r \in Requests /\ file[r] # "completed"
    BY <2>2, BoundsAssumption DEF OpenFiles, Owned, Requests
  <2>4. /\ run' = [run EXCEPT ![r].aborted = TRUE] /\ UNCHANGED <<harness, report>>
        /\ file' = [file EXCEPT ![r] = "cancelled"] \/ file' = file
    BY <2>1, <2>2 DEF CancelReview, Idle, worldVars
  <2>5. \A q \in Requests : run'[q].commits = run[q].commits
    BY <2>3, <2>4 DEF Run
  <2>6. \A q \in 1..issued : q \in Requests
    BY BoundsAssumption DEF Requests
  <2>. QED
    BY <1>1, <2>3, <2>4, <2>5, <2>6
<1>6. CASE Crash
  <2>1. \A q \in Requests : run'[q].commits = run[q].commits
    BY <1>6 DEF Crash, Run
  <2>2. \A q \in 1..issued : q \in Requests
    BY BoundsAssumption DEF Requests
  <2>. QED
    BY <1>1, <1>6, <2>1, <2>2 DEF Crash, worldVars
<1>7. CASE \E r \in Requests : WriteReport(r)
  BY <1>1, <1>7 DEF WriteReport, runVars, worldVars
<1>8. CASE \E byHarness \in BOOLEAN : Commit(byHarness)
  BY <1>1, <1>8 DEF Commit, runVars
<1>. QED
  BY <1>2, <1>3, <1>4, <1>5, <1>6, <1>7, <1>8, ChoicesAssumption DEF Next, RequestGate, UserStep

(* Only a request starts to show a running gate, with a number of its own. *)
OldOrNew(h) ==
  \/ gate[h].status = "running" /\ gate'[h].request = gate[h].request
  \/ /\ \E force \in BOOLEAN : RequestReview(h, force)
     /\ gate'[h].request = issued + 1

LEMMA RunningIsOldOrNew ==
  ASSUME GInv, [Next]_vars, NEW h \in Gates, gate'[h].status = "running"
  PROVE  OldOrNew(h)
<1>. USE ChoicesAssumption
<1>1. OnlyWithdraws => gate[h].status = "running" /\ gate'[h].request = gate[h].request
  BY DEF OnlyWithdraws, IndexLoses
<1>2. ASSUME NEW g \in Gates, RequestGate(g), ~OnlyWithdraws
      PROVE  g = h /\ (\E force \in BOOLEAN : RequestReview(h, force)) /\ gate'[h].request = issued + 1
  BY <1>2, RequestsKeep, ReviewKeeps DEF RequestGate, Opens
<1>3. ASSUME NEW r \in Requests, RunStep(r), ~OnlyWithdraws
      PROVE  gate[h].status = "running" /\ gate'[h].request = gate[h].request
  BY <1>3, RunStartsKeeps, RunWaitsKeeps, OutcomeKeeps, CallbackKeeps DEF RunStep, Decides, IndexLoses
<1>4. ASSUME NEW g \in Gates, UserStep(g) PROVE OnlyWithdraws
  BY <1>4, CancelKeeps, ExceptKeeps, SettingsKeep DEF UserStep
<1>5. CASE \/ \E r \in Requests : WriteReport(r)
           \/ \E g \in Gates : EditArtifact(g)
           \/ \E byHarness \in BOOLEAN : Commit(byHarness)
           \/ UNCHANGED vars
  BY <1>5 DEF OldOrNew, WriteReport, EditArtifact, Commit, indexVars, vars
<1>6. CASE \E g \in Used : RequestGate(g)
  BY <1>1, <1>2, <1>6 DEF OldOrNew
<1>7. CASE \E r \in Requests : RunStep(r)
  BY <1>1, <1>3, <1>7 DEF OldOrNew
<1>8. CASE Crash \/ Recover \/ \E g \in Gates : UserStep(g)
  BY <1>1, <1>4, <1>8, StopsKeep DEF OldOrNew
<1>. QED
  BY <1>5, <1>6, <1>7, <1>8 DEF Next

LEMMA SettingsStay ==
  ASSUME GInv, SameSettings, Diff \notin Toggled, [Next]_vars
  PROVE  SameSettings'
<1>. USE DEF SameSettings
<1>1. Diff \in required' <=> Diff \in required
  <2>1. CASE \E g \in Gates : UpdateSettings(g) \/ SettingsElsewhere(g)
    <3>1. PICK g \in Gates : UpdateSettings(g) \/ SettingsElsewhere(g)
      BY <2>1
    <3>2. g # Diff /\ required' \in {required \ {g}, required \cup {g}}
      BY <3>1 DEF UpdateSettings, SettingsElsewhere
    <3>. QED
      BY <3>2
  <2>2. CASE required' = required
    BY <2>2
  <2>3. CASE \E g \in Used : RequestGate(g)
    BY <2>2, <2>3 DEF RequestGate, RequestExempt, RequestUnready, RequestWithoutInput,
       RequestAlreadyApproved, RequestWithoutCommits, RequestUntested, RequestReview, EndsWith,
       Answered
  <2>4. CASE \E r \in Requests : RunStep(r)
    BY <2>2, <2>4 DEF RunStep, RunStarts, RunPrompts, RunReadsReport, RunCompletes, RunFails,
       RunCallsPM, Idle
  <2>. QED
    BY <2>1, <2>2, <2>3, <2>4, Zenon DEF Next, UserStep, CancelReview, Except, Idle, Answered,
       WriteReport, EditArtifact, Commit, Crash, Recover, vars
<1>2. ASSUME NEW q \in Requests, run'[q].step \notin {"none", "ended"}
      PROVE  \/ run[q].step \notin {"none", "ended"} /\ run'[q].config = run[q].config
             \/ run'[q].config = required
  <2>. USE DEF GInv, TypeOK
  <2>1. CASE run' = run
    BY <1>2, <2>1
  <2>2. CASE \E g \in Gates, force \in BOOLEAN : RequestReview(g, force)
    BY <1>2, <2>2 DEF RequestReview
  <2>3. CASE \E r \in Requests : RunStep(r)
    <3>1. PICK r \in Requests : RunStep(r)
      BY <2>3
    <3>2. /\ run[r].step \notin {"none", "ended"}
          /\ \E s \in Steps : GoTo(r, s)
      BY <3>1 DEF RunStep, RunStarts, RunPrompts, RunReadsReport, RunCompletes, RunFails,
         RunCallsPM, StaleResult, Steps, At
    <3>. QED
      BY <1>2, <3>2 DEF GoTo, Run
  <2>4. CASE \E g \in Gates : CancelReview(g)
    BY <1>2, <2>4 DEF CancelReview, Run
  <2>5. CASE Crash
    BY <1>2, <2>5 DEF Crash, Run
  <2>. QED
    BY <2>1, <2>2, <2>3, <2>4, <2>5, ChoicesAssumption, Zenon DEF Next, RequestGate, UserStep,
       RequestExempt, RequestUnready, RequestWithoutInput, RequestAlreadyApproved,
       RequestWithoutCommits, RequestUntested, EndsWith, Answered, Except, UpdateSettings,
       SettingsElsewhere, WriteReport, EditArtifact, Commit, Recover, runVars, vars
<1>. QED
  BY <1>1, <1>2

LEMMA FilesStayOpen ==
  ASSUME GInv, OpenFiles, [Next]_vars
  PROVE  OpenFiles'
<1>. USE DEF GInv, TypeOK
<1>1. ASSUME NEW q \in Requests,
             \/ run[q].step \in LiveSteps
             \/ \E g \in Gates : gate[g].status = "running" /\ gate[g].request = q,
             \/ run'[q].step \in LiveSteps
             \/ \E g \in Gates : gate'[g].status = "running" /\ gate[g].status = "running"
                                 /\ gate'[g].request = q /\ gate[g].request = q
      PROVE  file'[q] # "completed"
  <2>1. file[q] # "completed"
    BY <1>1 DEF OpenFiles
  <2>2. CASE file' = file
    BY <2>1, <2>2
  <2>3. CASE \E g \in Gates, force \in BOOLEAN : RequestReview(g, force)
    BY <2>1, <2>3 DEF RequestReview
  <2>4. CASE \E r \in Requests : RunStep(r)
    <3>1. PICK r \in Requests : RunStep(r)
      BY <2>4
    <3>2. CASE RunCompletes(r) /\ IsCurrent(r)
      <4>1. q # r
        <5>1. run'[r].step = "calling"
          BY <3>2 DEF RunCompletes, GoTo, Run
        <5>2. /\ run[r].gate \in Gates /\ run[r].config \in SUBSET Gates /\ report[r] # "none"
              /\ \A h \in Gates : gate[h].status = "running" => h = run[r].gate
          BY <3>2, Current DEF RunCompletes, At, Captured
        <5>3. gate'[run[r].gate].status # "running"
          <6>. DEFINE rec == [Loaded(run[r].config)[run[r].gate] EXCEPT
                       !.status = "completed", !.decision = report[r], !.callback = "not_sent"]
          <6>1. Loaded(run[r].config) \in [Gates -> Record]
            BY <5>2, LoadedIsTyped
          <6>2. rec.status = "completed"
            BY <5>2, <6>1 DEF Record
          <6>3. gate' = [Loaded(run[r].config) EXCEPT ![run[r].gate] = rec]
            BY <3>2 DEF RunCompletes, Save
          <6>. QED
            BY <5>2, <6>1, <6>2, <6>3
        <5>. QED
          BY <1>1, <5>1, <5>2, <5>3 DEF LiveSteps
      <4>. QED
        BY <2>1, <3>2, <4>1 DEF RunCompletes
    <3>3. CASE ~(RunCompletes(r) /\ IsCurrent(r))
      BY <2>1, <3>1, <3>3 DEF RunStep, RunStarts, RunPrompts, RunReadsReport, RunCompletes,
         RunFails, RunCallsPM, StaleResult
    <3>. QED
      BY <3>2, <3>3
  <2>5. CASE \E g \in Gates : CancelReview(g)
    BY <2>1, <2>5 DEF CancelReview
  <2>. QED
    BY <2>2, <2>3, <2>4, <2>5, ChoicesAssumption, Zenon DEF Next, RequestGate, UserStep,
       RequestExempt, RequestUnready, RequestWithoutInput, RequestAlreadyApproved,
       RequestWithoutCommits, RequestUntested, EndsWith, Answered, Except, UpdateSettings,
       SettingsElsewhere, WriteReport, EditArtifact, Commit, Recover, Crash, runVars, vars
<1>2. \A g \in Gates, force \in BOOLEAN : RequestReview(g, force) =>
        issued + 1 \in Requests /\ file'[issued + 1] = "requested"
        /\ \A q \in Requests : q # issued + 1 => run'[q] = run[q]
  BY BoundsAssumption DEF RequestReview, Requests
<1>3. ASSUME NEW q \in Requests, run'[q].step \in LiveSteps, run[q].step \notin LiveSteps
      PROVE  \E g \in Gates, force \in BOOLEAN : RequestReview(g, force) /\ q = issued + 1
  <2>1. CASE \E r \in Requests : RunStep(r)
    <3>1. PICK r \in Requests : RunStep(r)
      BY <2>1
    <3>2. \/ run[r].step \in LiveSteps /\ \E s \in Steps : GoTo(r, s)
          \/ GoTo(r, "ended")
      BY <3>1 DEF RunStep, RunStarts, RunPrompts, RunReadsReport, RunCompletes, RunFails,
         RunCallsPM, StaleResult, Steps, At, LiveSteps
    <3>. QED
      BY <1>3, <3>2 DEF GoTo, Run, LiveSteps
  <2>2. CASE \E g \in Gates : CancelReview(g)
    BY <1>3, <2>2 DEF CancelReview, Run
  <2>3. CASE Crash
    BY <1>3, <2>3 DEF Crash, Run, LiveSteps
  <2>4. CASE \E g \in Gates, force \in BOOLEAN : RequestReview(g, force)
    BY <1>2, <1>3, <2>4
  <2>5. CASE run' = run
    BY <1>3, <2>5
  <2>. QED
    BY <2>1, <2>2, <2>3, <2>4, <2>5, ChoicesAssumption, Zenon DEF Next, RequestGate, UserStep,
       RequestExempt, RequestUnready, RequestWithoutInput, RequestAlreadyApproved,
       RequestWithoutCommits, RequestUntested, EndsWith, Answered, Except, UpdateSettings,
       SettingsElsewhere, WriteReport, EditArtifact, Commit, Recover, runVars, vars
<1>4. ASSUME NEW q \in Requests, run'[q].step \in LiveSteps PROVE file'[q] # "completed"
  BY <1>1, <1>2, <1>3, <1>4
<1>5. ASSUME NEW g \in Gates, gate'[g].status = "running" PROVE file'[gate'[g].request] # "completed"
  <2>1. CASE gate[g].status = "running" /\ gate'[g].request = gate[g].request
    <3>1. gate[g].request \in Requests
      BY <2>1, BoundsAssumption DEF Owned, Requests
    <3>. QED
      BY <1>1, <1>5, <2>1, <3>1
  <2>2. CASE (\E force \in BOOLEAN : RequestReview(g, force)) /\ gate'[g].request = issued + 1
    BY <1>2, <2>2
  <2>. QED
    BY <1>5, <2>1, <2>2, RunningIsOldOrNew DEF OldOrNew
<1>. QED
  BY <1>4, <1>5 DEF OpenFiles

(* What is covered is told by the status, the range and the verdict of a   *)
(* record alone; a record that is exempted or waits covers nothing.        *)
LEMMA CoversSame ==
  ASSUME NEW A, NEW H, NEW R, NEW d, NEW e, Covers(d, A, H, R), e.status = d.status,
         e.base = d.base, e.head = d.head, e.request = d.request, e.decision = d.decision
  PROVE  Covers(e, A, H, R)
BY DEF Covers, CodeOf, Decided

LEMMA CoversQuiet ==
  ASSUME NEW A, NEW H, NEW R, NEW e,
         e.status \notin {"running", "completed", "failed", "not_required"},
         Diff \notin FirstRequired => e.head = NoCommit
  PROVE  Covers(e, A, H, R)
BY DEF Covers, Decided

LEMMA SavedElsewhere ==
  ASSUME TypeOK, NEW config, NEW g \in Gates, NEW record, Save(config, g, record)
  PROVE  /\ g # Diff => gate'[Diff] = Loaded(config)[Diff]
         /\ gate'[g] = record
BY DEF Save, Loaded, Gates

LEMMA RequestsCover ==
  ASSUME CoverInv, Grows, NEW g \in Gates, RequestGate(g)
  PROVE  Covers(gate'[Diff], Approved', harness', run')
<1>. USE RequiredIsTyped DEF CoverInv
<1>1. /\ Covers(gate[Diff], Approved', harness', run')
      /\ Covers(Loaded(required)[Diff], Approved', harness', run')
  BY CoversStays, CoversLoaded DEF GInv, SameSettings
<1>2. Loaded(required)[Diff] \in Record /\ TypeOK
  BY DEF GInv, Gates
<1>3. CASE RequestAlreadyApproved(g)
  BY <1>1, <1>3 DEF RequestAlreadyApproved, indexVars
<1>4. CASE \E record : Save(required, g, record) /\ g # Diff
  BY <1>1, <1>2, <1>4, SavedElsewhere
<1>5. CASE RequestExempt(g) /\ g = Diff
  <2>. DEFINE rec == [Loaded(required)[Diff] EXCEPT !.decision = "none"]
  <2>1. gate'[Diff] = rec /\ Diff \notin FirstRequired
    BY <1>2, <1>5, SavedElsewhere DEF RequestExempt, SameSettings
  <2>2. rec.status = Loaded(required)[Diff].status /\ rec.head = Loaded(required)[Diff].head
    BY <1>2 DEF Record
  <2>. HIDE DEF rec
  <2>. QED
    BY <1>1, <2>1, <2>2 DEF Covers, Decided
<1>6. ASSUME NEW status \in {"failed", "not_required"}, NEW base, NEW last,
             EndsWith(Diff, status, base, last), Diff \in FirstRequired,
             status = "failed" /\ base # NoCommit => CodeUpTo(base, harness) \subseteq Approved,
             status = "not_required" /\ last # NoCommit => CodeUpTo(last, harness) \subseteq Approved
      PROVE  Covers(gate'[Diff], Approved', harness', run')
  <2>. DEFINE rec == [Blank EXCEPT !.status = status, !.base = base, !.head = last]
  <2>1. gate'[Diff] = rec
    BY <1>2, <1>6, SavedElsewhere DEF EndsWith, Gates
  <2>2. rec.status = status /\ rec.base = base /\ rec.head = last
    BY DEF Blank
  <2>3. \A k : CodeUpTo(k, harness) \subseteq Approved => CodeUpTo(k, harness') \subseteq Approved'
    BY DEF Grows, CodeUpTo
  <2>. HIDE DEF rec
  <2>. QED
    BY <1>6, <2>1, <2>2, <2>3 DEF Covers, Decided
<1>7. CASE RequestUnready(g) /\ g = Diff
  BY <1>6, <1>7 DEF RequestUnready, Requestable, SameSettings
<1>. DEFINE base == DiffBase(Loaded(required)[Diff])
<1>8. Diff \in required => base # NoCommit /\ CodeUpTo(base, harness) \subseteq Approved
  BY BaseIsCovered
<1>9. base \in Nat /\ head \in Nat /\ \A c \in Commits : c \in Nat
  BY <1>2, InputsAreTyped, BoundsAssumption DEF GInv, TypeOK, MaybeCommit, NoCommit, Commits, Gates
<1>10. DiffCommits(Loaded(required)[Diff]) = { c \in Commits : base < c /\ c <= head } \ harness
  BY DEF DiffCommits
<1>. HIDE DEF base
<1>11. CASE RequestWithoutCommits /\ g = Diff
  <2>1. Diff \in required /\ DiffCommits(Loaded(required)[Diff]) = {}
        /\ \/ EndsWith(Diff, "not_required", NoCommit, NoCommit)
           \/ EndsWith(Diff, "not_required", base, head)
    BY <1>11 DEF RequestWithoutCommits, Requestable, base
  <2>2. CodeUpTo(head, harness) \subseteq Approved
    BY <1>8, <1>9, <1>10, <2>1 DEF CodeUpTo
  <2>. QED
    BY <1>6, <2>1, <2>2 DEF SameSettings
<1>12. CASE RequestUntested /\ g = Diff
  <2>1. Diff \in required /\ EndsWith(Diff, "failed", base, head)
    BY <1>12 DEF RequestUntested, Requestable, base
  <2>. QED
    BY <1>6, <1>8, <2>1 DEF SameSettings
<1>13. CASE (\E force \in BOOLEAN : RequestReview(g, force)) /\ g = Diff
  <2>. DEFINE commits == DiffCommits(Loaded(required)[Diff])
              rec == [Blank EXCEPT !.status = "running", !.request = issued + 1,
                             !.hash = InputHash(Diff, commits), !.base = base, !.head = head]
              new == [step |-> "spawned", gate |-> Diff, config |-> required,
                      commits |-> commits, aborted |-> FALSE]
  <2>1. /\ Save(required, Diff, rec) /\ run' = [run EXCEPT ![issued + 1] = new]
        /\ issued + 1 \in Requests /\ Diff \in required /\ harness' = harness
    BY <1>2, <1>13, BoundsAssumption DEF RequestReview, Reviewable, Requestable, TypeOK, Requests,
       worldVars, base
  <2>2. gate'[Diff] = rec /\ run'[issued + 1].commits = commits
    BY <1>2, <2>1, SavedElsewhere DEF TypeOK, Gates
  <2>3. rec.status = "running" /\ rec.request = issued + 1 /\ rec.base = base /\ rec.head = head
    BY DEF Blank
  <2>4. CodeUpTo(base, harness) \subseteq Approved' /\ base # NoCommit
    BY <1>8, <2>1 DEF Grows
  <2>5. CodeOf(rec, harness) \subseteq commits
    BY <1>10, <2>3 DEF CodeOf
  <2>. HIDE DEF rec, commits
  <2>. QED
    BY <2>1, <2>2, <2>3, <2>4, <2>5 DEF Covers, Decided, SameSettings
<1>14. RequestExempt(g) \/ RequestUnready(g) \/ RequestWithoutInput(g) => \E record : Save(required, g, record)
  BY DEF RequestExempt, RequestUnready, RequestWithoutInput, EndsWith
<1>15. (\E force \in BOOLEAN : RequestReview(g, force)) => \E record : Save(required, g, record)
  BY DEF RequestReview
<1>16. RequestWithoutInput(g) => g # Diff
  BY DEF RequestWithoutInput
<1>. QED
  BY <1>3, <1>4, <1>5, <1>7, <1>11, <1>12, <1>13, <1>14, <1>15, <1>16 DEF RequestGate

(* The review of a range approves it: with the approved code below its     *)
(* base, everything up to its head is approved.                            *)
LEMMA RunsCover ==
  ASSUME CoverInv, Grows, NEW r \in Requests, RunStep(r)
  PROVE  Covers(gate'[Diff], Approved', harness', run')
<1>. USE DEF CoverInv
<1>. DEFINE g == run[r].gate
            config == run[r].config
            shown == Loaded(config)[g]
<1>1. TypeOK /\ Covers(gate[Diff], Approved', harness', run')
  BY CoversStays DEF GInv
<1>2. CASE UNCHANGED indexVars
  BY <1>1, <1>2 DEF indexVars
<1>3. ASSUME ~UNCHANGED indexVars
      PROVE  /\ run[r].step \in LiveSteps => IsCurrent(r)
             /\ run[r].step \notin {"none", "ended"}
             /\ \E record : Save(config, g, record)
  BY <1>3 DEF RunStep, RunStarts, RunPrompts, RunReadsReport, RunCompletes, RunFails, RunCallsPM,
     StaleResult, At, LiveSteps
<1>4. ASSUME ~UNCHANGED indexVars
      PROVE  /\ g \in Gates /\ config \in SUBSET Gates /\ shown \in Record
             /\ Covers(Loaded(config)[Diff], Approved', harness', run')
  <2>1. g \in Gates /\ config \in SUBSET Gates
    BY <1>3, <1>4, RequiredIsTyped DEF GInv, Captured
  <2>2. Diff \in config <=> Diff \in FirstRequired
    BY <1>3, <1>4 DEF SameSettings
  <2>. QED
    BY <1>1, <2>1, <2>2, CoversLoaded, LoadedIsTyped
<1>5. CASE ~UNCHANGED indexVars /\ g # Diff
  BY <1>1, <1>3, <1>4, <1>5, SavedElsewhere
<1>6. CASE RunStarts(r) /\ g = Diff /\ ~UNCHANGED indexVars
  BY <1>1, <1>4, <1>6, SavedElsewhere DEF RunStarts
<1>7. CASE RunCompletes(r) /\ g = Diff /\ ~UNCHANGED indexVars
  <2>. DEFINE rec == [shown EXCEPT !.status = "completed", !.decision = report[r],
                                   !.callback = "not_sent"]
  <2>1. gate'[Diff] = rec /\ IsCurrent(r)
    BY <1>1, <1>4, <1>7, SavedElsewhere DEF RunCompletes, StaleResult
  <2>2. /\ rec.status = "completed" /\ rec.decision = report[r]
        /\ rec.base = shown.base /\ rec.head = shown.head
    <3>1. shown \in Record
      BY <1>4, <1>7
    <3>. HIDE DEF shown
    <3>. QED
      BY <3>1 DEF Record
  <2>3. shown.status = "running" /\ shown.request = r
    BY <2>1, Zenon DEF IsCurrent
  <2>4. /\ Diff \in FirstRequired /\ shown.base # NoCommit
        /\ CodeUpTo(shown.base, harness') \subseteq Approved'
        /\ CodeOf(shown, harness') \subseteq run'[r].commits
    BY <1>4, <1>7, <2>3 DEF Covers
  <2>5. report[r] = "approve" => run'[r].commits \subseteq Approved'
    BY <1>1, <1>7, <2>1 DEF RunCompletes, Idle, Approved, TypeOK
  <2>6. shown.base \in Nat /\ shown.head \in Nat /\ \A c \in Commits : c \in Nat
    BY <1>4, <1>7, BoundsAssumption DEF Record, MaybeCommit, NoCommit, Commits
  <2>7. report[r] = "approve" => CodeUpTo(shown.head, harness') \subseteq Approved'
    BY <2>4, <2>5, <2>6 DEF CodeUpTo, CodeOf
  <2>. HIDE DEF rec, shown
  <2>. QED
    BY <2>1, <2>2, <2>4, <2>7 DEF Covers, Decided
<1>8. CASE RunFails(r) /\ g = Diff /\ ~UNCHANGED indexVars
  <2>. DEFINE rec == [shown EXCEPT !.status = "failed", !.callback = "not_sent"]
  <2>1. gate'[Diff] = rec /\ IsCurrent(r)
    <3>1. IsCurrent(r)
      BY <1>8, Zenon DEF RunFails, StaleResult
    <3>2. Save(config, g, rec)
      BY <1>8, <3>1, Zenon DEF RunFails
    <3>. QED
      BY <1>1, <1>4, <1>8, <3>1, <3>2, SavedElsewhere
  <2>2. rec.status = "failed" /\ rec.base = shown.base
    BY <1>4, <1>8 DEF Record
  <2>3. shown.status = "running"
    BY <2>1 DEF IsCurrent
  <2>4. Diff \in FirstRequired /\ CodeUpTo(shown.base, harness') \subseteq Approved'
    BY <1>4, <1>8, <2>3 DEF Covers
  <2>. HIDE DEF rec, shown
  <2>. QED
    BY <2>1, <2>2, <2>4 DEF Covers, Decided
<1>9. CASE RunCallsPM(r) /\ g = Diff /\ ~UNCHANGED indexVars
  <2>. DEFINE rec == [shown EXCEPT !.callback = "called"]
  <2>1. gate'[Diff] = rec
    BY <1>1, <1>4, <1>9, SavedElsewhere DEF RunCallsPM
  <2>2. /\ rec.status = shown.status /\ rec.base = shown.base /\ rec.head = shown.head
        /\ rec.request = shown.request /\ rec.decision = shown.decision
    BY <1>4, <1>9 DEF Record
  <2>3. Covers(shown, Approved', harness', run')
    BY <1>4, <1>9
  <2>. HIDE DEF rec, shown
  <2>. QED
    BY <2>1, <2>2, <2>3, CoversSame
<1>10. RunPrompts(r) \/ RunReadsReport(r) => UNCHANGED indexVars
  BY DEF RunPrompts, RunReadsReport
<1>. QED
  BY <1>2, <1>5, <1>6, <1>7, <1>8, <1>9, <1>10 DEF RunStep

LEMMA UserCovers ==
  ASSUME CoverInv, Grows, Diff \notin Toggled, NEW g \in Gates, UserStep(g)
  PROVE  Covers(gate'[Diff], Approved', harness', run')
<1>. USE RequiredIsTyped DEF CoverInv
<1>1. /\ TypeOK /\ Covers(gate[Diff], Approved', harness', run')
      /\ Covers(Loaded(required)[Diff], Approved', harness', run')
  BY CoversStays, CoversLoaded DEF GInv, SameSettings
<1>2. Loaded(required)[Diff] \in Record
  BY DEF GInv, Gates
<1>3. CASE UNCHANGED indexVars
  BY <1>1, <1>3 DEF indexVars
<1>4. CASE g # Diff /\ \E record : Save(required, g, record)
  BY <1>1, <1>4, SavedElsewhere
<1>5. CASE g = Diff /\ CancelReview(g) /\ ~UNCHANGED indexVars
  <2>1. gate'[Diff] = Blank
    BY <1>1, <1>5, SavedElsewhere DEF CancelReview
  <2>2. Blank.status = "pending" /\ Blank.head = NoCommit
    BY DEF Blank
  <2>. QED
    BY <2>1, <2>2, CoversQuiet
<1>6. CASE g = Diff /\ Except(g)
  <2>. DEFINE old == Loaded(required)[Diff]
              rec(st) == [old EXCEPT !.status = st, !.callback = "called",
                                     !.decision = IF st = "overridden" THEN "approve" ELSE "none"]
  <2>1. PICK st \in {"skipped", "overridden"} :
          Save(required, g, [Loaded(required)[g] EXCEPT
              !.status = st, !.callback = "called",
              !.decision = IF st = "overridden" THEN "approve" ELSE "none",
              !.hash = IF g = Diff THEN @ ELSE InputHash(g, {})])
    BY <1>6, ChoicesAssumption DEF Except
  <2>2. gate'[Diff] = [Loaded(required)[g] EXCEPT
              !.status = st, !.callback = "called",
              !.decision = IF st = "overridden" THEN "approve" ELSE "none",
              !.hash = IF g = Diff THEN @ ELSE InputHash(g, {})]
    BY <1>1, <1>6, <2>1, SavedElsewhere
  <2>3. gate'[Diff].status = st /\ gate'[Diff].head = Loaded(required)[Diff].head
    BY <1>2, <1>6, <2>2 DEF Record
  <2>. QED
    BY <1>1, <2>3, CoversQuiet DEF Covers
<1>7. CASE UpdateSettings(g)
  <2>1. PICK config \in SUBSET Gates : /\ config \in {required \ {g}, required \cup {g}}
                                       /\ gate' = Loaded(config)
    BY <1>7 DEF UpdateSettings, GInv, TypeOK
  <2>2. Diff \in config <=> Diff \in FirstRequired
    BY <1>7, <2>1 DEF UpdateSettings, SameSettings
  <2>. QED
    BY <1>1, <2>1, <2>2, CoversLoaded
<1>8. CASE SettingsElsewhere(g)
  BY <1>3, <1>8 DEF SettingsElsewhere
<1>9. Except(g) \/ (CancelReview(g) /\ ~UNCHANGED indexVars) => \E record : Save(required, g, record)
  BY DEF Except, CancelReview
<1>. QED
  BY <1>3, <1>4, <1>5, <1>6, <1>7, <1>8, <1>9 DEF UserStep

LEMMA CoverStep ==
  ASSUME CoverInv, Diff \notin Toggled, [Next]_vars
  PROVE  CoverInv'
<1>. USE DEF CoverInv
<1>1. GInv' /\ OpenFiles' /\ SameSettings'
  BY StepHolds, FilesStayOpen, SettingsStay
<1>2. Grows /\ Covers(gate[Diff], Approved', harness', run')
  BY ApprovedGrows, CoversStays
<1>. SUFFICES Covers(gate'[Diff], Approved', harness', run')
  BY <1>1
<1>3. CASE UNCHANGED gate
  BY <1>2, <1>3
<1>4. CASE Recover
  <2>1. gate[Diff] \in Record /\ gate'[Diff] = IF gate[Diff].status = "running"
                              THEN [gate[Diff] EXCEPT !.status = "pending"] ELSE gate[Diff]
    BY <1>4 DEF Recover, GInv, TypeOK, Gates
  <2>2. CASE gate[Diff].status = "running"
    <3>1. gate'[Diff].status = "pending" /\ Diff \in FirstRequired
      BY <1>2, <2>1, <2>2 DEF Record, Covers
    <3>. QED
      BY <3>1, CoversQuiet
  <2>3. CASE gate[Diff].status # "running"
    BY <1>2, <2>1, <2>3
  <2>. QED
    BY <2>2, <2>3
<1>5. CASE \E g \in Used : RequestGate(g)
  BY <1>2, <1>5, RequestsCover, ChoicesAssumption
<1>6. CASE \E g \in Gates : UserStep(g)
  BY <1>2, <1>6, UserCovers
<1>7. CASE \E r \in Requests : RunStep(r)
  BY <1>2, <1>7, RunsCover
<1>. QED
  BY <1>3, <1>4, <1>5, <1>6, <1>7 DEF Next, WriteReport, EditArtifact, Commit, Crash, indexVars, vars

(* An approval shown for code-diff covers the task's code up to its head:  *)
(* ranges that were rejected, failed, cancelled, overtaken or only waiting *)
(* for their validation are reviewed again before it, with any number of   *)
(* commits, crashes, reconnects and exceptions.  The requirement of        *)
(* code-diff itself stays as it is: switched off, the gate is shown as not *)
(* required with the range it had, and when it is required again the next  *)
(* range starts at the head of that one, reviewed or not.                  *)
THEOREM ApprovalsCoverCode ==
  ASSUME Diff \notin Toggled
  PROVE  Spec => []ApprovalCoversCode
<1>1. Init => CoverInv
  <2>. SUFFICES ASSUME Init PROVE CoverInv
    OBVIOUS
  <2>1. GInv
    BY InitHolds
  <2>2. \A g \in Gates : gate[g].status = "disabled" /\ gate[g].head = NoCommit
    BY DEF Init, Blank
  <2>3. OpenFiles /\ SameSettings
    BY <2>2 DEF Init, OpenFiles, SameSettings, NoRun, LiveSteps
  <2>4. Covers(gate[Diff], Approved, harness, run)
    BY <2>2, CoversQuiet DEF Gates
  <2>. QED
    BY <2>1, <2>3, <2>4 DEF CoverInv
<1>2. CoverInv /\ [Next]_vars => CoverInv'
  BY CoverStep
<1>3. CoverInv => ApprovalCoversCode
  BY DEF CoverInv, Covers, CodeUpTo, ApprovalCoversCode
<1>. QED
  BY <1>1, <1>2, <1>3, PTL DEF Spec
=============================================================================
