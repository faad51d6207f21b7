-------------------------- MODULE TranslationQueue --------------------------
(***************************************************************************)
(* Translation of one role's replies.  The panel (translation-service)     *)
(* batches replies, runs one batch at a time per session and waits for     *)
(* each text by polling; the worker (translation-worker-service) keeps one *)
(* queue file for the project, hands its head to the Translator's terminal *)
(* and finalizes it at the Translator's Stop or when a poll finds its      *)
(* results.                                                                *)
(*                                                                         *)
(* A read and write of the queue file that no launch, terminal submission  *)
(* or poll interval interrupts takes milliseconds and is one step.  A      *)
(* reply, a composer input or a file is a number; its words, its paths and *)
(* the target language (one for all) are left out.                         *)
(***************************************************************************)
EXTENDS Integers, Sequences, FiniteSets, KeptItems

CONSTANTS
  Replies,      \* texts of the role's transcript, shown in the panel
  Batched,      \* replies translated with the batch timer (not the last of a turn)
  Held,         \* replies shown as they are until the Round stops
  Inputs,       \* texts the user types in the composer or on the phone
  Tools,        \* kinds of tool jobs users create: "file", "bootstrap", "memory-update"
  MaxAsked,     \* translations and tool jobs asked for, a retry included
  MaxClears,    \* times the session's panel is cleared or stopped
  MaxFaults     \* exits, failed launches, lost hooks and backend restarts

Texts == Replies \cup Inputs

ASSUME TranslationAssumption ==
  /\ Replies \subseteq Nat /\ Batched \cup Held \subseteq Replies /\ Batched \cap Held = {}
  /\ Replies \cap Inputs = {}
  /\ Tools \subseteq {"file", "bootstrap", "memory-update"}
  /\ {MaxAsked, MaxClears, MaxFaults} \subseteq Nat

VARIABLES
  queue,        \* queue.json: [items, active]; active = 0 when no item is
  drafts,       \* jobs whose output file exists without being complete
  results,      \* jobs whose outputs are complete
  translator,   \* [life, input, turn]: the prompts typed and the one at work
  dispatches,   \* dispatchNext calls between the save and the end of the submission
  entries,      \* panel entry of each text
  pending,      \* outputBatch: the texts that wait for the flush timer
  tasks,        \* serial-queue tasks, oldest first
  chain,        \* serial queue new tasks join
  jobs,         \* jobs created
  asked, faults \* what the bounds count

vars == <<queue, drafts, results, translator, dispatches, entries, pending, tasks,
          chain, jobs, asked, faults>>
panel == <<entries, pending, tasks, chain, asked>>
worker == <<queue, dispatches>>
output == <<drafts, results>>

Idle == <<>>            \* no prompt: the Translator waits for input
InFlight == {"dispatching", "running", "validating"}
Final == {"completed", "failed"}
NoQueue == [items |-> <<>>, active |-> 0]

Init ==
  /\ queue = NoQueue /\ drafts = {} /\ results = {} /\ dispatches = {}
  /\ translator = [life |-> "none", input |-> <<>>, turn |-> Idle]
  /\ entries = [t \in Texts |-> "none"]
  /\ pending = <<>> /\ tasks = <<>> /\ chain = 1
  /\ jobs = 0 /\ asked = 0 /\ faults = 0

-----------------------------------------------------------------------------
(* The queue file                                                          *)

ItemsOf(q) == {q.items[i] : i \in DOMAIN q.items}
ItemOf(q, j) == CHOOSE item \in ItemsOf(q) : item.job = j
InQueue(q, j) == \E item \in ItemsOf(q) : item.job = j

\* The queue with every item that "which" selects changed by "to".
Changed(q, Which(_), To(_)) ==
  [q EXCEPT !.items = [i \in DOMAIN @ |-> IF Which(@[i]) THEN To(@[i]) ELSE @[i]]]

NewItem(j, kind) == [job |-> j, kind |-> kind, status |-> "queued", batch |-> 0]
Enqueued(q, new) == [q EXCEPT !.items = @ \o new]

\* Mutant: the cleanup also removes completed texts nobody has read.
PrunableUnread(item) == item.status = "completed"
Prunable(item) == item.status = "completed" /\ item.kind # "conversation"

Pruned(q) ==
  LET kept == Kept(q.items, {i \in DOMAIN q.items : ~Prunable(q.items[i])})
  IN [items |-> kept,
      active |-> IF \E i \in DOMAIN kept : kept[i].job = q.active THEN q.active ELSE 0]

SameBatch(active, item) ==
  item.kind = "conversation" /\ item.batch = active.batch /\ item.status \in InFlight

\* The report a bootstrap is judged by is written when the bootstrap is created.
OutputExists(item) == item.kind = "bootstrap" \/ item.job \in drafts \cup results

ResultAvailable(q, active) ==
  CASE active.kind = "conversation" ->
         \A item \in ItemsOf(q) : SameBatch(active, item) => item.job \in results
    [] active.kind = "memory-update" -> FALSE
    [] OTHER -> OutputExists(active)

Valid(item) == item.job \in results \/ item.kind = "bootstrap"

\* Mutant: only the leader of a batch becomes final.
ValidatedAlone(q) ==
  [Changed(q, LAMBDA item : item.job = q.active,
              LAMBDA item : [item EXCEPT !.status = IF Valid(item) THEN "completed" ELSE "failed"])
     EXCEPT !.active = 0]

\* Every item of the active batch, or the active item alone, becomes final.
Validated(q) ==
  IF ~InQueue(q, q.active) THEN q
  ELSE LET active == ItemOf(q, q.active)
           Judged(item) == IF active.kind = "conversation" THEN SameBatch(active, item)
                                                           ELSE item = active
           Verdict(item) == [item EXCEPT !.status = IF Valid(item) THEN "completed" ELSE "failed"]
           judged == [Changed(q, Judged, Verdict) EXCEPT !.active = 0]
       IN [judged EXCEPT !.items =
             Kept(@, {i \in DOMAIN @ : ~(@[i].job = active.job /\ Prunable(@[i]))})]

Settled == translator.life # "live"

\* An active item is finalized when its results are there, or when it was
\* running in a Translator that is gone; otherwise the head is held.
Stuck(q, active) ==
  \/ ResultAvailable(q, active)
  \/ active.status # "dispatching" /\ Settled

Holds(q) ==
  InQueue(q, q.active) /\ ItemOf(q, q.active).status \in InFlight /\ ~Stuck(q, ItemOf(q, q.active))

Reconciled(q) == IF Holds(q) THEN q ELSE Validated(q)

\* The conversation items that go with the leader in one prompt.
BatchOf(q, first) ==
  LET Joins(i) == \A n \in first..i : q.items[n].kind = "conversation" /\ q.items[n].status = "queued"
  IN {i \in first..Len(q.items) : Joins(i)}

Hands(r, first) ==
  LET leader == r.items[first]
      talk == leader.kind = "conversation"
      chosen == IF talk THEN BatchOf(r, first) ELSE {first}
      batch == IF talk THEN leader.job ELSE 0
      next == [active |-> leader.job,
               items |-> [i \in DOMAIN r.items |-> IF i \notin chosen THEN r.items[i]
                 ELSE [r.items[i] EXCEPT !.status = "dispatching", !.batch = batch]]]
  IN /\ queue' = next
     /\ dispatches' = dispatches \cup
          {[leader |-> leader.job, batch |-> batch, copy |-> next, at |-> "launch",
            ids |-> {r.items[i].job : i \in chosen}]}

\* dispatchNext up to the save before the launch: it finalizes a stuck head,
\* and either there is nothing queued or the call goes on with the next
\* prompt, holding its copy of the queue it saved.
Dispatches(q) ==
  IF Holds(q) THEN queue' = q /\ UNCHANGED dispatches
  ELSE \E r \in {Reconciled(q)} :
         \/ /\ \A item \in ItemsOf(r) : item.status # "queued"
            /\ queue' = [r EXCEPT !.active = 0] /\ UNCHANGED dispatches
         \/ \E first \in DOMAIN r.items :
              /\ r.items[first].status = "queued"
              /\ \A i \in 1..first - 1 : r.items[i].status # "queued"
              /\ Hands(r, first)

-----------------------------------------------------------------------------
(* Dispatching: the launch of the Translator, the prompt, the mark         *)

Submitted(d) == d.at = "launch" /\ dispatches' = (dispatches \ {d}) \cup {[d EXCEPT !.at = "mark"]}
Marked(d) == d.at = "mark" /\ dispatches' = dispatches \ {d}

\* The Translator runs or is started, and the prompt is typed.
Submits(d) ==
  /\ Submitted(d)
  /\ translator' = [translator EXCEPT !.life = "live", !.input = Append(@, d.ids)]
  /\ UNCHANGED <<queue, output, panel, jobs, faults>>

\* What was dispatched becomes running, unless it was finalized meanwhile.
Marks(d) ==
  LET Mine(item) == /\ item.status = "dispatching"
                    /\ IF d.batch # 0 THEN item.batch = d.batch ELSE item.job = d.leader
  IN /\ Marked(d)
     /\ queue' = IF queue.active # d.leader THEN queue
                 ELSE Changed(queue, Mine, LAMBDA item : [item EXCEPT !.status = "running"])
     /\ UNCHANGED <<output, translator, panel, jobs, faults>>

\* A launch or a submission that throws: the call saves its own copy of the
\* queue.  A job without a batch shares "no batch" with every item not yet
\* batched.
SubmitFails(d) ==
  LET Mine(item) == item.job = d.leader \/ item.batch = d.batch
  IN /\ d.at = "launch" /\ faults < MaxFaults
     /\ queue' = [Changed(d.copy, Mine, LAMBDA item : [item EXCEPT !.status = "failed"])
                    EXCEPT !.active = 0]
     /\ dispatches' = dispatches \ {d}
     /\ faults' = faults + 1
     /\ UNCHANGED <<output, translator, panel, jobs>>

-----------------------------------------------------------------------------
(* The Translator                                                          *)

TakesPrompt ==
  /\ translator.life = "live" /\ translator.turn = Idle /\ translator.input # <<>>
  /\ translator' = [translator EXCEPT !.turn = <<Head(translator.input)>>, !.input = Tail(@)]

TurnEnds == translator.turn # Idle /\ translator' = [translator EXCEPT !.turn = Idle]

\* UserPromptSubmit is handled before the Translator works on the prompt.
Takes(heard) ==
  /\ TakesPrompt
  /\ queue' = IF heard
              THEN Changed(queue, LAMBDA item : item.job = queue.active /\ item.status = "dispatching",
                                  LAMBDA item : [item EXCEPT !.status = "running"])
              ELSE queue
  /\ IF heard THEN UNCHANGED faults ELSE faults < MaxFaults /\ faults' = faults + 1
  /\ UNCHANGED <<output, dispatches, panel, jobs>>

Writes(j) ==
  /\ translator.turn # Idle /\ j \in translator.turn[1] \ results
  /\ \/ drafts' = drafts \cup {j} /\ UNCHANGED results
        /\ \E item \in ItemsOf(queue) : item.job = j /\ item.kind = "file"
     \/ results' = results \cup {j} /\ UNCHANGED drafts
  /\ UNCHANGED <<worker, translator, panel, jobs, faults>>

\* Mutant: a Stop finalizes its item and dispatches nothing.
StopsQuietly ==
  /\ TurnEnds
  /\ queue' = Validated(queue)
  /\ UNCHANGED <<dispatches, output, panel, jobs, faults>>

\* The turn ends, normally or not; its Stop or StopFailure hook finalizes the
\* active item, whatever that is, and dispatches the next.
Stops ==
  /\ TurnEnds
  /\ \E q \in {Validated(queue)} : Dispatches(q)
  /\ UNCHANGED <<output, panel, jobs, faults>>

StopIsLost ==
  /\ TurnEnds /\ faults < MaxFaults
  /\ faults' = faults + 1
  /\ UNCHANGED <<worker, output, panel, jobs>>

Exits ==
  /\ translator.life = "live" /\ faults < MaxFaults
  /\ translator' = [life |-> "exited", input |-> <<>>, turn |-> Idle]
  /\ faults' = faults + 1
  /\ UNCHANGED <<worker, output, panel, jobs>>

-----------------------------------------------------------------------------
(* The worker's other operations                                           *)

\* getState prunes, then reconciles an active item; it never dispatches.
Polled(q) ==
  LET p == Pruned(q)
  IN IF InQueue(p, p.active) /\ ItemOf(p, p.active).status \in {"dispatching", "running"}
     THEN Reconciled(p) ELSE p

Polls ==
  /\ queue' = Polled(queue)
  /\ UNCHANGED <<dispatches, output, translator, panel, jobs, faults>>

\* Jobs are queued and the last one dispatches.
Creates(new) ==
  /\ jobs' = jobs + Len(new)
  /\ \E q \in {Enqueued(queue, new)} : Dispatches(q)

\* A file that is already being translated is only dispatched again.
CreatesTool(kind) ==
  LET running == /\ kind = "file"
                 /\ \E item \in ItemsOf(queue) : item.kind = "file" /\ item.status \notin Final
  IN /\ asked < MaxAsked /\ asked' = asked + 1
     /\ IF running THEN Dispatches(queue) /\ UNCHANGED jobs
        ELSE Creates(<<NewItem(jobs + 1, kind)>>)
     /\ UNCHANGED <<output, translator, entries, pending, tasks, chain, faults>>

-----------------------------------------------------------------------------
(* The panel                                                               *)

Flushed(texts) ==
  /\ tasks' = Append(tasks, [texts |-> texts, chain |-> chain, jobs |-> <<>>, at |-> 0])
  /\ pending' = <<>>

\* The next reply of the transcript; what was shown is not shown again.
Arrives(t) == entries[t] = "none" /\ \A s \in Replies : s < t => entries[s] # "none"

\* A reply that is not translated yet in this output mode is shown as it is.
Preserves(t) ==
  /\ Arrives(t) /\ t \in Held /\ asked < MaxAsked
  /\ entries' = [entries EXCEPT ![t] = "preserved"]
  /\ asked' = asked + 1
  /\ UNCHANGED <<worker, output, translator, pending, tasks, chain, jobs, faults>>

\* A reply is queued: the last reply of a turn at once, another with the batch.
Queues(t) ==
  /\ Arrives(t) /\ t \notin Held /\ asked < MaxAsked
  /\ entries' = [entries EXCEPT ![t] = "queued"]
  /\ asked' = asked + 1
  /\ IF t \in Batched THEN pending' = Append(pending, t) /\ UNCHANGED tasks
     ELSE Flushed(Append(pending, t))
  /\ UNCHANGED <<worker, output, translator, chain, jobs, faults>>

\* The Round stopped: the poll of the task feed, or of the pause alert,
\* translates the final reply.
TranslatesFinal(t) ==
  /\ entries[t] = "preserved"
  /\ entries' = [entries EXCEPT ![t] = "queued"]
  /\ Flushed(Append(pending, t))
  /\ UNCHANGED <<worker, output, translator, chain, jobs, asked, faults>>

Retries(t) ==
  /\ t \in Replies /\ entries[t] = "failed" /\ asked < MaxAsked
  /\ entries' = [entries EXCEPT ![t] = "queued"]
  /\ asked' = asked + 1
  /\ Flushed(Append(pending, t))
  /\ UNCHANGED <<worker, output, translator, chain, jobs, faults>>

Flush ==
  /\ pending # <<>> /\ Flushed(pending)
  /\ UNCHANGED <<worker, output, translator, entries, chain, jobs, asked, faults>>

Begins(k) ==
  /\ tasks[k].at = 0 /\ \A i \in 1..k - 1 : tasks[i].chain # tasks[k].chain
  /\ tasks' = [tasks EXCEPT ![k].jobs = [i \in DOMAIN tasks[k].texts |-> jobs + i], ![k].at = 1]

\* A task starts when the earlier ones of its chain are over: one job for
\* each text, and one dispatch after the last.
Starts(k) ==
  LET texts == tasks[k].texts
  IN /\ Begins(k)
     /\ entries' = [t \in Texts |-> IF \E i \in DOMAIN texts : texts[i] = t THEN "translating"
                                                                             ELSE entries[t]]
     /\ Creates([i \in DOMAIN texts |-> NewItem(jobs + i, "conversation")])
     /\ UNCHANGED <<output, translator, pending, chain, asked, faults>>

\* Composer and phone input waits outside the session's serial queue.
Composes(t) ==
  /\ t \in Inputs /\ entries[t] = "none" /\ asked < MaxAsked
  /\ entries' = [entries EXCEPT ![t] = "translating"]
  /\ asked' = asked + 1
  /\ tasks' = Append(tasks, [texts |-> <<t>>, chain |-> 0, jobs |-> <<jobs + 1>>, at |-> 1])
  /\ Creates(<<NewItem(jobs + 1, "conversation")>>)
  /\ UNCHANGED <<output, translator, pending, chain, faults>>

WithoutAt(s, k) == SubSeq(s, 1, k - 1) \o SubSeq(s, k + 1, Len(s))

\* The end of the wait for the current text of a task; the last ends the task.
Advances(k, outcome) ==
  /\ entries' = [entries EXCEPT ![tasks[k].texts[tasks[k].at]] = outcome]
  /\ tasks' = IF tasks[k].at = Len(tasks[k].texts) THEN WithoutAt(tasks, k)
              ELSE [tasks EXCEPT ![k].at = @ + 1]

ResultIsRead(q, j) ==
  /\ results' = results \ {j}
  /\ queue' = [q EXCEPT !.items = Kept(@, {i \in DOMAIN @ : @[i].job # j})]

\* The poll of a waiting task that ends its wait: getState, then its item; a
\* result that was read is removed with the item.  A poll that finds the item
\* unfinished is Polls.
Looks(k) ==
  /\ tasks[k].at > 0
  /\ \E q \in {Polled(queue)}, j \in {tasks[k].jobs[tasks[k].at]} :
       \/ /\ InQueue(q, j) => ItemOf(q, j).status = "completed"
          /\ Advances(k, IF j \in results THEN "translated" ELSE "failed")
          /\ ResultIsRead(q, j)
       \/ /\ InQueue(q, j) /\ ItemOf(q, j).status = "failed"
          /\ Advances(k, "failed") /\ queue' = q /\ UNCHANGED results
  /\ UNCHANGED <<drafts, dispatches, translator, pending, chain, jobs, asked, faults>>

\* The panel is cleared or its session stopped: what has not been flushed is
\* dropped and a new serial queue begins; a running task goes on and shows
\* its entries again.
Clears ==
  /\ chain <= MaxClears
  /\ entries' = [t \in Texts |-> IF entries[t] = "none" THEN "none" ELSE "cleared"]
  /\ pending' = <<>> /\ chain' = chain + 1
  /\ UNCHANGED <<worker, output, translator, tasks, jobs, asked, faults>>

\* A backend restart removes the runtime directory, queue included; the
\* panel's entries come back from their cache.
Restarts ==
  /\ faults < MaxFaults /\ faults' = faults + 1
  /\ queue' = NoQueue /\ drafts' = {} /\ results' = {} /\ dispatches' = {}
  /\ translator' = [life |-> "exited", input |-> <<>>, turn |-> Idle]
  /\ pending' = <<>> /\ tasks' = <<>>
  /\ UNCHANGED <<entries, chain, jobs, asked>>

-----------------------------------------------------------------------------
Submission == \E d \in dispatches : Submits(d) \/ Marks(d)
TranslatorWorks == Takes(TRUE) \/ Stops \/ \E j \in 1..jobs : Writes(j)
Faulty == Takes(FALSE) \/ StopIsLost \/ Exits \/ Restarts \/ \E d \in dispatches : SubmitFails(d)
Asks ==
  \/ \E t \in Replies : Preserves(t) \/ Queues(t) \/ TranslatesFinal(t) \/ Retries(t)
  \/ \E t \in Inputs : Composes(t)
  \/ \E kind \in Tools : CreatesTool(kind)

Next ==
  \/ Submission \/ TranslatorWorks \/ Faulty \/ Asks
  \/ Polls \/ Flush \/ Clears
  \/ \E k \in DOMAIN tasks : Starts(k) \/ Looks(k)

Spec == Init /\ [][Next]_vars

\* Timers fire, launches and submissions end, waiting tasks poll, and the
\* Translator takes what is typed and ends its turns.  A step that alone makes
\* a certain change of one variable is named by that change.
Fairness ==
  /\ WF_dispatches(\E d \in dispatches : Submitted(d) \/ Marked(d))
  /\ WF_translator(TakesPrompt) /\ WF_translator(TurnEnds)
  /\ WF_vars(Flush)
  /\ WF_tasks(\E k \in DOMAIN tasks : Begins(k))
  /\ \A k \in 1..MaxAsked : WF_vars(k \in DOMAIN tasks /\ Looks(k))

FairSpec == Spec /\ Fairness

-----------------------------------------------------------------------------
(* Properties                                                              *)

TypeOK ==
  /\ queue.active \in 0..jobs
  /\ \A item \in ItemsOf(queue) :
       /\ item.job \in 1..jobs /\ item.batch \in 0..jobs
       /\ item.status \in {"queued", "failed", "completed"} \cup InFlight
  /\ drafts \cup results \subseteq 1..jobs
  /\ entries \in [Texts -> {"none", "preserved", "queued", "translating", "translated", "failed", "cleared"}]

\* An item is in flight only as the active item or in its batch: whatever
\* fails, exits, gets lost or restarts, nothing is left "dispatching" or
\* "running" behind the head, where no Stop and no poll would finalize it.
InFlightIsActive ==
  \A item \in ItemsOf(queue) : item.status \in InFlight =>
    /\ InQueue(queue, queue.active)
    /\ item.job = queue.active \/ SameBatch(ItemOf(queue, queue.active), item)

\* A panel task that waits finds the item of every text it has not read yet:
\* no poll, other reader or cleanup removes it first.  (A launch that fails
\* writes back an older queue, and a restart empties it.)
UnreadIsKept ==
  \A k \in DOMAIN tasks : tasks[k].at > 0 /\ faults = 0 =>
    \A i \in tasks[k].at..Len(tasks[k].jobs) : InQueue(queue, tasks[k].jobs[i])

\* Once the bounded requests have come, every reply and input that is being
\* translated ends as translated or failed and every job leaves the queue or
\* becomes final, in whatever order polls, Stops of earlier turns, retries and
\* clears of the panel come, unless the Translator, a hook, a launch or the
\* backend failed: the head is not held for ever and the next one is dispatched.
WorkSettles ==
  []<>(faults > 0 \/ (/\ \A t \in Texts : entries[t] \notin {"queued", "translating"}
                     /\ \A item \in ItemsOf(queue) : item.status \in Final))
=============================================================================
