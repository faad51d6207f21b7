--------------------------- MODULE FileTranslation ---------------------------
(***************************************************************************)
(* Translations of files, and the Translator's memory, as the worker keeps *)
(* them on disk: a job works in a runtime directory of its own, its result *)
(* moves to a place that is the same for every translation of that file    *)
(* into that language, and files/index.json lists what is finished.        *)
(*                                                                         *)
(* Whose turn it is in the queue is TranslationQueue's matter; here the    *)
(* first queued item is handed out at any moment nothing is at work, and   *)
(* the active item is judged at any Stop.  The accesses to one file within *)
(* a call take milliseconds and are one step; a call is as many steps as   *)
(* it writes files, and ends before the Translator writes another one.     *)
(***************************************************************************)
EXTENDS Integers, Sequences, FiniteSets, KeptItems

CONSTANTS
  Sources,     \* files of the repository that can be translated
  Languages,   \* target languages, each with its profile
  SourceText,  \* the text of every source: the sizes of its lines
  ChunkTarget, \* chunkSourceTokenTarget
  Targets,     \* paths a translation can be promoted to
  Legacy,      \* indexes an earlier version may have left
  Requests,    \* what users ask for, in order: sequences of jobs
  MaxFileJobs, \* the most jobs asked for
  MaxStarts    \* starts of the backend and connects after the first

VARIABLES
  fitems,    \* the file, bootstrap and memory items of queue.json, oldest first
  factive,   \* activeItemId, or 0
  dirs,      \* what the runtime directory of each job holds
  finished,  \* files/completed: the translation at each place, or NoResult
  index,     \* files/index.json: the jobs it lists, newest first
  runs,      \* bootstrap/index.json: job -> status
  memory,    \* the memory files: "fits", "over" the limit, or with a "stray" file
  copies,    \* what was promoted to each target
  creates,   \* create calls between the queue and their request file
  checks,    \* calls that judge an item
  handed,    \* jobs the Translator was given
  requests,  \* what is still to be asked
  booted, njobs, starts
fileVars == <<fitems, factive, dirs, finished, index, runs, memory, copies, creates, checks,
              handed, requests, booted, njobs, starts>>

Old == {1, 2}   \* jobs of the earlier version
FileJobs == 1..(2 + MaxFileJobs)
NoDir == [request |-> FALSE, done |-> 0, output |-> FALSE, report |-> "none"]
NoResult == [job |-> 0, lines |-> 0]
AtWork == {"running", "validating"}

\* A request names a file and a language, or a job for the Translator's memory.
Wanted == ({"file"} \X Sources \X Languages)
            \cup ({"bootstrap", "memory-update"} \X {"none"} \X {"none"})
ResultPlaces == (Sources \X Languages) \cup {<<j>> : j \in FileJobs}
JobStatuses == {"queued", "running", "validating", "completed", "failed"}
Listed == [job : Old, source : Sources, language : Languages, place : ResultPlaces, status : JobStatuses,
           found : BOOLEAN]

ASSUME FileTranslationAssumption ==
  /\ {ChunkTarget, MaxFileJobs, MaxStarts} \subseteq Nat
  /\ SourceText \in [Sources -> Seq(Nat)]
  /\ Requests \subseteq Seq(Wanted \cup {<<"promote">>})
  /\ Legacy \subseteq Seq(Listed)
  /\ \A entries \in Legacy : \A i \in DOMAIN entries :
       Len(entries[i].place) = 2 => entries[i].place = <<entries[i].source, entries[i].language>>

FirstQueued(items) ==
  {i \in DOMAIN items : items[i].status = "queued" /\ \A n \in 1..i - 1 : items[n].status # "queued"}
Others(s, j) == Kept(s, {i \in DOMAIN s : s[i].job # j})

-----------------------------------------------------------------------------
(* Chunks, places and keys                                                 *)

\* A text is cut at line ends so that no chunk exceeds the target unless a
\* line alone does: the chunks done and the lines gathered since.
Gathered(text) ==
  LET Adding[n \in 0..Len(text)] ==
        IF n = 0 THEN [done |-> <<>>, now |-> <<>>, size |-> 0]
        ELSE LET before == Adding[n - 1] IN
             IF before.now # <<>> /\ before.size + text[n] > ChunkTarget
             THEN [done |-> Append(before.done, before.now), now |-> <<n>>, size |-> text[n]]
             ELSE [before EXCEPT !.now = Append(@, n), !.size = @ + text[n]]
  IN Adding[Len(text)]

\* An empty text is one empty chunk.
Chunks(text) == Append(Gathered(text).done, Gathered(text).now)

\* The lines of a source that the first n of its chunks hold.
LinesIn(source, n) ==
  UNION {{Chunks(SourceText[source])[i][k] : k \in DOMAIN Chunks(SourceText[source])[i]} : i \in 1..n}

\* Mutant: translations into another language count as the same.
KeyOfSource(entry) == entry.source
FileKey(entry) == <<entry.source, entry.language>>

CompletedPath(entry) == <<entry.source, entry.language>>
IsCompletedPath(place) == Len(place) = 2
RuntimePath(j) == <<j>>

\* What readFileJobOutput finds at the place an entry names.
OutputAt(place) ==
  IF IsCompletedPath(place) THEN finished[place]
  ELSE IF dirs[place[1]].output THEN [job |-> place[1], lines |-> 0] ELSE NoResult

-----------------------------------------------------------------------------
(* The index                                                               *)

Completed(entry) == entry.status = "completed"

\* The newest completed entry of each key, the others in their order.
Retained(entries) ==
  LET Stays(i) == Completed(entries[i]) =>
        \A n \in 1..i - 1 : Completed(entries[n]) => FileKey(entries[n]) # FileKey(entries[i])
  IN {i \in DOMAIN entries : Stays(i)}

\* Mutant: the file of a superseded entry goes even if the new one has the same.
DroppedResults(entries, kept) == {entries[i].place : i \in DOMAIN entries \ kept}

\* The results of superseded entries that no kept entry names.
Superseded(entries, kept) ==
  {entries[i].place : i \in DOMAIN entries \ kept} \ {entries[i].place : i \in kept}

\* The index is saved with one completed entry for each key; what only the
\* superseded ones named is removed, their runtime directories are too.
SavesIndex(entries, results, directories) ==
  LET kept == Retained(entries)
      gone == {entries[i].job : i \in DOMAIN entries \ kept}
  IN /\ index' = Kept(entries, kept)
     /\ finished' = [p \in DOMAIN results |->
                      IF p \in Superseded(entries, kept) THEN NoResult ELSE results[p]]
     /\ dirs' = [j \in FileJobs |-> IF j \in gone THEN NoDir ELSE directories[j]]

\* Where the result of a job is after it was copied out, if there is one.
FinalPlace(entry) ==
  IF \/ entry.place # CompletedPath(entry) /\ OutputAt(entry.place) # NoResult
     \/ finished[CompletedPath(entry)] # NoResult
  THEN CompletedPath(entry) ELSE entry.place

\* cleanupStartupFileIndex: only completed entries whose file is there stay,
\* one for each key.
Surviving(entries) ==
  LET Sound(i) == /\ Completed(entries[i]) /\ IsCompletedPath(entries[i].place)
                  /\ finished[entries[i].place] # NoResult
  IN Kept(entries, {i \in DOMAIN entries :
       Sound(i) /\ \A n \in 1..i - 1 : Sound(n) => FileKey(entries[n]) # FileKey(entries[i])})

\* The backend starts or connects the project: everything at runtime goes.
StartsUp(crashed) ==
  /\ starts <= MaxStarts /\ starts' = starts + 1
  /\ crashed \/ (checks = {} /\ creates = {})
  /\ fitems' = <<>> /\ factive' = 0 /\ dirs' = [j \in FileJobs |-> NoDir]
  /\ index' = Surviving(index)
  /\ runs' = [j \in {j \in DOMAIN runs : runs[j] = "completed"} |-> "completed"]
  /\ checks' = {} /\ creates' = {}
  /\ handed' = {} /\ booted' = TRUE
  /\ UNCHANGED <<finished, memory, copies, requests, njobs>>

-----------------------------------------------------------------------------
(* Creating a job                                                          *)

NewJob(asked) ==
  [job |-> njobs + 1, kind |-> asked[1], source |-> asked[2], language |-> asked[3]]

\* A file job of the same key is at work and its request can be read.
ActiveExists(new) ==
  \E i \in DOMAIN fitems : /\ fitems[i].kind = "file" /\ FileKey(fitems[i]) = FileKey(new)
                           /\ fitems[i].status \in AtWork \cup {"queued"}
                           /\ dirs[fitems[i].job].request

\* A create call saves its item before its request.
CreatesJob(new) ==
  /\ booted /\ njobs < 2 + MaxFileJobs
  /\ requests # <<>> /\ requests' = Tail(requests)
  /\ new.kind = "file" => ~ActiveExists(new)
  /\ fitems' = Append(fitems, [job |-> new.job, kind |-> new.kind, source |-> new.source,
                               language |-> new.language, status |-> "queued"])
  /\ creates' = creates \cup {new}
  /\ njobs' = njobs + 1
  /\ UNCHANGED <<factive, dirs, finished, index, runs, memory, copies, checks, handed, booted,
                 starts>>

\* A file's request is followed by a report that says "queued".
FileRequest(new) ==
  /\ new.kind = "file"
  /\ dirs' = [dirs EXCEPT ![new.job] = [@ EXCEPT !.request = TRUE, !.report = "queued"]]
  /\ UNCHANGED runs

\* A bootstrap has such a report too, and is listed last.
BootstrapRequest(new) ==
  /\ new.kind = "bootstrap"
  /\ dirs' = [dirs EXCEPT ![new.job] = [@ EXCEPT !.request = TRUE, !.report = "queued"]]
  /\ runs' = [j \in DOMAIN runs \cup {new.job} |-> IF j = new.job THEN "queued" ELSE runs[j]]

\* A memory update has no output of its own.
MemoryRequest(new) ==
  /\ new.kind = "memory-update"
  /\ dirs' = [dirs EXCEPT ![new.job].request = TRUE]
  /\ UNCHANGED runs

WritesRequest(new) ==
  /\ creates' = creates \ {new}
  /\ FileRequest(new) \/ BootstrapRequest(new) \/ MemoryRequest(new)
  /\ UNCHANGED <<fitems, factive, finished, index, memory, copies, checks, handed, requests,
                 booted, njobs, starts>>

-----------------------------------------------------------------------------
(* The Translator                                                          *)

WithStatus(items, j, status) ==
  [i \in DOMAIN items |-> IF items[i].job = j THEN [items[i] EXCEPT !.status = status] ELSE items[i]]

HeldBy(items, active) == \E i \in DOMAIN items : items[i].job = active /\ items[i].status \in AtWork

\* The first queued item becomes active; a launch that throws fails it.
TakesNext(launched) ==
  /\ booted /\ ~HeldBy(fitems, factive)
  /\ \E i \in FirstQueued(fitems) :
       /\ fitems' = WithStatus(fitems, fitems[i].job, IF launched THEN "running" ELSE "failed")
       /\ factive' = IF launched THEN fitems[i].job ELSE 0
       /\ handed' = IF launched THEN handed \cup {fitems[i].job} ELSE handed
       /\ runs' = IF fitems[i].job \in DOMAIN runs
                  THEN [runs EXCEPT ![fitems[i].job] = IF launched THEN "running" ELSE "failed"]
                  ELSE runs
  /\ UNCHANGED <<dirs, finished, index, memory, copies, creates, checks, requests, booted, njobs, starts>>

\* The Translator writes the next chunk, the output or the report of a job it
\* was given, whatever has become of the job meanwhile.
WritesOutput(item) ==
  /\ checks = {} /\ item.job \in handed
  /\ \/ /\ item.kind = "file" /\ dirs[item.job].done < Len(Chunks(SourceText[item.source]))
        /\ dirs' = [dirs EXCEPT ![item.job].done = @ + 1]
     \/ /\ item.kind = "file" /\ ~dirs[item.job].output
        /\ dirs' = [dirs EXCEPT ![item.job].output = TRUE]
     \/ \E says \in {"completed", "failed"} :
          /\ dirs[item.job].report \in {"none", "queued"}
          /\ dirs' = [dirs EXCEPT ![item.job].report = says]
  /\ UNCHANGED <<fitems, factive, finished, index, runs, memory, copies, creates, checks, handed,
                 requests, booted, njobs, starts>>

UpdatesMemory(item) ==
  /\ checks = {} /\ item.job \in handed /\ item.kind # "file"
  /\ memory' \in {"fits", "over", "stray"} \ {memory}
  /\ UNCHANGED <<fitems, factive, dirs, finished, index, runs, copies, creates, checks, handed,
                 requests, booted, njobs, starts>>

-----------------------------------------------------------------------------
(* Judging the active item                                                 *)

FinishedEntry(item) ==
  [job |-> item.job, source |-> item.source, language |-> item.language,
   place |-> RuntimePath(item.job), status |-> "completed"]

\* A call that judges the active item keeps the queue it saved first.
Judges(items) ==
  \E i \in DOMAIN items :
    /\ items[i].job = factive
    /\ fitems' = WithStatus(items, factive, "validating")
    /\ checks' = checks \cup {[item |-> items[i], at |-> "judge", items |-> fitems',
                               place |-> RuntimePath(factive), ok |-> FALSE]}

NoStrays == memory # "stray"
WithinLimit == memory # "over"
MemoryFits == NoStrays /\ WithinLimit

IsFailureReport(report) == report \in {"queued", "failed"}

\* What the outputs of an item must be.  A request that cannot be read asks
\* for no chunk.
ValidOutputs(item) ==
  LET d == dirs[item.job] IN
  CASE item.kind = "memory-update" -> MemoryFits
    [] item.kind = "bootstrap" -> d.report # "none"
    [] OTHER -> /\ d.output /\ d.report # "none" /\ ~IsFailureReport(d.report)
                /\ d.request => d.done >= Len(Chunks(SourceText[item.source]))

\* Stop or StopFailure of the Translator, whichever turn it ends.
TranslatorStops ==
  /\ booted /\ Cardinality(checks) < 2
  /\ Judges(fitems)
  /\ UNCHANGED <<factive, dirs, finished, index, runs, memory, copies, creates, handed, requests, booted,
                 njobs, starts>>

Moved(c, to) == checks' = (checks \ {c}) \cup {to}

\* The verdict is saved over whatever the queue has become.
Verdict(c) ==
  LET ok == ValidOutputs(c.item)
      copied == ok /\ c.item.kind = "file" /\ dirs[c.item.job].request
  IN /\ c.at = "judge"
     /\ fitems' = WithStatus(c.items, c.item.job, IF ok THEN "completed" ELSE "failed")
     /\ factive' = 0
     /\ Moved(c, [c EXCEPT !.at = IF copied THEN "copy" ELSE "settle", !.ok = ok])
     /\ UNCHANGED <<dirs, finished, index, runs, memory, copies, creates, handed, requests, booted, njobs,
                    starts>>

\* A bootstrap run takes the status; a completed item's directory goes, and
\* the item with it.
Settles(c) ==
  /\ c.at = "settle"
  /\ runs' = IF c.item.job \in DOMAIN runs
             THEN [runs EXCEPT ![c.item.job] = IF c.ok THEN "completed" ELSE "failed"] ELSE runs
  /\ dirs' = IF c.ok /\ (c.item.kind = "memory-update" \/ c.item.job \in DOMAIN runs)
             THEN [dirs EXCEPT ![c.item.job] = NoDir] ELSE dirs
  /\ fitems' = IF c.ok THEN Others(fitems, c.item.job) ELSE fitems
  /\ checks' = checks \ {c}
  /\ UNCHANGED <<factive, finished, index, memory, copies, creates, handed, requests, booted, njobs, starts>>

\* finalizeCompletedFileJob: the result is copied to its place ...
CopiesResult(c) ==
  LET entry == FinishedEntry(c.item)
      lines == Cardinality(LinesIn(c.item.source, dirs[c.item.job].done))
  IN /\ c.at = "copy"
     /\ finished' = IF dirs[c.item.job].output
                    THEN [finished EXCEPT ![CompletedPath(entry)] =
                            [job |-> c.item.job, lines |-> lines]]
                    ELSE finished
     /\ Moved(c, [c EXCEPT !.place = FinalPlace(entry),
                           !.at = IF IsCompletedPath(FinalPlace(entry)) THEN "drop" ELSE "list"])
     /\ UNCHANGED <<fitems, factive, dirs, index, runs, memory, copies, creates, handed, requests, booted,
                    njobs, starts>>

\* ... before the runtime directory is removed.
DropsDirectory(c) ==
  /\ c.at = "drop"
  /\ dirs' = [dirs EXCEPT ![c.item.job] = NoDir]
  /\ Moved(c, [c EXCEPT !.at = "list"])
  /\ UNCHANGED <<fitems, factive, finished, index, runs, memory, copies, creates, handed, requests, booted,
                 njobs, starts>>

\* The index lists the job first, and the queue drops its item.
Lists(c) ==
  /\ c.at = "list"
  /\ SavesIndex(<<[FinishedEntry(c.item) EXCEPT !.place = c.place]>> \o Others(index, c.item.job),
                finished, dirs)
  /\ fitems' = Others(fitems, c.item.job)
  /\ checks' = checks \ {c}
  /\ UNCHANGED <<factive, runs, memory, copies, creates, handed, requests, booted, njobs, starts>>

-----------------------------------------------------------------------------
(* The page                                                                *)

\* getState: what is finished is finalized and cleaned up again, and an active
\* item whose output exists, or whose Translator is gone, is judged.
GetsState(gone) ==
  LET kept == Retained(index)
      Final(i) == IF i \in kept /\ Completed(index[i])
                  THEN [index[i] EXCEPT !.place = FinalPlace(index[i])] ELSE index[i]
      finals == [i \in DOMAIN index |-> Final(i)]
      listed == {index[i].job : i \in {i \in kept : Completed(index[i]) /\ IsCompletedPath(finals[i].place)}}
      updates == {fitems[i].job : i \in {i \in DOMAIN fitems : /\ fitems[i].kind = "memory-update"
                                                              /\ fitems[i].status = "completed"}}
      cleaned == listed \cup {j \in DOMAIN runs : runs[j] = "completed"} \cup updates
      items == Kept(fitems, {i \in DOMAIN fitems : fitems[i].status # "completed"})
      available == \/ gone
                   \/ \E i \in DOMAIN items : /\ items[i].job = factive
                                              /\ CASE items[i].kind = "file" -> dirs[factive].output
                                                   [] items[i].kind = "bootstrap" -> dirs[factive].report # "none"
                                                   [] OTHER -> FALSE
  IN /\ booted /\ Cardinality(checks) < 2
     /\ SavesIndex(finals, finished, [j \in FileJobs |-> IF j \in cleaned THEN NoDir ELSE dirs[j]])
     /\ IF available /\ HeldBy(items, factive) THEN Judges(items)
        ELSE fitems' = items /\ UNCHANGED checks
     /\ UNCHANGED <<factive, runs, memory, copies, creates, handed, requests, booted, njobs, starts>>

\* A finished translation is copied to a path where nothing is.
Promotes(i, target) ==
  /\ booted /\ copies[target] = NoResult
  /\ requests # <<>> /\ Head(requests) = <<"promote">> /\ requests' = Tail(requests)
  /\ Completed(index[i]) /\ OutputAt(index[i].place) # NoResult
  /\ copies' = [copies EXCEPT ![target] = OutputAt(index[i].place)]
  /\ UNCHANGED <<fitems, factive, dirs, finished, index, runs, memory, creates, checks, handed,
                 booted, njobs, starts>>

-----------------------------------------------------------------------------
FilesFound(entries) ==
  [p \in Sources \X Languages |->
    IF \E i \in DOMAIN entries : entries[i].place = p /\ entries[i].found
    THEN [job |-> 2, lines |-> Len(SourceText[p[1]])] ELSE NoResult]

TranslatedInit ==
  /\ fitems = <<>> /\ factive = 0 /\ dirs = [j \in FileJobs |-> NoDir]
  /\ \E entries \in Legacy :
       /\ index = [i \in DOMAIN entries |->
                    [f \in DOMAIN entries[i] \ {"found"} |-> entries[i][f]]]
       /\ finished = FilesFound(entries)
  /\ runs = <<>> /\ memory = "fits" /\ copies = [t \in Targets |-> NoResult]
  /\ creates = {} /\ checks = {} /\ handed = {}
  /\ requests \in Requests /\ booted = FALSE /\ njobs = 2 /\ starts = 0

TranslatedNext ==
  \/ \E crashed \in BOOLEAN : StartsUp(crashed)
  \/ requests # <<>> /\ Head(requests) # <<"promote">> /\ CreatesJob(NewJob(Head(requests)))
  \/ \E new \in creates : WritesRequest(new)
  \/ \E launched \in BOOLEAN : TakesNext(launched)
  \/ \E i \in DOMAIN fitems : WritesOutput(fitems[i]) \/ UpdatesMemory(fitems[i])
  \/ TranslatorStops
  \/ \E c \in checks : Verdict(c) \/ Settles(c) \/ CopiesResult(c) \/ DropsDirectory(c) \/ Lists(c)
  \/ \E gone \in BOOLEAN : GetsState(gone)
  \/ \E i \in DOMAIN index, target \in Targets : Promotes(i, target)

TranslatedSpec == TranslatedInit /\ [][TranslatedNext]_fileVars

-----------------------------------------------------------------------------
(* Properties                                                              *)

\* A result holds every line of its source and belongs to a job.
IsWhole(result, source) == result.job # 0 /\ result.lines = Len(SourceText[source])

\* README, Translation: completed file translations remain project-level
\* durable data.  What the index lists can be read and is a translation of the
\* whole file, and so is what was promoted - with early polls, Stops of other
\* turns, two calls that judge one item, duplicate jobs, a reconnect, and a
\* crash between any two writes.
ListedIsWhole ==
  booted =>
    /\ \A i \in DOMAIN index : IsWhole(OutputAt(index[i].place), index[i].source)
    /\ \A t \in Targets : copies[t] # NoResult => \E s \in Sources : IsWhole(copies[t], s)

\* A finished translation stays listed until another one of the same file into
\* the same language takes its place: no cleanup, at start or while the page
\* is open, and no other job's end drops it.
ResultsStayListed ==
  [][booted => \A i \in DOMAIN index : \E n \in DOMAIN index' :
        index'[n].source = index[i].source /\ index'[n].language = index[i].language]_fileVars
=============================================================================
