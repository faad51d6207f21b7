------------------------------ MODULE MCFiles ------------------------------
(* Instances of four components that live in files, for TLC: a behaviour   *)
(* is one of the workflow journal, every access to the state under the     *)
(* workflow lock, one of the installed Harness, one of the translated      *)
(* files, or one of a managed artifact.                                    *)
EXTENDS WorkflowJournal, HarnessFiles, FileTranslation, ArtifactChecks
VARIABLE part

NoReaders == {}
NoPlan == [commits |-> 0, edits |-> 0, upgrades |-> 0, applies |-> 0, faults |-> 0, stops |-> 0,
           engineers |-> 0, runs |-> 0, roles |-> 0]
ShortPlans ==
  {NoPlan, [NoPlan EXCEPT !.edits = 1, !.commits = 1, !.applies = 1],
   [NoPlan EXCEPT !.applies = 2, !.upgrades = 1],
   [NoPlan EXCEPT !.edits = 1, !.roles = 1],
   [NoPlan EXCEPT !.applies = 1, !.roles = 1, !.faults = 1],
   [NoPlan EXCEPT !.engineers = 2, !.runs = 1, !.stops = 1, !.faults = 1, !.roles = 1]}

\* A source of two chunks, translated twice into one language, or into two.
TwoLines == [source \in {"source"} |-> <<1, 2>>]
ToChinese == <<"file", "source", "chinese">>
NoRequest == <<>>
Asked == {NoRequest, <<ToChinese, ToChinese, <<"promote">>>>,
          <<ToChinese, <<"file", "source", "german">>>>,
          <<<<"bootstrap", "none", "none">>, <<"memory-update", "none", "none">>>>}
OldEntry(j, place, status, found) ==
  [job |-> j, source |-> "source", language |-> "chinese", place |-> place, status |-> status,
   found |-> found]
OldIndex == {<<OldEntry(2, <<"source", "chinese">>, "completed", TRUE),
               OldEntry(2, <<2>>, "running", FALSE),
               OldEntry(1, <<"source", "chinese">>, "completed", TRUE)>>}

FilesInit ==
  /\ JournalInit /\ HarnessInit /\ TranslatedInit /\ ArtifactInit
  /\ part \in {"journal", "harness", "translations", "artifacts"}
  /\ (part = "harness") = (hplan # NoPlan)
  /\ (part = "translations") = (requests # NoRequest)
  /\ (part = "artifacts") = (artifact # "none")
  /\ part # "harness" => focus = "codex" /\ files = InstalledBefore
FilesNext ==
  /\ UNCHANGED part
  /\ \/ part = "journal" /\ JournalNext /\ UNCHANGED <<harnessVars, fileVars, artifactVars>>
     \/ part = "harness" /\ HarnessNext /\ UNCHANGED <<journalVars, fileVars, artifactVars>>
     \/ part = "translations" /\ TranslatedNext /\ UNCHANGED <<journalVars, harnessVars, artifactVars>>
     \/ part = "artifacts" /\ ArtifactNext /\ UNCHANGED <<journalVars, harnessVars, fileVars>>
FilesSpec == FilesInit /\ [][FilesNext]_<<part, journalVars, harnessVars, fileVars, artifactVars>>
=============================================================================
