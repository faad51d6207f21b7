---------------------------- MODULE HarnessFiles ----------------------------
(***************************************************************************)
(* The files VCM installs into a task's worktree and shares with the       *)
(* project: what harness-service plans, what install-vcm-harness writes,   *)
(* and the operations around both - Apply, an edit in Harness Studio, the  *)
(* bootstrap run of the Harness Engineer, the merge into the connected     *)
(* branch and the revision that tells running roles that their rules       *)
(* changed.                                                                *)
(*                                                                         *)
(* A file is its frontmatter and a sequence of lines; a line stands for    *)
(* one part of the file: the title, a marker, the rules between the        *)
(* markers, recorded memory, a line of the project's own.  Wording, blank  *)
(* lines and line ends are left out.  One file of each kind stands for all *)
(* files of that kind.                                                     *)
(***************************************************************************)
EXTENDS Naturals, Sequences, FiniteSets, KeptItems

CONSTANTS
  HarnessPlans, \* what comes from outside: how often
  OddInputs,    \* whether the project may hold what the installer cannot read back
  Interrupted   \* whether a run is asked of an engineer in the middle of a turn

ASSUME HarnessAssumption == OddInputs \in BOOLEAN /\ Interrupted \in BOOLEAN

VARIABLES
  files,     \* the worktree: file -> content
  committed, \* the same files at the head of the task branch
  product,   \* product code: changed since the last commit
  vcm,       \* the running VCM: package, rules and tool version
  operation, \* the harness operation under way
  revision,  \* .ai/vcm/harness/revision.json
  role,      \* a running role: the revision it recorded, and whether it missed a change
  bootstrap, \* .ai/vcm/bootstrap/session.json
  engineer,  \* the Harness Engineer: its session and its turn
  halfway,   \* an operation of VCM has failed half-way
  focus,     \* the file the project has its own way with
  hplan, hused
gitVars == <<committed, product>>
harnessVars == <<files, gitVars, vcm, operation, revision, role, bootstrap, engineer,
                 halfway, focus, hplan, hused>>

(***************************************************************************)
(* Kinds of files.                                                         *)
(***************************************************************************)
Agents == {"manager", "architect", "coder", "reviewer"}
Managed == Agents \union {"claude", "standards", "ignore"}
Remembers == Agents \union {"claude"}             \* memoryBlock
Migrates == {"standards"}                         \* legacyWholeFile, defaultContentAfterBlock
Whole == {"skill", "guard"}
Seeded == {"glossary", "testing", "generator"}    \* project-owned once they are there
\* What the installer handles, in its order.
Order == <<"gate-reviewer", "claude", "standards", "ignore", "manager", "architect", "coder",
           "reviewer", "glossary", "testing", "settings", "directories", "skill", "guard",
           "generator", "flat-skill", "codex", "manifest">>
Files == {Order[i] : i \in 1..Len(Order)}
Hidden == {"directories"}                         \* invisible to git status
Product == {"codex"}                              \* what classifyRepositoryDiffPath calls product code

(***************************************************************************)
(* Contents.                                                               *)
(***************************************************************************)
NoLine == {"-"}
NoFm == [on |-> FALSE, tools |-> NoLine, deny |-> NoLine, skills |-> NoLine, own |-> {}]
Plain(lines) == [fm |-> NoFm, lines |-> lines]
Absent == Plain(<<"absent">>)
Junk == Plain(<<"junk">>)                          \* not JSON
Rules(v) == <<"rules 1", "rules 2">>[v]
Hooks(v) == <<"hooks 1", "hooks 2">>[v]
Tool(v) == <<"tool 1", "tool 2">>[v]
Package(v) == <<"package 1", "package 2">>[v]
OwnLines == {"own 1", "own 2", "memo", "own hook", "own VCM hook"}
DefaultSection == "section"

Places(t, line) == {i \in 1..Len(t) : t[i] = line}
Least(S) == CHOOSE i \in S : \A j \in S : i <= j
\* The managed block reaches from the first BEGIN with an END after it to the next END.
Begins(t) == {i \in Places(t, "BEGIN") : \E j \in Places(t, "END") : i < j}
HasBlock(t) == Begins(t) # {}
BlockBegin(t) == Least(Begins(t))
BlockEnd(t) == Least({j \in Places(t, "END") : j > BlockBegin(t)})
Before(t) == SubSeq(t, 1, BlockBegin(t) - 1)
After(t) == SubSeq(t, BlockEnd(t) + 1, Len(t))
Block(t) == IF HasBlock(t) THEN SubSeq(t, BlockBegin(t), BlockEnd(t)) ELSE <<>>
Outside(t) == IF HasBlock(t) THEN Before(t) \o After(t) ELSE t
ManagedBlock(v) == <<"BEGIN", Rules(v), "END">>
ReplaceBlock(t, v) == Before(t) \o ManagedBlock(v) \o After(t)
InsertBlock(t, v) == t \o ManagedBlock(v)

(***************************************************************************)
(* The memory block of a role: kept as it is, added before the rules.      *)
(***************************************************************************)
MemoryMissing(t) == Places(t, "<memory>") \union Places(t, "</memory>") = {}
MemoryMalformed(t) ==
  /\ ~MemoryMissing(t)
  /\ ~ \E i, j \in 1..Len(t) : /\ Places(t, "<memory>") = {i} /\ Places(t, "</memory>") = {j}
                               /\ i < j
DefaultMemory == <<"<memory>", "no memory", "</memory>">>
EnsureMemory(t) ==
  LET b == Places(t, "BEGIN")
  IN IF ~MemoryMissing(t) THEN t
     ELSE IF b = {} THEN t \o DefaultMemory
     ELSE SubSeq(t, 1, Least(b) - 1) \o DefaultMemory \o SubSeq(t, Least(b), Len(t))
Remember(f, c) == IF f \in Remembers THEN [c EXCEPT !.lines = EnsureMemory(@)] ELSE c

(***************************************************************************)
(* The frontmatter of an agent: the tool policy and the preloaded skills.  *)
(***************************************************************************)
RequiredTools(f) == IF f = "manager" THEN {"Skill"} ELSE {}
RequiredDeny(f) == IF f \in {"architect", "coder", "reviewer"} THEN {"Task"} ELSE {}
RequiredSkills(f) == IF f = "architect" THEN {"navigation"} ELSE {}
RemovedSkills(f) == IF f \in {"coder", "reviewer"} THEN {"navigation"} ELSE {}
OrNoLine(S) == IF S = {} THEN NoLine ELSE S
EnsureAllowed(fm, req) ==
  IF ~fm.on \/ req = {} THEN fm
  ELSE IF fm.tools # NoLine THEN [fm EXCEPT !.tools = @ \union req]
  ELSE IF fm.deny # NoLine THEN [fm EXCEPT !.deny = OrNoLine(@ \ req)]
  ELSE fm
EnsureDenied(fm, req) ==
  IF ~fm.on \/ req = {} THEN fm
  ELSE [fm EXCEPT !.tools = NoLine, !.deny = (IF @ = NoLine THEN {} ELSE @) \union req]
\* A list the project already has: the entry is glued to the line that follows the list.
EnsureSkills(fm, req) ==
  IF ~fm.on \/ req = {} THEN fm
  ELSE IF fm.skills = NoLine THEN [fm EXCEPT !.skills = req]
  ELSE IF req \subseteq fm.skills THEN fm
  ELSE [fm EXCEPT !.skills = @ \union {"glued"}, !.own = {}]
RemoveSkills(fm, gone) ==
  IF ~fm.on \/ fm.skills \intersect gone = {} THEN fm
  ELSE [fm EXCEPT !.skills = OrNoLine(@ \ gone)]
NormalizeFm(f, fm) ==
  RemoveSkills(EnsureSkills(EnsureDenied(EnsureAllowed(fm, RequiredTools(f)), RequiredDeny(f)),
                            RequiredSkills(f)), RemovedSkills(f))
Normalize(f, c) == [c EXCEPT !.fm = NormalizeFm(f, @)]
NewFm(f) ==
  IF f \notin Agents THEN NoFm
  ELSE [NoFm EXCEPT !.on = TRUE,
                    !.tools = IF RequiredDeny(f) = {} THEN {"Read", "Skill"} ELSE NoLine,
                    !.deny = OrNoLine(RequiredDeny(f)), !.skills = OrNoLine(RequiredSkills(f))]

(***************************************************************************)
(* A managed file as the service plans it and as the script installs it.   *)
(***************************************************************************)
NewFile(f, v) ==
  [fm |-> NewFm(f), lines |-> <<"title">> \o ManagedBlock(v) \o
                               IF f \in Migrates THEN <<DefaultSection>> ELSE <<>>]
IsLegacy(f, t) == f \in Migrates /\ Len(t) > 0 /\ t[1] = "legacy"
\* Mutant: what the project wrote below the legacy text is not carried over.
MigratedAlone(f, c, v) ==
  [c EXCEPT !.lines = <<"title">> \o ManagedBlock(v) \o <<DefaultSection>>]
Migrated(f, c, v) ==
  [c EXCEPT !.lines = <<"title">> \o ManagedBlock(v) \o
                       IF Len(@) > 1 THEN Tail(@) ELSE <<DefaultSection>>]
WithBlock(f, c, v) ==
  IF HasBlock(c.lines) THEN [c EXCEPT !.lines = ReplaceBlock(@, v)]
  ELSE IF IsLegacy(f, c.lines) THEN Migrated(f, c, v)
  ELSE [c EXCEPT !.lines = InsertBlock(@, v)]
PlannedManaged(f, c, v) ==
  IF c = Absent THEN Remember(f, NewFile(f, v))
  ELSE IF HasBlock(c.lines) \/ IsLegacy(f, c.lines)
  THEN Normalize(f, Remember(f, WithBlock(f, c, v)))
  ELSE Remember(f, Normalize(f, WithBlock(f, c, v)))
\* Mutant: the script does not take a preloaded skill away.
InstalledWithSkill(f, c, v) ==
  LET base == Remember(f, IF c \in {Absent, Plain(<<>>)} THEN NewFile(f, v) ELSE WithBlock(f, c, v))
  IN [base EXCEPT !.fm = EnsureSkills(EnsureDenied(EnsureAllowed(@, RequiredTools(f)),
                                                   RequiredDeny(f)), RequiredSkills(f))]
InstalledManaged(f, c, v) ==
  Normalize(f, Remember(f, IF c \in {Absent, Plain(<<>>)} THEN NewFile(f, v)
                           ELSE WithBlock(f, c, v)))

(***************************************************************************)
(* The other kinds.                                                        *)
(***************************************************************************)
IsVcmHook(h) == h \in {"hooks 1", "hooks 2", "own VCM hook"}
MergeHooks(c, v) ==
  LET own == IF c = Absent THEN {} ELSE {i \in DOMAIN c.lines : ~IsVcmHook(c.lines[i])}
  IN Plain(Kept(c.lines, own) \o <<Hooks(v)>>)
WholeFile(f) == IF f = "skill" THEN Plain(<<Rules(vcm.rules)>>) ELSE Plain(<<Tool(vcm.tool)>>)
SeedOf(f) == Plain(<<"seed">>)
Manifest == Plain(<<"manifest", Package(vcm.package)>>)
IsManifest(c) == Len(c.lines) = 2 /\ c.lines[1] = "manifest"
\* The flat file an old VCM wrote: the skill as it is now, with or without its frontmatter.
IsOldSkill(c) == c = WholeFile("skill")
\* The reviewer agent under its former name.
Renamed(c) ==
  LET Name(l) == IF l = "old title" THEN "title" ELSE l
  IN [c EXCEPT !.lines = [i \in DOMAIN @ |-> Name(@[i])]]

(***************************************************************************)
(* What the service plans: the status the panel shows.                     *)
(***************************************************************************)
StatusFails == \/ \E f \in Remembers : MemoryMalformed(files[f].lines)
               \/ files["settings"] = Junk
Planned ==
  {f \in Managed : PlannedManaged(f, files[f], vcm.rules) # files[f]}
  \union {f \in {"skill"} : WholeFile(f) # files[f]}
  \union {f \in {"glossary"} : files[f] = Absent}
  \union {f \in {"settings"} : MergeHooks(files[f], vcm.rules) # files[f]}
  \union {f \in {"codex"} : files[f] # Absent}
  \union {f \in {"manifest"} : ~IsManifest(files[f])}
Initialized == (\E f \in Managed : HasBlock(files[f].lines)) \/ files["skill"] # Absent

(***************************************************************************)
(* What the script writes.                                                 *)
(***************************************************************************)
Installs(f, changed) ==
  LET c == files[f]
  IN CASE f = "gate-reviewer" -> Absent
       [] f \in Managed       -> InstalledManaged(f, c, vcm.rules)
       [] f \in Seeded        -> IF c = Absent THEN SeedOf(f) ELSE c
       [] f = "settings"      -> MergeHooks(c, vcm.rules)
       [] f = "directories"   -> Plain(<<"made">>)
       [] f \in Whole         -> WholeFile(f)
       [] f = "flat-skill"    -> IF IsOldSkill(c) THEN Absent ELSE c
       [] f = "codex"         -> Absent
       [] f = "manifest"      -> IF IsManifest(c) /\ changed = {} THEN c ELSE Manifest
Installed(f, changed) ==
  LET next == [files EXCEPT ![f] = Installs(f, changed)]
  IN IF f = "gate-reviewer" /\ files[f] # Absent /\ files["reviewer"] = Absent
     THEN [next EXCEPT !["reviewer"] = Renamed(files[f])] ELSE next
\* The script exits: the manifest, read first, or the settings are not JSON; two memory blocks.
ScriptExits(f) ==
  \/ f = "claude" /\ files["manifest"] = Junk
  \/ f = "settings" /\ files["settings"] = Junk
  \/ f \in Remembers /\ MemoryMalformed(files[f].lines)

(***************************************************************************)
(* Git.  A harness operation starts from a clean worktree and ends in a    *)
(* commit of everything that is visible then.                              *)
(***************************************************************************)
Idle == [kind |-> "none", at |-> 0, changed |-> {}, fresh |-> FALSE]
Quiet == operation.kind = "none"
Visible(fs) == [f \in Files \ Hidden |-> fs[f]]
Dirty == {f \in Files \ Hidden : files[f] # committed[f]}
Clean == Dirty = {} /\ ~product
Uses(what) == hplan[what] > hused[what] /\ hused' = [hused EXCEPT ![what] = @ + 1]
Commits(fs) == committed' = Visible(fs)
Misses(changes) == role' = [role EXCEPT !.missed = @ \/ (role.on /\ changes)]

\* The user, or a role, commits what is there.
CommitByHand ==
  /\ ~Clean /\ Uses("commits") /\ Commits(files) /\ product' = FALSE
  /\ UNCHANGED <<files, vcm, operation, revision, role, bootstrap, engineer,
                 halfway, focus, hplan>>

(***************************************************************************)
(* What the project does with its files, at any time.                      *)
(***************************************************************************)
OddEdits(f, c) ==
  IF ~OddInputs THEN {}
  ELSE {[c EXCEPT !.lines = SelectSeq(@, LAMBDA l : l # "END")]}
       \union IF f \in Remembers THEN {[c EXCEPT !.lines = @ \o DefaultMemory]} ELSE {}
       \union IF f = "architect" THEN {[c EXCEPT !.fm.skills = {"own skill"}]} ELSE {}
Redone(l) == IF l \in {"rules 1", "rules 2"} THEN "edited" ELSE l
Edits(f) ==
  LET c == files[f]
  IN IF f = "settings" THEN {Plain(<<"own hook">>), Absent}
     ELSE IF f \in Managed /\ c # Absent
     THEN {[c EXCEPT !.lines = <<"own 2">> \o @], [c EXCEPT !.lines = @ \o <<"own 2">>],
           [c EXCEPT !.lines = Outside(@)], [c EXCEPT !.lines = [i \in DOMAIN @ |-> Redone(@[i])]],
           Absent} \union OddEdits(f, c)
     ELSE {Plain(<<"own 2">>), Absent}
Touched(f) ==
  /\ f = focus /\ f \in Managed \union Whole \union Seeded \union {"settings"}
  /\ f = "reviewer" => files["gate-reviewer"] = Absent \/ OddInputs
Edit(f) ==
  /\ Touched(f) /\ Uses("edits")
  /\ \E c \in Edits(f) : c # files[f] /\ files' = [files EXCEPT ![f] = c]
  /\ operation' = [operation EXCEPT !.fresh = FALSE]
  /\ UNCHANGED <<gitVars, vcm, revision, role, bootstrap, engineer, halfway, focus, hplan>>
EditProduct ==
  /\ ~product /\ Uses("edits") /\ product' = TRUE
  /\ UNCHANGED <<files, committed, vcm, operation, revision, role,
                 bootstrap, engineer, halfway, focus, hplan>>
\* A new VCM: its package, and with it the rules, a tool of the script alone, or neither.
Upgrade ==
  /\ vcm.package = 1 /\ Quiet /\ Uses("upgrades")
  /\ \E r, t \in 1..2 : vcm' = [package |-> 2, rules |-> r, tool |-> t]
  /\ operation' = Idle
  /\ UNCHANGED <<files, gitVars, revision, role, bootstrap, engineer, halfway, focus, hplan>>

(***************************************************************************)
(* Apply and the edit in Harness Studio.                                   *)
(***************************************************************************)
BeginApply ==
  /\ Quiet /\ Clean /\ Uses("applies")
  /\ operation' = [Idle EXCEPT !.kind = "install", !.at = 1, !.fresh = TRUE]
  /\ UNCHANGED <<files, gitVars, vcm, revision, role, bootstrap, engineer, halfway, focus, hplan>>
Step == IF operation.at < Len(Order) THEN [operation EXCEPT !.at = @ + 1]
        ELSE [operation EXCEPT !.kind = "finish"]
GivesUp == operation' = Idle /\ halfway' = (halfway \/ operation.changed # {})
InstallFile ==
  LET f == Order[operation.at]
      next == Installed(f, operation.changed)
      changed == IF next = files THEN {} ELSE {f}
  IN /\ operation.kind = "install" /\ ~ScriptExits(f)
     /\ files' = next /\ Misses(changed # {})
     /\ operation' = [Step EXCEPT !.changed = @ \union changed]
     /\ UNCHANGED <<gitVars, vcm, revision, bootstrap, engineer, halfway, focus, hplan, hused>>
InstallFails ==
  /\ operation.kind = "install"
  /\ \/ ScriptExits(Order[operation.at]) /\ UNCHANGED hused
     \/ Uses("faults")
  /\ GivesUp
  /\ UNCHANGED <<files, gitVars, vcm, revision, role, bootstrap, engineer, focus, hplan>>
\* Harness Studio: the whole file, with the managed block as it is.
Editable == Managed \union {"glossary"}
EditInStudio(f) ==
  LET c == files[f]
  IN /\ Quiet /\ Clean /\ f \in Editable /\ Touched(f) /\ Uses("edits")
     /\ \E new \in Edits(f) \ {Absent, c} :
          /\ f \in Managed => Block(new.lines) = Block(c.lines)
          /\ files' = [files EXCEPT ![f] = new]
     /\ Misses(TRUE)
     /\ operation' = [Idle EXCEPT !.kind = "finish", !.changed = {f}]
     /\ UNCHANGED <<gitVars, vcm, revision, bootstrap, engineer, halfway, focus, hplan>>
\* Mutant: only an install counts as a change of the Harness.
BumpsForInstall == operation.kind = "finish" /\ Cardinality(operation.changed) > 1
Bumps == operation.kind = "finish" /\ operation.changed # {}
\* The end of both: the revision, then the commit, unless product code changed meanwhile.
Bump ==
  /\ operation.kind = "finish"
  /\ revision' = IF Bumps THEN revision + 1 ELSE revision
  /\ operation' = [operation EXCEPT !.kind = "commit"]
  /\ UNCHANGED <<files, gitVars, vcm, role, bootstrap, engineer, halfway, focus, hplan, hused>>
BumpFails ==
  /\ operation.kind = "finish" /\ Uses("faults") /\ GivesUp
  /\ UNCHANGED <<files, gitVars, vcm, revision, role, bootstrap, engineer, focus, hplan>>
CommitHarness ==
  /\ operation.kind = "commit"
  /\ IF product \/ Dirty \intersect Product # {}
     THEN operation' = Idle /\ UNCHANGED committed
     ELSE /\ operation' = [Idle EXCEPT !.fresh = operation.fresh]
          /\ IF Clean THEN UNCHANGED committed ELSE Commits(files)
  /\ UNCHANGED <<files, product, vcm, revision, role, bootstrap, engineer,
                 halfway, focus, hplan, hused>>

(***************************************************************************)
(* Roles.  One runs and reads its rules when it starts; the launch and the *)
(* record of the revision follow each other within milliseconds.           *)
(***************************************************************************)
RoleStarts ==
  /\ ~role.on /\ Uses("roles") /\ role' = [on |-> TRUE, rev |-> revision, missed |-> FALSE]
  /\ UNCHANGED <<files, gitVars, vcm, operation, revision, bootstrap, engineer, halfway, focus, hplan>>
RoleStops ==
  /\ role.on /\ Uses("stops") /\ role' = [role EXCEPT !.on = FALSE, !.missed = FALSE]
  /\ UNCHANGED <<files, gitVars, vcm, operation, revision, bootstrap, engineer, halfway,
                 focus, hplan>>
\* The view offers the refresh while the recorded revision is older; the prompt makes it read.
Outdated == role.on /\ role.rev < revision
NotifyRole ==
  /\ Outdated /\ role' = [role EXCEPT !.rev = revision, !.missed = FALSE]
  /\ UNCHANGED <<files, gitVars, vcm, operation, revision, bootstrap, engineer, halfway,
                 focus, hplan, hused>>

(***************************************************************************)
(* The bootstrap: a prompt to the Harness Engineer, ended by its Stop.     *)
(***************************************************************************)
NoRun == [status |-> "none", session |-> 0]
FixedReady ==
  /\ \A f \in {"claude", "manifest", "skill", "glossary", "standards", "guard", "generator"} :
        files[f] # Absent
  /\ Places(files["claude"].lines, "BEGIN") # {}
  /\ IsManifest(files["manifest"])
RunActive == bootstrap.status = "running" /\ engineer.on /\ bootstrap.session = engineer.session
OwnText(t) == \E i \in 1..Len(t) : t[i] \in OwnLines /\ \A b \in Places(t, "BEGIN") : i < b
ProjectParts == {OwnText(files["claude"].lines),
                 files["glossary"] \notin {Absent, SeedOf("glossary")},
                 files["testing"] \notin {Absent, SeedOf("testing")}}
BootstrapStatus ==
  IF ~FixedReady THEN "not_ready"
  ELSE IF RunActive THEN "running"
  ELSE IF bootstrap.status = "complete" \/ FALSE \notin ProjectParts THEN "complete"
  ELSE IF TRUE \in ProjectParts THEN "incomplete" ELSE "not_started"
CanStart == FixedReady /\ BootstrapStatus # "running"
\* Start or restart from the bootstrap panel: a running engineer is kept by the first.
StartEngineer ==
  /\ CanStart /\ Uses("engineers")
  /\ engineer' = [session |-> engineer.session + 1, on |-> TRUE, turn |-> "idle", asked |-> FALSE]
  /\ halfway' = (halfway \/ engineer.turn = "bootstrap")
  /\ UNCHANGED <<files, gitVars, vcm, operation, revision, role, bootstrap, focus, hplan>>
\* The run is recorded, then the prompt is typed: it may not arrive.
RunBootstrap ==
  /\ Clean /\ engineer.on /\ Uses("runs")
  /\ Interrupted \/ (engineer.turn = "idle" /\ ~engineer.asked)
  /\ bootstrap' = [status |-> "running", session |-> engineer.session]
  /\ engineer' = [engineer EXCEPT !.asked = TRUE]
  /\ UNCHANGED <<files, gitVars, vcm, operation, revision, role, halfway, focus, hplan>>
PromptArrives ==
  /\ engineer.asked /\ engineer.turn = "idle"
  /\ engineer' = [engineer EXCEPT !.turn = "bootstrap", !.asked = FALSE]
  /\ UNCHANGED <<files, gitVars, vcm, operation, revision, role, bootstrap, halfway,
                 focus, hplan, hused>>
OtherTurn ==
  /\ engineer.on /\ engineer.turn = "idle" /\ Uses("engineers")
  /\ Interrupted \/ ~engineer.asked
  /\ engineer' = [engineer EXCEPT !.turn = "other"]
  /\ UNCHANGED <<files, gitVars, vcm, operation, revision, role, bootstrap, halfway, focus, hplan>>
\* Project context above the block, the glossary and the test guide, committed by the engineer.
Bootstrapped ==
  LET c == files["claude"]
  IN [files EXCEPT !["claude"] = [c EXCEPT !.lines = <<"own 1">> \o @],
                   !["glossary"] = Plain(<<"own 1">>), !["testing"] = Plain(<<"own 1">>)]
EngineerWorks ==
  /\ engineer.turn = "bootstrap" /\ Quiet
  /\ files["claude"] # Absent /\ ~OwnText(files["claude"].lines)
  /\ files' = Bootstrapped /\ Misses(TRUE)
  /\ committed' = [f \in DOMAIN committed |->
                     IF f \in {"claude", "glossary", "testing"} THEN Bootstrapped[f] ELSE committed[f]]
  /\ UNCHANGED <<product, vcm, operation, revision, bootstrap, engineer, halfway,
                 focus, hplan, hused>>
\* recordHarnessBootstrapHook: the Stop of the session that was asked ends the run.
EngineerStops ==
  /\ engineer.turn # "idle"
  /\ IF bootstrap = [status |-> "running", session |-> engineer.session]
     THEN revision' = revision + 1 /\ bootstrap' = [bootstrap EXCEPT !.status = "complete"]
     ELSE UNCHANGED <<revision, bootstrap>>
  /\ engineer' = [engineer EXCEPT !.turn = "idle"]
  /\ UNCHANGED <<files, gitVars, vcm, operation, role, halfway, focus, hplan, hused>>
CutOff == halfway' = (halfway \/ engineer.turn = "bootstrap")
StopBootstrap ==
  /\ engineer.on /\ Uses("stops")
  /\ engineer' = [engineer EXCEPT !.on = FALSE, !.turn = "idle", !.asked = FALSE] /\ bootstrap' = NoRun /\ CutOff
  /\ UNCHANGED <<files, gitVars, vcm, operation, revision, role, focus, hplan>>
EngineerExits ==
  /\ engineer.on /\ Uses("faults")
  /\ engineer' = [engineer EXCEPT !.on = FALSE, !.turn = "idle", !.asked = FALSE] /\ CutOff
  /\ UNCHANGED <<files, gitVars, vcm, operation, revision, role, bootstrap, focus, hplan>>

(***************************************************************************)
(* Initial repositories: new to VCM, or with an older Harness; one file is *)
(* what the project, or a VCM of long ago, made of it.                     *)
(***************************************************************************)
OldVcm == [package |-> 1, rules |-> 1, tool |-> 1]
InstalledBefore ==
  [f \in Files |->
     IF f \in Managed THEN InstalledManaged(f, Absent, 1)
     ELSE CASE f = "skill" -> Plain(<<"rules 1">>)
            [] f = "guard" -> Plain(<<"tool 1">>)
            [] f \in Seeded -> SeedOf(f)
            [] f = "settings" -> MergeHooks(Absent, 1)
            [] f = "manifest" -> Plain(<<"manifest", "package 1">>)
            [] OTHER -> Absent]
OldAgent(name, t) ==
  [fm |-> [NoFm EXCEPT !.on = TRUE, !.tools = {"Read"}, !.skills = {"navigation"},
                       !.own = {"model"}],
   lines |-> <<name, "own 1">> \o t]
OddFound(f) ==
  IF ~OddInputs THEN {}
  ELSE IF f = "settings" THEN {Plain(<<"own VCM hook">>)}
  ELSE IF f \in Managed THEN {Plain(<<"own 1", "BEGIN", "rules 1", "own 2">>)} ELSE {}
Found(f) ==
  OddFound(f) \union
  CASE f = "gate-reviewer" -> {OldAgent("old title", ManagedBlock(1)), OldAgent("own 2", <<>>)}
    [] f \in Agents -> {OldAgent("title", <<>>), Plain(<<"own 1">>),
                        [OldAgent("title", <<"<memory>", "memo", "</memory>">> \o ManagedBlock(1))
                         EXCEPT !.fm.tools = NoLine, !.fm.deny = {"Skill"}]}
    [] f = "claude" -> {Plain(<<>>), Plain(<<"own 1">>), Plain(ManagedBlock(1) \o <<"own 1">>),
                        Plain(<<"own 1", "<memory>", "memo", "</memory>", "own 2">>)}
    [] f = "standards" -> {Plain(<<"legacy">>), Plain(<<"legacy", "own 1">>),
                           Plain(<<"own 1", "legacy">>), Plain(<<>>)}
    [] f = "ignore" -> {Plain(<<"own 1">>), Plain(ManagedBlock(1) \o <<"own 1">>)}
    [] f = "settings" -> {Junk, Plain(<<"own hook", "hooks 1">>), Plain(<<"own hook">>)}
    [] f = "flat-skill" -> {Plain(<<"rules 1">>), Plain(<<"own 1">>)}
    [] f = "manifest" -> {Junk, Plain(<<"foreign">>)}
    [] f = "directories" -> {Plain(<<"made">>)}
    [] OTHER -> {Plain(<<"own 1">>)}

HarnessInit ==
  /\ vcm = OldVcm
  /\ \E base \in {[f \in Files |-> Absent], InstalledBefore}, f \in Files :
       \E c \in Found(f) \union {base[f]} :
         /\ focus = f
         /\ files = [base EXCEPT ![f] = c, !["reviewer"] = IF f = "gate-reviewer" THEN Absent
                                                       ELSE IF f = "reviewer" THEN c ELSE @]
  /\ committed = Visible(files)
  /\ product = FALSE
  /\ operation = Idle /\ revision = 0 /\ halfway = FALSE
  /\ role = [on |-> FALSE, rev |-> 0, missed |-> FALSE]
  /\ bootstrap = NoRun /\ engineer = [session |-> 0, on |-> FALSE, turn |-> "idle", asked |-> FALSE]
  /\ hplan \in HarnessPlans /\ hused = [k \in DOMAIN hplan |-> 0]

HarnessNext ==
  \/ CommitByHand \/ EditProduct \/ Upgrade \/ (\E f \in Files : Edit(f))
  \/ BeginApply \/ InstallFile \/ InstallFails \/ (\E f \in Files : EditInStudio(f))
  \/ Bump \/ BumpFails \/ CommitHarness
  \/ RoleStarts \/ RoleStops \/ NotifyRole
  \/ StartEngineer \/ RunBootstrap \/ PromptArrives \/ OtherTurn \/ EngineerWorks
  \/ EngineerStops \/ StopBootstrap \/ EngineerExits
HarnessSpec == HarnessInit /\ [][HarnessNext]_harnessVars

(***************************************************************************)
(* Properties.                                                             *)
(***************************************************************************)
\* Two texts hold the same lines of the project, in the same order.
OwnPlaces(t) == {i \in DOMAIN t : t[i] \in OwnLines}
SameText(s, t) ==
  \E to \in [OwnPlaces(s) -> OwnPlaces(t)] :
    /\ \A i \in OwnPlaces(s) : t[to[i]] = s[i]
    /\ \A i, j \in OwnPlaces(s) : i < j => to[i] < to[j]
    /\ \A k \in OwnPlaces(t) : \E i \in OwnPlaces(s) : to[i] = k
TextKept(c, d) == d.fm.own = c.fm.own /\ SameText(Outside(c.lines), Outside(d.lines))
Shared == Managed \union Seeded \union {"settings", "flat-skill"}

(* Whatever the project's files look like, installing the Harness leaves   *)
(* every line of the project outside the managed block, every memory a     *)
(* role recorded and every hook of the project where they are and in their *)
(* order; the renamed reviewer takes its text along (README.md:157).       *)
ProjectTextKept ==
  [][InstallFile =>
       /\ \A f \in Shared : files[f] # Absent => TextKept(files[f], files'[f])
       /\ files'["gate-reviewer"] # files["gate-reviewer"] =>
            TextKept(files["gate-reviewer"], files'["reviewer"])]_harnessVars

(* The panel and the script are two implementations of one set of files.   *)
(* When an Apply has ended and nobody has touched the files since, the     *)
(* status plans nothing and a second run of the script would write nothing *)
(* (harness-service.ts:1520-1780, install-vcm-harness.ts:860-1250).        *)
AppliedIsCurrent ==
  Quiet /\ operation.fresh =>
    ~StatusFails /\ Planned = {} /\ \A f \in Files : Installed(f, {}) = files

(* A running role that VCM has changed the rules under since it read them  *)
(* is offered the refresh: between operations, with none cut off half-way, *)
(* the revision it recorded is older than the task's (session-service      *)
(* withHarnessRevisionView, harness-service bumpHarnessRevision callers).  *)
NobodyMissesAnUpdate ==
  Quiet /\ ~halfway /\ bootstrap.status # "running" /\ role.on /\ role.missed => Outdated
=============================================================================
