------------------------------ MODULE InitProject -----------------------------
(***************************************************************************)
(* `cre init`: it finds the project it is run in, or makes one in a        *)
(* directory below the current one, and writes a workflow into it from a   *)
(* template.  Every file is a step of its own, after any of which the      *)
(* command may fail or be killed; it can then be run again, from inside    *)
(* the project or from where it was first run.  Between runs the user      *)
(* edits what was generated.  A file that was being written when the       *)
(* command was killed counts as written.                                   *)
(***************************************************************************)
EXTENDS Naturals, FiniteSets

CONSTANTS Workflows, \* workflow names
          MaxRuns    \* bound: runs of the command

\* The project directory and the lack of a workflow have names of their own.
InitProjectAssumption ==
  MaxRuns \in Nat /\ Workflows \cap {"root", "none"} = {}

\* languageTemplates, in their order, by what a template brings to the project
\* as contracts: files, directories only, or nothing.
Templates ==
  {[lang |-> "Golang", name |-> "PoR", contracts |-> "files", hidden |-> FALSE],
   [lang |-> "Golang", name |-> "HelloWorld", contracts |-> "directories",
    hidden |-> FALSE],
   [lang |-> "Typescript", name |-> "HelloWorld", contracts |-> "none",
    hidden |-> FALSE],
   [lang |-> "Typescript", name |-> "PoR", contracts |-> "files", hidden |-> FALSE],
   [lang |-> "Typescript", name |-> "ConfHTTP", contracts |-> "none",
    hidden |-> TRUE]}

ProjectFiles == {"root"} \X {"project.yaml", ".env", ".gitignore", "go.mod",
                           "secrets.yaml", "contracts"}
WorkflowFiles(w) == {w} \X {"code", "workflow.yaml"}
Files == ProjectFiles \cup UNION {WorkflowFiles(w) : w \in Workflows}

Root(f) == <<"root", f>>

VARIABLES dirs,  \* the directories that exist, the project as "root"
          files, \* each file: absent, as generated, or edited by the user
          cmd,   \* the running command
          runs   \* how many were run

vars == <<dirs, files, cmd, runs>>

NoWorkflow == "none"
NoTemplate == [lang |-> "", name |-> "", contracts |-> "none", hidden |-> FALSE]

Idle(outcome) == [at |-> outcome, inside |-> FALSE, found |-> FALSE,
                  flag |-> FALSE, template |-> NoTemplate,
                  wf |-> NoWorkflow, agreed |-> {}]

Outcomes == {"none", "ok", "failed"}
-----------------------------------------------------------------------------
Goto(at) == cmd' = [cmd EXCEPT !.at = at] /\ UNCHANGED runs

\* Write these files from the template, whatever they held.
Write(fs) ==
  files' = [f \in Files |-> IF f \in fs THEN "generated" ELSE files[f]]

Present(f) == files[f] # "absent"

\* The user is in the project, which shows by its settings file, or next to it.
Run ==
  /\ cmd.at \in Outcomes /\ runs < MaxRuns
  /\ \E inside \in BOOLEAN, flag \in BOOLEAN, w \in Workflows :
       /\ inside => Present(Root("project.yaml"))
       /\ cmd' = [Idle("find") EXCEPT !.inside = inside, !.flag = flag, !.wf = w]
  /\ runs' = runs + 1
  /\ UNCHANGED <<dirs, files>>

FindProject ==
  /\ cmd.at = "find"
  /\ cmd' = [cmd EXCEPT !.found = cmd.inside,
                        !.at = IF cmd.inside THEN "checkEnv" ELSE "makeRoot"]
  /\ UNCHANGED <<dirs, files, runs>>

\* What goes when a directory is overwritten.
Below(d) == IF d = "root" THEN Files ELSE WorkflowFiles(d)

\* Mutant of Asked: a directory that exists is overwritten unasked.
NeverAsked(d) == UNCHANGED cmd

\* ensureProjectDirectoryExists asks before it removes a directory.
Asked(d) == cmd' = [cmd EXCEPT !.agreed = @ \cup Below(d)]

EnsureDirectory(at, d, next) ==
  /\ cmd.at = at
  /\ \/ /\ d \notin dirs
        /\ dirs' = dirs \cup {d} /\ UNCHANGED files
        /\ Goto(next)
     \/ /\ d \in dirs
        /\ Asked(d)
        /\ dirs' = IF d = "root" THEN {} ELSE dirs \ {d}
        /\ files' = [f \in Files |-> IF f \in Below(d) THEN "absent" ELSE files[f]]
        /\ UNCHANGED runs

MakeRoot == EnsureDirectory("makeRoot", "root", "pick")

\* A project that was found gets the environment file it lacks.
CheckEnv ==
  /\ cmd.at = "checkEnv"
  /\ IF Present(Root(".env")) THEN Goto("pick") /\ UNCHANGED files
     ELSE Write({Root(".env")}) /\ Goto("checkIgnore")
  /\ UNCHANGED dirs

\* GenerateGitIgnoreFile, the end of GenerateProjectEnvFile.
GitIgnore(at, next) ==
  /\ cmd.at = at
  /\ IF Present(Root(".gitignore")) THEN UNCHANGED files ELSE Write({Root(".gitignore")})
  /\ Goto(next)
  /\ UNCHANGED dirs

CheckIgnore == GitIgnore("checkIgnore", "pick")

\* The languages the prompts offer: a project with a module file is a Golang
\* one.
OfferedLanguages ==
  IF ~cmd.found THEN {"Golang", "Typescript"}
  ELSE IF Present(Root("go.mod")) THEN {"Golang"} ELSE {"Typescript"}

\* A template given by its id may be any; the prompts show those not hidden.
Offered ==
  IF cmd.flag THEN Templates
  ELSE {t \in Templates : ~t.hidden /\ t.lang \in OfferedLanguages}

PickTemplate ==
  /\ cmd.at = "pick"
  /\ \E t \in Offered :
       cmd' = [cmd EXCEPT !.template = t,
                          !.at = IF cmd.found THEN "makeWorkflow"
                                 ELSE "settings"]
  /\ UNCHANGED <<dirs, files, runs>>

\* FindOrCreateProjectSettings.  No directory above holds a project: a run
\* that found one does not come here.
ProjectSettings ==
  /\ cmd.at = "settings"
  /\ IF Present(Root("project.yaml")) THEN UNCHANGED files
     ELSE Write({Root("project.yaml")})
  /\ Goto("env")
  /\ UNCHANGED dirs

\* GenerateProjectEnvFile asks before it replaces a file.
ProjectEnv ==
  /\ cmd.at = "env"
  /\ Write({Root(".env")})
  /\ cmd' = [cmd EXCEPT !.at = "ignore",
               !.agreed = IF Present(Root(".env")) THEN @ \cup {Root(".env")} ELSE @]
  /\ UNCHANGED <<dirs, runs>>

Ignore == GitIgnore("ignore", "makeWorkflow")

MakeWorkflow == EnsureDirectory("makeWorkflow", cmd.wf, "secrets")

\* Every template brings a secrets file, which goes to the project.
CopySecrets ==
  /\ cmd.at = "secrets"
  /\ Write({Root("secrets.yaml")}) /\ Goto("code")
  /\ UNCHANGED dirs

GenerateWorkflow ==
  /\ cmd.at = "code"
  /\ Write({<<cmd.wf, "code">>}) /\ Goto("contracts")
  /\ UNCHANGED dirs

\* MkdirAll leaves directories that are there alone.
WritesContracts ==
  \/ cmd.template.contracts = "files"
  \/ cmd.template.contracts = "directories" /\ ~Present(Root("contracts"))

GenerateContracts ==
  /\ cmd.at = "contracts"
  /\ IF WritesContracts THEN Write({Root("contracts")}) ELSE UNCHANGED files
  /\ Goto("module")
  /\ UNCHANGED dirs

\* initializeGoModule: go mod init makes the module file if there is none.  The
\* four go get, which pin their versions, and go mod tidy run on any module file
\* and may take from it what the user put there, or not.  A go get that fails
\* leaves the file as the calls before it made it.
GoModule ==
  /\ cmd.at = "module"
  /\ \/ cmd.template.lang = "Golang" /\ Write({Root("go.mod")})
     \/ cmd.template.lang = "Golang" /\ Present(Root("go.mod")) /\ UNCHANGED files
     \/ cmd.template.lang # "Golang" /\ UNCHANGED files
  /\ Goto("workflowSettings")
  /\ UNCHANGED dirs

WorkflowSettings ==
  /\ cmd.at = "workflowSettings"
  /\ Write({<<cmd.wf, "workflow.yaml">>}) /\ Goto("ok")
  /\ UNCHANGED dirs

\* An error, an answer that aborts, three bad workflow names, or a kill.
Fail ==
  /\ cmd.at \notin Outcomes
  /\ Goto("failed")
  /\ UNCHANGED <<dirs, files>>

Edit ==
  /\ cmd.at \in Outcomes
  /\ \E f \in Files :
       /\ files[f] = "generated"
       /\ files' = [files EXCEPT ![f] = "edited"]
  /\ UNCHANGED <<dirs, cmd, runs>>

Init ==
  /\ dirs = {} /\ files = [f \in Files |-> "absent"]
  /\ cmd = Idle("none") /\ runs = 0

Next ==
  \/ Run \/ FindProject \/ MakeRoot \/ CheckEnv \/ CheckIgnore \/ PickTemplate
  \/ ProjectSettings \/ ProjectEnv \/ Ignore \/ MakeWorkflow \/ CopySecrets
  \/ GenerateWorkflow \/ GenerateContracts \/ GoModule \/ WorkflowSettings
  \/ Fail \/ Edit

Spec == Init /\ [][Next]_vars
-----------------------------------------------------------------------------
Steps == {"find", "makeRoot", "checkEnv", "checkIgnore", "pick", "settings",
          "env", "ignore", "makeWorkflow", "secrets", "code", "contracts",
          "module", "workflowSettings"}

Command ==
  [at : Outcomes \cup Steps, inside : BOOLEAN, found : BOOLEAN, flag : BOOLEAN,
   template : Templates \cup {NoTemplate}, wf : Workflows \cup {NoWorkflow},
   agreed : SUBSET Files]

TypeOK ==
  /\ dirs \subseteq {"root"} \cup Workflows
  /\ files \in [Files -> {"absent", "generated", "edited"}]
  /\ cmd \in Command /\ runs \in 0..MaxRuns
  /\ (\E w \in Workflows : w \in dirs) => "root" \in dirs

\* A run that reports success leaves a project that can be used: settings,
\* environment, module file and workflow are there, whatever the runs before
\* it left behind (creinit.go:357).
SuccessIsComplete ==
  cmd.at = "ok" =>
    /\ \A f \in {Root("project.yaml"), Root(".env")} \cup WorkflowFiles(cmd.wf) : Present(f)
    /\ cmd.template.lang = "Golang" => Present(Root("go.mod"))

\* What a run writes again without asking: the secrets of the template, its
\* contracts, and the module file of a Golang project.
RewrittenBy(template) ==
  {Root("secrets.yaml")}
    \cup (IF template.contracts = "files" THEN {Root("contracts")} ELSE {})
    \cup (IF template.lang = "Golang" THEN {Root("go.mod")} ELSE {})

\* A run of init loses the user's edits to a file only if it asked about the
\* file or its directory, or if the file is one of those its template makes it
\* write again unasked: project settings, environment, ignored files and
\* workflows are safe in every project, the contracts from the templates that
\* bring none and the module file from a Typescript template
\* (creinit.go:580, settings_generate.go:67, go_module_init.go:21).
KeptUnlessAgreed ==
  \A f \in Files :
    files[f] = "edited" /\ files'[f] # "edited" =>
      f \in cmd'.agreed \cup RewrittenBy(cmd.template)
===============================================================================
