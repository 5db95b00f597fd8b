--------------------------- MODULE MCRecordCommands ---------------------------
(***************************************************************************)
(* The CRE command line tool for model checking: the groups of commands    *)
(* that read what is on record, decide, and write it back.  The records    *)
(* are the registered workflows and the changeset file, the session, the   *)
(* project, the settings and the tool itself.  The groups share no state   *)
(* that their modules keep: each has its own part of the contract or its   *)
(* own files.  A step of one group leaves the others as they are, so that  *)
(* a property of one group holds in the whole tool if it holds where only  *)
(* that group runs.  A behaviour therefore picks one group and the flags   *)
(* it runs with, `config`; variables of the other groups are Unused.       *)
(* Groups that name a variable alike share it here.                        *)
(***************************************************************************)
EXTENDS Naturals, TLC

CONSTANTS Configs,         \* the groups a run looks at
          Procs,           \* processes running a command
          OneProc,         \* those of the groups run one at a time
          Names, Contents, OtherContent, Workflows, Mine, Other, Nobody,
          Rotates, cacheDuration, FirstInstall,
          MaxCommands, MaxRuns, MaxInits, MaxMinted, MaxVersion, MaxTime,
          MaxDirs          \* bounds, as in the modules

VARIABLES config,
  \* of several groups
  cli, runs, cmd,
  \* WorkflowCommands
  reg, block, late, prepared, csFile, last, started,
  \* Session
  file, tmp, data, minted, valid, doomed, overlapped,
  \* InitProject
  dirs, files,
  \* SelfUpdate
  clock, latest, cache, installed, pc, procs,
  \* CommandSettings
  parent, projects, envs, at, cwd, root, env, target, project, owner

Regular == INSTANCE WorkflowCommands WITH
  Type <- "regular", SkipConfirmation <- FALSE, MaxActive <- 1, MaxBlock <- 3
Offline == INSTANCE WorkflowCommands WITH
  Type <- "raw", SkipConfirmation <- FALSE, MaxActive <- 1, MaxBlock <- 3,
  Procs <- OneProc
Changeset == INSTANCE WorkflowCommands WITH
  Type <- "changeset", SkipConfirmation <- FALSE, MaxActive <- 1, MaxBlock <- 3,
  Procs <- OneProc
Tool == INSTANCE Session
InitCmd == INSTANCE InitProject WITH MaxRuns <- MaxInits
Update == INSTANCE SelfUpdate
Settings == INSTANCE CommandSettings WITH N <- MaxDirs

ASSUME RecordCommandsAssumption ==
  /\ Regular!WorkflowCommandsAssumption /\ Offline!WorkflowCommandsAssumption
  /\ Changeset!WorkflowCommandsAssumption /\ Tool!SessionAssumption
  /\ InitCmd!InitProjectAssumption /\ Update!SelfUpdateAssumption
  /\ Settings!CommandSettingsAssumption
------------------------------------------------------------------------------
On(c) == config = c

\* The variables of each group alone, and the flags it is run with.
workflowVars == <<reg, block, late, prepared, csFile, last, started>>
sessionVars == <<file, tmp, data, minted, valid, doomed, overlapped>>
initVars == <<dirs, files>>
updateVars == <<clock, latest, cache, installed, pc, procs>>
settingsVars == <<parent, projects, envs, at, cwd, root, env,
                  target, project, owner>>

OnWorkflow == config \in {"regular", "offline", "changeset"}
OnCli == OnWorkflow \/ On("session")
OnRuns == config \in {"init", "update"}
OnCmd == config \in {"init", "settings"}

vars == <<config, cli, runs, cmd, workflowVars, sessionVars, initVars,
          updateVars, settingsVars>>

Unused == "unused"

OthersInit ==
  /\ ~OnWorkflow =>
       /\ reg = Unused /\ block = Unused /\ late = Unused
       /\ prepared = Unused /\ csFile = Unused /\ last = Unused
       /\ started = Unused
  /\ ~On("session") =>
       /\ file = Unused /\ tmp = Unused /\ data = Unused
       /\ minted = Unused /\ valid = Unused /\ doomed = Unused
       /\ overlapped = Unused
  /\ ~On("init") => dirs = Unused /\ files = Unused
  /\ ~On("update") =>
       /\ clock = Unused /\ latest = Unused /\ cache = Unused
       /\ installed = Unused /\ pc = Unused /\ procs = Unused
  /\ ~On("settings") =>
       /\ parent = Unused /\ projects = Unused
       /\ envs = Unused /\ at = Unused /\ cwd = Unused
       /\ root = Unused /\ env = Unused /\ target = Unused
       /\ project = Unused /\ owner = Unused
  /\ ~OnCli => cli = Unused
  /\ ~OnRuns => runs = Unused
  /\ ~OnCmd => cmd = Unused

\* What belongs to the other groups stays as it is.
Others ==
  /\ UNCHANGED config
  /\ ~OnWorkflow => UNCHANGED workflowVars
  /\ ~On("session") => UNCHANGED sessionVars
  /\ ~On("init") => UNCHANGED initVars
  /\ ~On("update") => UNCHANGED updateVars
  /\ ~On("settings") => UNCHANGED settingsVars
  /\ ~OnCli => UNCHANGED cli
  /\ ~OnRuns => UNCHANGED runs
  /\ ~OnCmd => UNCHANGED cmd

Init ==
  /\ config \in Configs
  /\ On("regular") => Regular!Init
  /\ On("offline") => Offline!Init
  /\ On("changeset") => Changeset!Init
  /\ On("session") => Tool!Init
  /\ On("init") => InitCmd!Init
  /\ On("update") => Update!Init
  /\ On("settings") => Settings!Init
  /\ OthersInit

Next ==
  \/ On("regular") /\ Regular!Next /\ Others
  \/ On("offline") /\ Offline!Next /\ Others
  \/ On("changeset") /\ Changeset!Next /\ Others
  \/ On("session") /\ Tool!Next /\ Others
  \/ On("init") /\ InitCmd!Next /\ Others
  \/ On("update") /\ Update!Next /\ Others
  \/ On("settings") /\ Settings!Next /\ Others

\* Interchangeable values.  OneProc is disjoint from Procs.
RecordSymmetry ==
  Permutations(Procs) \cup Permutations(Names) \cup Permutations(Workflows)

Spec == Init /\ [][Next]_vars
------------------------------------------------------------------------------
TypeOK ==
  /\ On("regular") => Regular!TypeOK
  /\ On("offline") => Offline!TypeOK
  /\ On("changeset") => Changeset!TypeOK
  /\ On("session") => Tool!TypeOK
  /\ On("init") => InitCmd!TypeOK
  /\ On("update") => Update!TypeOK
  /\ On("settings") => Settings!TypeOK

\* The checks a command makes before it sends a transaction are exactly as
\* strict as the contract, as long as nobody changes the registry after its
\* first read: what passes them is accepted and announced, and what they refuse
\* for the quota would have been rejected (limits.go:21, activate.go:106).
ChecksMatchContract ==
  [][/\ On("regular") => Regular!ChecksSuffice' /\ Regular!RefusalsJustified
     /\ On("offline") => Offline!ChecksSuffice']_vars

\* A paused workflow starts running again only by an activate, or by a deploy
\* that looked at the registry before the pause: no deploy that saw the pause
\* undoes it, however late its transaction lands (deploy.go:261).
PauseNotUndone ==
  [][/\ On("regular") => Regular!PauseNotUndone
     /\ On("offline") => Offline!PauseNotUndone
     /\ On("changeset") => Changeset!PauseNotUndone]_vars

\* A command that reports success has done what it was asked: what it was to
\* change is changed on the chain, its changeset is in the file next to the
\* earlier ones, a project that was initialised is complete, and an update
\* leaves a complete binary (delete.go:184, creinit.go:357).
SuccessMeansDone ==
  [][/\ On("regular") => Regular!SuccessMeansDone
     /\ On("changeset") => Changeset!AppendedStays'
     /\ On("init") => InitCmd!SuccessIsComplete'
     /\ On("update") => Update!BinaryIsWhole']_vars

\* No order of commands, kills and refreshes of several processes leaves half
\* a credentials file, or one that logs the user out, as long as no two of them
\* save at once: they share the temporary file (credentials.go:90,
\* graphqlclient.go:80).
SessionKept == On("session") => Tool!SessionKept

\* What a user edited is never lost to a run of init that did not ask about it,
\* after interrupted runs too, except in the files every such run writes again:
\* the secrets, the contracts its template brings, and the module file of a
\* Golang project (creinit.go:580).
KeptUnlessAgreed == [][On("init") => InitCmd!KeptUnlessAgreed]_vars

\* A check for updates that reaches GitHub knows of every release that is older
\* than cacheDuration, although other commands empty the cache and overwrite it
\* with older answers at any time (update.go:168).
ChecksAreFresh == On("update") => Update!ChecksAreFresh

\* The environment file is the one --env names if that is there and the nearest
\* one otherwise, the project settings are those of the project the command
\* changed to, and a command that may send anything acts for an account, one
\* that the settings do not contradict (settings.go:120, settings_load.go:91,
\* settings_get.go:142).
SettingsAreJustified ==
  On("settings") => /\ Settings!EnvIsRight /\ Settings!SettingsOfTheProject
                    /\ Settings!OwnerIsJustified
===============================================================================
