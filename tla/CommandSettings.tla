---------------------------- MODULE CommandSettings ---------------------------
(***************************************************************************)
(* What a command works with, before it does anything: the directory it    *)
(* changes to, the environment file, the target, the settings files, and   *)
(* the owner it acts for.  Each is looked up from what the steps before    *)
(* left behind, the working directory first of all.  The command tree of   *)
(* cobra and the lookups of viper are modelled from how they are used: a   *)
(* bound flag counts as set when it was given, with whatever value, and an *)
(* environment variable of the name of the key comes next.                 *)
(***************************************************************************)
EXTENDS Naturals, FiniteSets

CONSTANTS N,          \* bound: directories; 1 is the root of the file system
          Mine, Other,\* the address of the private key, and another one
          Nobody      \* no address

CommandSettingsAssumption ==
  /\ N \in Nat \ {0} /\ Cardinality({Mine, Other, Nobody}) = 3

Dirs == 1..N
Nowhere == 0
Named == N + 1  \* the environment file --env names, wherever it is
\* A simulation with --broadcast is a kind of its own.
Kinds == {"workflow", "simulate", "broadcast", "secrets"}
Targets == {"a"}
Unset == "unset"
FlagBool == {Unset, "false", "true"}
\* What --env names.  A file that is not there counts for nothing, like no flag.
EnvFlag == {Unset, "there"}

VARIABLES parent,    \* the directory tree
          projects, envs, \* directories with project.yaml, and with .env
          at, cwd,   \* the step of the command, and its working directory
          cmd,       \* what the user typed, and where
          root,      \* the project directory the command changed to
          env,       \* the directory of the environment file, or Named
          target, project, owner

tree == <<parent, projects, envs>>
vars == <<tree, at, cwd, cmd, root, env, target, project, owner>>

\* The nearest directory at or above d that is in S: up to the root, which is
\* its own parent.
Nearest(S, d) ==
  LET up[e \in Dirs] == IF e \in S THEN e
                        ELSE IF parent[e] = e THEN Nowhere ELSE up[parent[e]]
  IN up[d]

\* Mutant of FindProjectSettingsPath: the search begins above.
SearchAbove(d) == Nearest(projects, parent[d])

FindProjectSettingsPath(d) == Nearest(projects, d)

NoOwner == [address |-> Nobody, settings |-> Nobody, type |-> "none"]

Fails ==
  /\ at' = "failed"
  /\ UNCHANGED <<tree, cwd, cmd, root, env, target, project, owner>>
-----------------------------------------------------------------------------
\* The user runs a command somewhere, and may name the project, the environment
\* file and the target.  Relative names of a workflow are taken from the project
\* root, and those of the environment file from the directory the command has
\* changed to by then, so that a file of that name may be there or not.
Invoke ==
  /\ at = "shell"
  /\ \E here \in Dirs, kind \in Kinds, arg \in Dirs,
        project_root \in Dirs \cup {Nowhere}, env_file \in EnvFlag :
       /\ kind = "secrets" => arg = here
       /\ cmd' = [kind |-> kind, arg |-> arg, root |-> project_root,
                  env |-> env_file]
       /\ cwd' = here
  /\ at' = "context"
  /\ UNCHANGED <<tree, root, env, target, project, owner>>

\* SetProjectContext.  A project that is named has only to exist, and may not.
SetProjectContext ==
  /\ at = "context"
  /\ \/ LET r == IF cmd.root # Nowhere THEN cmd.root
                 ELSE FindProjectSettingsPath(cwd) IN
        IF r = Nowhere THEN Fails
        ELSE /\ at' = "execution" /\ root' = r /\ cwd' = r
             /\ UNCHANGED <<tree, cmd, env, target, project, owner>>
     \/ Fails

IsWorkflowCommand == cmd.kind \in {"workflow", "simulate", "broadcast"}

\* SetExecutionContext: a workflow command goes on to the directory of the
\* workflow, if it can.
SetExecutionContext ==
  /\ at = "execution"
  /\ \/ /\ at' = "env"
        /\ cwd' = IF IsWorkflowCommand THEN cmd.arg ELSE cwd
        /\ UNCHANGED <<tree, cmd, root, env, target, project, owner>>
     \/ IsWorkflowCommand /\ Fails

\* The file that --env names, if it is there.  Else, and by default, the
\* nearest one: the default is a relative path, and findEnvFile climbs from the
\* same directory.
EnvFile == IF cmd.env = "there" THEN Named ELSE Nearest(envs, cwd)

\* LoadEnv: no file is no error.  Nor is a file that cannot be loaded: it is
\* the one that counts, and sets nothing.
LoadEnv ==
  /\ at = "env" /\ at' = "target"
  /\ env' = EnvFile
  /\ UNCHANGED <<tree, cwd, cmd, root, target, project, owner>>

First(t, else) == IF t # Unset THEN t ELSE else

\* GetTarget: the flag, or the variable TARGET that viper binds to it; or
\* CRE_TARGET, which an exported variable keeps from the file.
GetTarget ==
  /\ at = "target"
  /\ \E flag, TARGET, CRE_TARGET \in Targets \cup {Unset},
        file \in IF env = Nowhere THEN {Unset} ELSE {Unset, "a"} :
       LET t == First(flag, First(TARGET, First(CRE_TARGET, file)))
       IN \/ t = Unset /\ Fails
          \/ /\ t # Unset /\ at' = "settings"
             /\ target' = t
             /\ UNCHANGED <<tree, cwd, cmd, root, env, project, owner>>

\* A simulation that broadcasts nothing needs no owner.
ShouldSkipGetOwner == cmd.kind = "simulate"

\* LoadSettingsIntoViper: the project settings are looked for once more, from
\* where the command is now; a workflow's own settings are merged over them.
\* They may be missing, not parse, or not have the target.
LoadSettings ==
  /\ at = "settings"
  /\ \/ Fails
     \/ /\ FindProjectSettingsPath(cwd) # Nowhere
        /\ project' = FindProjectSettingsPath(cwd)
        /\ at' = IF ShouldSkipGetOwner THEN "rpc" ELSE "owner"
        /\ UNCHANGED <<tree, cwd, cmd, root, env, target, owner>>

\* An owner in the settings has to be the one of the private key.  Whatever is
\* written there counts as the address HexToAddress reads in it: it cuts what is
\* too long, fills up what is too short, and makes zero, an address like any
\* other here, of what is no number.
Matches(configured, key) == configured = Nobody \/ configured = key

\* GetWorkflowOwner: a flag that was given calls for an owner in the settings.
GetWorkflowOwner ==
  /\ at = "owner"
  /\ \E unsigned, changeset \in FlagBool, configured \in {Mine, Other, Nobody},
        key \in {Mine, Nobody} :
       LET given == unsigned # Unset \/ changeset # Unset
           act(a, type) ==
             /\ owner' = [address |-> a, settings |-> configured, type |-> type]
             /\ at' = "rpc"
             /\ UNCHANGED <<tree, cwd, cmd, root, env, target, project>>
       IN \/ given /\ configured # Nobody /\ act(configured, "MSIG")
          \/ given /\ configured = Nobody /\ Fails
          \/ ~given /\ key = Mine /\ Matches(configured, key) /\ act(key, "EOA")
          \/ ~given /\ (key = Nobody \/ ~Matches(configured, key)) /\ Fails

\* validateDeploymentRPC, validateSettings and the deployment settings.
ValidateSettings ==
  /\ at = "rpc"
  /\ \/ Fails
     \/ /\ at' = "ready"
        /\ UNCHANGED <<tree, cwd, cmd, root, env, target, project, owner>>

Init ==
  /\ parent \in {f \in [Dirs -> Dirs] : f[1] = 1 /\ \A d \in Dirs \ {1} : f[d] < d}
  /\ projects \in SUBSET Dirs /\ envs \in SUBSET Dirs
  /\ at = "shell" /\ cwd = 1 /\ root = Nowhere /\ env = Nowhere
  /\ cmd = [kind |-> "secrets", arg |-> 1, root |-> Nowhere, env |-> Unset]
  /\ target = Unset
  /\ project = Nowhere /\ owner = NoOwner

Next ==
  \/ Invoke \/ SetProjectContext \/ SetExecutionContext \/ LoadEnv \/ GetTarget
  \/ LoadSettings \/ GetWorkflowOwner \/ ValidateSettings

Spec == Init /\ [][Next]_vars
-----------------------------------------------------------------------------
TypeOK ==
  /\ cwd \in Dirs /\ {root, project} \subseteq Dirs \cup {Nowhere}
  /\ env \in Dirs \cup {Nowhere, Named}
  /\ at \in {"shell", "context", "execution", "env", "target", "settings",
             "owner", "rpc", "ready", "failed"}
  /\ target \in Targets \cup {Unset}
  /\ owner.type \in {"none", "EOA", "MSIG"}

\* Whether a is d or above it, without a recursion of its own: every set that
\* holds d and the parents of its members holds a.
Above(a, d) ==
  \A S \in SUBSET Dirs : d \in S /\ (\A e \in S : parent[e] \in S) => a \in S

\* The environment file is the one --env names, if there is such a file where
\* the command is by then.  Otherwise it is one at or above the working
\* directory, and no other such file is nearer; there is none only when none is
\* there (settings.go:120).
EnvIsRight ==
  at \notin {"shell", "context", "execution", "env", "failed"} =>
    IF cmd.env = "there" THEN env = Named
    ELSE /\ env # Nowhere => env \in envs /\ Above(env, cwd)
         /\ \A d \in envs : Above(d, cwd) => env # Nowhere /\ Above(d, env)

\* A workflow in a project, with no other project in between, is run with the
\* settings of the project whose root the command worked from
\* (settings_load.go:91 after project_context.go:60).
SettingsOfTheProject ==
  project # Nowhere /\ root \in projects /\ Above(root, cwd)
    /\ (\A d \in projects : Above(d, cwd) => Above(d, root))
  => project = root

\* A command never acts for an account that the settings contradict: the owner
\* they name is the one it acts for, and without one it acts for the account of
\* the key (settings_get.go:142).  Only a simulation that broadcasts nothing
\* goes on without an owner (workflow_settings.go:184).
OwnerIsJustified ==
  /\ owner.settings \in {Nobody, owner.address}
  /\ owner.type # "none" /\ owner.settings = Nobody => owner.address = Mine
  /\ at \in {"rpc", "ready"} /\ cmd.kind # "simulate" => owner.type # "none"
===============================================================================
