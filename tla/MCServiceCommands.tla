-------------------------- MODULE MCServiceCommands ---------------------------
(***************************************************************************)
(* The CRE command line tool for model checking: the groups of commands    *)
(* that wait for something outside of the tool, be it the storage service, *)
(* the linking service and the chain, the vault's gateway, the browser of  *)
(* a user who logs in, or the engine that simulates a workflow.  As in     *)
(* MCRecordCommands, the groups share no state that their modules keep, a  *)
(* behaviour picks one group and the flags it runs with, `config`, and     *)
(* groups that name a variable alike share it here.                        *)
(***************************************************************************)
EXTENDS Naturals, TLC

CONSTANTS Configs,         \* the groups a run looks at
          Procs,           \* processes running a command
          OneProc,         \* those of the groups run one at a time
          Names, Contents, OtherContent,
          Accounts, NoAccount, Keys, Tabs,
          Chains, Supported, Forwarders, Official, NoForwarder, NoChain,
          HasConfig, Attempts, MaxRetries,
          MaxCommands, MaxRuns, MaxRequests, MaxLinks, MaxClock, MaxRounds,
          MaxReloads, MaxExperimental, MaxTriggers,
          MaxEdits         \* bounds, as in the modules

VARIABLES config,
  \* of several groups
  cli, clock, late, prepared, main,
  \* WorkflowBuild
  source, tmp, out, stored, registered, proc, runs,
  \* KeyLinking
  linkedTo, verified, links, everLinked, last, started,
  \* SecretsCommands
  allow, seen, vault, executed, requests, bundles,
  \* Login
  listening, lastPKCEVerifier, lastState, retryCount, rounds, codeCh, code,
  tab, reloads,
  \* Simulation
  inputs, clients, experimentalForwarders, evmChains, subs, toRun,
  registration, engine, interrupted, written, failure, shown

Build == INSTANCE WorkflowBuild
Link == INSTANCE KeyLinking WITH
  Type <- "regular", SkipConfirmation <- FALSE, Validity <- 1, MaxAttempts <- 2
LinkMsig == INSTANCE KeyLinking WITH
  Type <- "raw", SkipConfirmation <- TRUE, Validity <- 1, MaxAttempts <- 2,
  Procs <- OneProc
Secrets == INSTANCE SecretsCommands WITH
  Type <- "regular", SkipConfirmation <- FALSE, Timeouts <- {1, 3},
  MaxDuration <- 2, MaxItems <- 1, Attempts <- 2, MaxClock <- 1,
  MaxCommands <- MaxRequests
SecretsMsig == INSTANCE SecretsCommands WITH
  Type <- "changeset", SkipConfirmation <- FALSE, Timeouts <- 1..2,
  MaxDuration <- 2, MaxItems <- 1, Attempts <- 2, MaxClock <- 1,
  MaxCommands <- MaxRequests, Procs <- OneProc
LogIn == INSTANCE Login
Simulate == INSTANCE Simulation

ASSUME ServiceCommandsAssumption ==
  /\ Build!WorkflowBuildAssumption
  /\ Link!KeyLinkingAssumption /\ LinkMsig!KeyLinkingAssumption
  /\ Secrets!SecretsCommandsAssumption /\ SecretsMsig!SecretsCommandsAssumption
  /\ LogIn!LoginAssumption /\ Simulate!SimulationAssumption
------------------------------------------------------------------------------
On(c) == config = c

\* The variables of each group alone, and the flags it is run with.
buildVars == <<source, tmp, out, stored, registered, proc, runs>>
linkVars == <<linkedTo, verified, links, everLinked, last, started>>
secretsVars == <<allow, seen, vault, executed, requests, bundles>>
loginVars == <<listening, lastPKCEVerifier, lastState, retryCount, rounds,
                codeCh, code, tab, reloads>>
simulateVars == <<inputs, clients, experimentalForwarders, evmChains, subs,
                   toRun, registration, engine, interrupted, written, failure,
                   shown>>

OnLink == config \in {"link", "linkMsig"}
OnSecrets == config \in {"secrets", "secretsMsig"}
OnChain == OnLink \/ OnSecrets
OnMain == config \in {"login", "simulate"}

vars == <<config, cli, clock, late, prepared, main, buildVars, linkVars,
          secretsVars, loginVars, simulateVars>>

Unused == "unused"

OthersInit ==
  /\ ~On("build") =>
       /\ source = Unused /\ tmp = Unused /\ out = Unused /\ runs = Unused
       /\ stored = Unused /\ registered = Unused /\ proc = Unused
  /\ ~OnLink =>
       /\ linkedTo = Unused /\ verified = Unused /\ links = Unused
       /\ everLinked = Unused /\ last = Unused /\ started = Unused
  /\ ~OnSecrets =>
       /\ allow = Unused /\ seen = Unused
       /\ vault = Unused /\ executed = Unused /\ requests = Unused
       /\ bundles = Unused
  /\ ~On("login") =>
       /\ listening = Unused
       /\ lastPKCEVerifier = Unused /\ lastState = Unused
       /\ retryCount = Unused /\ rounds = Unused /\ codeCh = Unused
       /\ code = Unused /\ tab = Unused /\ reloads = Unused
  /\ ~On("simulate") =>
       /\ inputs = Unused /\ clients = Unused
       /\ experimentalForwarders = Unused /\ evmChains = Unused
       /\ subs = Unused /\ toRun = Unused /\ registration = Unused
       /\ engine = Unused /\ interrupted = Unused /\ written = Unused
       /\ failure = Unused /\ shown = Unused
  /\ ~OnChain =>
       /\ cli = Unused /\ clock = Unused /\ late = Unused /\ prepared = Unused
  /\ ~OnMain => main = Unused

\* What belongs to the other groups stays as it is.
Others ==
  /\ UNCHANGED config
  /\ ~On("build") => UNCHANGED buildVars
  /\ ~OnLink => UNCHANGED linkVars
  /\ ~OnSecrets => UNCHANGED secretsVars
  /\ ~On("login") => UNCHANGED loginVars
  /\ ~On("simulate") => UNCHANGED simulateVars
  /\ ~OnChain => UNCHANGED <<cli, clock, late, prepared>>
  /\ ~OnMain => UNCHANGED main

Init ==
  /\ config \in Configs
  /\ On("build") => Build!Init
  /\ On("link") => Link!Init
  /\ On("linkMsig") => LinkMsig!Init
  /\ On("secrets") => Secrets!Init
  /\ On("secretsMsig") => SecretsMsig!Init
  /\ On("login") => LogIn!Init
  /\ On("simulate") => Simulate!Init
  /\ OthersInit

Next ==
  \/ On("build") /\ Build!Next /\ Others
  \/ On("link") /\ Link!Next /\ Others
  \/ On("linkMsig") /\ LinkMsig!Next /\ Others
  \/ On("secrets") /\ Secrets!Next /\ Others
  \/ On("secretsMsig") /\ SecretsMsig!Next /\ Others
  \/ On("login") /\ LogIn!Next /\ Others
  \/ On("simulate") /\ Simulate!Next /\ Others

\* Interchangeable values.  OneProc is disjoint from Procs.
ServiceSymmetry ==
  Permutations(Procs) \cup Permutations(Names) \cup Permutations(Accounts)

Spec == Init /\ [][Next]_vars

\* Fairness of the groups that wait for somebody, as their modules state it:
\* the code goes on by itself; services, users and the chain may not.
FairSpec ==
  /\ Spec
  /\ \A p \in Procs :
       /\ WF_vars(On("build") /\ Build!Deploy(p) /\ Others)
       /\ WF_vars(On("link") /\ Link!Step(p) /\ Others)
       /\ WF_vars(On("secrets") /\ Secrets!Step(p) /\ Others)
  /\ WF_vars(On("login") /\ LogIn!Command /\ Others)
  /\ \A t \in Tabs : WF_vars(On("login") /\ LogIn!Handler(t) /\ Others)
  /\ WF_vars(On("simulate") /\ Simulate!OwnStep /\ Others)
  /\ WF_vars(On("simulate") /\ Simulate!Answer /\ Others)
  /\ WF_vars(On("simulate") /\ Simulate!OnInitialized /\ Others)
------------------------------------------------------------------------------
TypeOK ==
  /\ On("build") => Build!TypeOK
  /\ On("link") => Link!TypeOK
  /\ On("linkMsig") => LinkMsig!TypeOK
  /\ On("secrets") => Secrets!TypeOK
  /\ On("secretsMsig") => SecretsMsig!TypeOK
  /\ On("login") => LogIn!TypeOK
  /\ On("simulate") => Simulate!TypeOK

\* Whatever a deploy registers is in storage under its id, with all its
\* artifacts and nothing else: answers to uploads may be lost, attempts fail
\* and processes die in between (prepare.go:59, deploy.go:250).
RegisteredIsStored ==
  On("build") => Build!RegisteredHasArtifacts /\ Build!StoredMatchesId

\* A deploy that had the folder to itself registers what it compiled, never
\* a file an earlier deploy left behind (compile.go:75).
SoloDeployIsFresh == On("build") => Build!SoloDeployIsFresh

\* A deploy gets past the ownership phase only for an account the key was
\* linked to on the chain, and a key is unlinked only by a transaction whose
\* user agreed to it, however late it is mined (autoLink.go:49,
\* unlink_key.go:162).
OwnershipJustified ==
  [][/\ On("link") => Link!PassedWasLinked' /\ Link!UnlinkWasAgreed
     /\ On("linkMsig") => LinkMsig!PassedWasLinked' /\ LinkMsig!UnlinkWasAgreed]_vars

\* A link or unlink transaction that was checked against the contract is
\* accepted, unless time passed or another one landed since: the proof of the
\* service has not expired in the meantime (link_key.go:270, link_key.go:292).
CheckedIsAccepted ==
  /\ On("link") => Link!CheckedIsAccepted
  /\ On("linkMsig") => LinkMsig!CheckedIsAccepted

\* A request is posted to the gateway only after its digest was put on the
\* allowlist: not after a transaction nobody saw mined, and not for a bundle
\* whose transaction is still pending (handler.go:419, execute.go:74).
PostedWasAllowlisted ==
  /\ On("secrets") => Secrets!PostedWasAllowlisted
  /\ On("secretsMsig") => SecretsMsig!PostedWasAllowlisted

\* A transaction the multisig is asked to send has its bundle on disk, whatever
\* fails or is interrupted in between: without it the request it allowlists
\* could never be posted (handler.go:459, handler.go:500).
PreparedHasBundle == On("secretsMsig") => SecretsMsig!PreparedHasBundle

\* A command that reports success has done what it was asked: its request was
\* executed by the vault, and a workflow that completes is shown as a success
\* only if none of its capabilities was seen to fail (gateway.go:30,
\* telemetry_writer.go:278).
SuccessMeansDone ==
  /\ On("secrets") => Secrets!SuccessMeansExecuted
  /\ On("secretsMsig") => SecretsMsig!SuccessMeansExecuted
  /\ On("simulate") => Simulate!SuccessIsClean

\* The code that a login exchanges goes with the verifier it is exchanged with,
\* however often the user goes back to an older page (login.go:196).
CodeMeetsVerifier == On("login") => LogIn!CodeMeetsVerifier

\* What is simulated is what the user asked for: a transaction is sent only
\* with --broadcast and a key of one's own, every chain with a client has a
\* fake chain to trigger, and the trigger that is fired is the one that was
\* picked (simulate.go:206, simulate.go:612, capabilities.go:62).
SimulatedAsAsked ==
  On("simulate") => /\ Simulate!WroteOnPurpose /\ Simulate!ClientsAreChains
                    /\ Simulate!TriggerIsRegistered

Waiting(p) ==
  CASE On("build") -> proc[p].phase = "build"
    [] On("link") -> Link!At(p, "ownership")
    [] On("secrets") -> Secrets!At(p, "post")
    [] On("login") -> main = "wait"
    [] On("simulate") -> main = "start"
    [] OTHER -> FALSE

Ended(p) ==
  CASE On("build") -> proc[p].phase = "done"
    [] On("link") -> Link!At(p, "done")
    [] On("secrets") -> ~Secrets!At(p, "post")
    [] On("login") -> main \in {"ok", "error"}
    [] On("simulate") -> main \in Simulate!Ends
    [] OTHER -> TRUE

\* Commands that wait for a service, the chain, a user or an engine come to an
\* end, whatever those do: the retries of a deploy's uploads, its ownership
\* phase, the retries of a post, a login, and a simulation whose trigger is set
\* (storageclient.go:279, autoLink.go:186, gateway.go:60, login.go:135,
\* simulate.go:480).
CommandsEnd == \A p \in Procs : Waiting(p) ~> Ended(p)
===============================================================================
