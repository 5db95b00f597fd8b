------------------------------ MODULE Simulation ------------------------------
(***************************************************************************)
(* `cre workflow simulate`: the command resolves its inputs, compiles the  *)
(* workflow, and runs the workflow engine with fake capabilities.  It lets *)
(* the user pick and fill in one trigger, fires it, and waits for the      *)
(* result, for an interrupt, or for a timeout.  The engine reports back    *)
(* through hooks and through telemetry; an interrupt only cancels a        *)
(* context, which the steps of the command look at or do not.              *)
(***************************************************************************)
EXTENDS Naturals, Integers, Sequences, SequencesExt

CONSTANTS Chains,         \* chain selectors
          Supported,      \* those of SupportedEVM
          Forwarders,     \* forwarder addresses
          Official,       \* the forwarder SupportedEVM gives its chains
          NoForwarder, NoChain,
          MaxExperimental,\* bound: experimental chains in the settings
          MaxTriggers     \* bound: triggers a workflow subscribes to

SimulationAssumption ==
  /\ Supported \subseteq Chains /\ Official \in Forwarders
  /\ NoForwarder \notin Forwarders /\ NoChain \notin Chains
  /\ {MaxExperimental, MaxTriggers} \subseteq Nat

Experimental == [chain : Chains, forwarder : Forwarders]
Triggers == [kind : {"cron", "http", "other"}, chain : {NoChain}]
              \cup [kind : {"evm"}, chain : Chains \cup {NoChain}]

VARIABLES main,        \* where the command is
          inputs,      \* flags and the private key
          clients,     \* chains with an RPC client
          experimentalForwarders,
          evmChains,   \* ManualEVMChains: the forwarder of each fake chain
          subs,        \* triggers the workflow subscribed to
          toRun,       \* TriggerToRun, as its position among them
          registration,\* the index in the registration id of the trigger
          engine,      \* what the engine has reported
          interrupted, \* the context is cancelled
          written,     \* a transaction was broadcast
          failure,     \* telemetryWriter: failureEventReceived
          shown        \* the status the telemetry writer has printed

settings == <<inputs, clients, experimentalForwarders>>
choice == <<subs, toRun, registration>>
telemetry == <<failure, shown>>
vars == <<main, settings, evmChains, choice, engine, interrupted, written,
          telemetry>>
-----------------------------------------------------------------------------
(* Inputs. *)

None == [c \in Chains |-> NoForwarder]

\* One experimental chain: it adds a client, or overrides the forwarder of the
\* client that is there, unless it says what SupportedEVM says.
AddExperimental(acc, e) ==
  IF e.chain \in acc.clients /\ e.chain \in Supported /\ e.forwarder = Official
  THEN acc
  ELSE [clients |-> acc.clients \cup {e.chain},
        forwarders |-> [acc.forwarders EXCEPT ![e.chain] = e.forwarder]]

\* The clients and forwarders of the chains with an RPC in the settings and of
\* the experimental ones, in their order.
Resolved(rpcs, experimental) ==
  FoldLeft(AddExperimental, [clients |-> rpcs, forwarders |-> None],
           experimental)

\* A key that does not parse is replaced, unless it is needed.
Key(key) == IF key = "bad" THEN "default" ELSE key

ResolveInputs ==
  /\ main = "resolve"
  /\ \E rpcs \in SUBSET Supported,
        experimental \in BoundedSeq(Experimental, MaxExperimental),
        key \in {"own", "default", "bad"}, broadcast \in BOOLEAN,
        nonInteractive \in BOOLEAN, triggerIndex \in -1..MaxTriggers,
        verbose \in BOOLEAN :
       LET r == Resolved(rpcs, experimental) IN
       \/ /\ r.clients # {} /\ ~(key = "bad" /\ broadcast)
          /\ nonInteractive \/ triggerIndex = -1
          /\ main' = "validate"
          /\ inputs' = [key |-> Key(key), broadcast |-> broadcast,
                        nonInteractive |-> nonInteractive,
                        triggerIndex |-> triggerIndex, verbose |-> verbose]
          /\ clients' = r.clients /\ experimentalForwarders' = r.forwarders
       \/ main' = "error" /\ UNCHANGED settings
  /\ UNCHANGED <<evmChains, choice, engine, interrupted, written, telemetry>>

Step == UNCHANGED <<settings, evmChains, choice, engine, interrupted, written,
                    telemetry>>

\* An RPC that fails its health check is only warned about.
ValidateInputs ==
  /\ main = "validate"
  /\ main' = IF inputs.broadcast /\ inputs.key = "default" THEN "error"
             ELSE "compile"
  /\ Step

\* The build, the files it reads, and the names of the secrets.
Compile ==
  /\ main = "compile"
  /\ main' \in {"initialize", "error"}
  /\ Step

\* Mutant of ForwarderOf: the experimental forwarders are not merged.
OfficialOnly(c) == IF c \in Supported THEN Official ELSE NoForwarder

\* The forwarder of a client: an experimental one wins.
ForwarderOf(c) ==
  IF experimentalForwarders[c] # NoForwarder THEN experimentalForwarders[c]
  ELSE IF c \in Supported THEN Official ELSE NoForwarder

\* ManualEVMChains; chains without a forwarder are left out.
FakeChains ==
  [c \in Chains |-> IF c \in clients THEN ForwarderOf(c) ELSE NoForwarder]

\* simulatorInitialize: the capabilities start, or the command ends.
Initialize ==
  /\ main = "initialize"
  /\ \/ main' = "exit1" /\ UNCHANGED evmChains
     \/ main' = "beforeStart" /\ evmChains' = FakeChains
  /\ UNCHANGED <<settings, choice, engine, interrupted, written, telemetry>>
-----------------------------------------------------------------------------
(* The choice of the trigger. *)

\* Where a trigger at position i leads: an EVM trigger needs a client, and a
\* prompt when there is somebody to answer.
AfterChoice(ts, i) ==
  LET t == ts[i] IN
  IF t.kind = "cron" THEN "start"
  ELSE IF t.kind = "http" THEN "payload"
  ELSE IF t.kind = "evm" /\ t.chain \in clients THEN "log"
  ELSE "exit1"

Chosen(ts, i) ==
  /\ main' = AfterChoice(ts, i)
  /\ toRun' = i /\ registration' = i - 1

\* The engine hands over the triggers.  Without prompts the index has to be
\* one of them; with prompts a single trigger needs no choice.
BeforeStart ==
  /\ main = "beforeStart"
  /\ \E ts \in BoundedSeq(Triggers, MaxTriggers) :
       /\ subs' = ts
       /\ IF Len(ts) = 0 THEN main' = "exit1" /\ UNCHANGED <<toRun, registration>>
          ELSE IF inputs.nonInteractive
          THEN IF inputs.triggerIndex \in 0..(Len(ts) - 1)
               THEN Chosen(ts, inputs.triggerIndex + 1)
               ELSE main' = "exit1" /\ UNCHANGED <<toRun, registration>>
          ELSE IF Len(ts) = 1 THEN Chosen(ts, 1)
          ELSE main' = "choose" /\ UNCHANGED <<toRun, registration>>
  /\ UNCHANGED <<settings, evmChains, engine, interrupted, written, telemetry>>

\* getUserTriggerChoice: a choice that is out of range is asked for again; an
\* interrupt ends the command.
PickTrigger ==
  /\ main = "choose"
  /\ \E i \in 1..Len(subs) : Chosen(subs, i)
  /\ UNCHANGED <<settings, evmChains, subs, engine, interrupted, written,
                 telemetry>>

PickFails ==
  /\ main = "choose"
  /\ main' = "exit1" \/ (interrupted /\ main' = "exit0")
  /\ Step

\* The data of the trigger is there, or the command ends.
Data(there) == (main' = "exit1" \/ (there /\ main' = "start")) /\ Step

\* An EVM chain that was left out has no fake chain to trigger.
HasChain == evmChains[subs[toRun].chain] # NoForwarder

AskPayload == main = "payload" /\ ~inputs.nonInteractive /\ Data(TRUE)
PayloadFromFlag == main = "payload" /\ inputs.nonInteractive /\ Data(TRUE)

\* The log is found on the chain of the trigger by its transaction and index.
AskLog == main = "log" /\ ~inputs.nonInteractive /\ Data(HasChain)
LogFromFlags == main = "log" /\ inputs.nonInteractive /\ Data(HasChain)
-----------------------------------------------------------------------------
(* The engine: it starts, runs the trigger, writes to chains, and reports. *)

EngineStep == UNCHANGED <<settings, evmChains, choice, interrupted>>

Start ==
  /\ main = "start" /\ main' = "uninitialized"
  /\ Step

OnInitialized ==
  /\ main = "uninitialized" /\ engine = "off"
  /\ \/ engine' = "ready" /\ UNCHANGED main
     \/ main' = "exit1" /\ UNCHANGED engine
  /\ EngineStep /\ UNCHANGED <<written, telemetry>>

\* waitFn fires the trigger once the engine is initialized.
FireTrigger ==
  /\ main = "uninitialized" /\ engine = "ready"
  /\ \/ main' = "wait" /\ engine' = "running"
     \/ main' = "exit1" /\ UNCHANGED engine
  /\ EngineStep /\ UNCHANGED <<written, telemetry>>

\* A chain write goes out, unless the fake chain was told to only try it.
ChainWrite ==
  /\ engine = "running" /\ main \in {"wait", "cleanup"}
  /\ \E c \in Chains : evmChains[c] # NoForwarder
  /\ inputs.broadcast /\ written' = TRUE
  /\ EngineStep /\ UNCHANGED <<main, engine, telemetry>>

\* handleCapabilityEvent, which only a verbose writer comes to.
CapabilityFinished ==
  /\ engine = "running" /\ main \in {"wait", "cleanup"}
  /\ \E failed \in BOOLEAN :
       failure' = (failure \/ (inputs.verbose /\ failed))
  /\ EngineStep /\ UNCHANGED <<main, engine, written, shown>>

\* Mutant of mapWorkflowStatus: the failure events are not remembered.
PlainStatus(status) ==
  IF status \in {"completed", "success"} THEN "SUCCESS" ELSE "OTHER"

\* What the telemetry writer shows for a status; FAILED, ERRORED, STARTED and
\* the status itself are all no success.
mapWorkflowStatus(status) ==
  CASE status = "completed" -> IF failure THEN "FAILED" ELSE "SUCCESS"
    [] status = "success" -> "SUCCESS"
    [] status \in {"failed", "errored", "timeout"} -> "OTHER"

\* What the engine, which is a library, reports of a finished execution.  That it
\* never reports "success", which would not be tested for failures, is assumed.
EngineStatus == {"completed", "errored", "timeout"}

WorkflowFinished ==
  /\ engine = "running" /\ main \in {"wait", "cleanup"}
  /\ \E status \in EngineStatus :
       shown' = IF inputs.verbose THEN mapWorkflowStatus(status) ELSE "none"
  /\ engine' = "finished"
  /\ EngineStep /\ UNCHANGED <<main, written, failure>>

\* OnResultReceived closes the channel for a value and for an error; no result
\* means that OnExecutionError, which exits, is to come.
OnResult ==
  /\ engine \in {"running", "finished"} /\ main \in {"wait", "cleanup"}
  /\ engine' \in {"result", "crashed"}
  /\ EngineStep /\ UNCHANGED <<main, written, telemetry>>

OnExecutionError ==
  /\ engine = "crashed" /\ main \in {"wait", "cleanup"}
  /\ main' = "exit1"
  /\ EngineStep /\ UNCHANGED <<engine, written, telemetry>>

\* The result, an interrupt, or the timeout.
StopWaiting ==
  /\ main = "wait"
  /\ main' = "cleanup"
  /\ Step

\* simulatorCleanup closes the services, and the command reports success.
Cleanup ==
  /\ main = "cleanup" /\ main' = "exit0"
  /\ Step

Interrupt ==
  /\ main \in {"beforeStart", "choose", "payload", "log", "start",
               "uninitialized", "wait"}
  /\ ~interrupted /\ interrupted' = TRUE
  /\ UNCHANGED <<main, settings, evmChains, choice, engine, written, telemetry>>

Init ==
  /\ main = "resolve"
  /\ inputs = [key |-> "default", broadcast |-> FALSE,
               nonInteractive |-> FALSE, triggerIndex |-> -1, verbose |-> FALSE]
  /\ clients = {} /\ experimentalForwarders = None /\ evmChains = None
  /\ subs = <<>> /\ toRun = 0 /\ registration = -1
  /\ engine = "off" /\ interrupted = FALSE /\ written = FALSE
  /\ failure = FALSE /\ shown = "none"

Answer == PickTrigger \/ AskPayload \/ AskLog

Command ==
  \/ ResolveInputs \/ ValidateInputs \/ Compile \/ Initialize \/ BeforeStart
  \/ PickFails \/ PayloadFromFlag \/ LogFromFlags \/ Start \/ FireTrigger
  \/ StopWaiting \/ Cleanup

Engine ==
  \/ OnInitialized \/ ChainWrite \/ CapabilityFinished \/ WorkflowFinished
  \/ OnResult \/ OnExecutionError

Next == Command \/ Answer \/ Engine \/ Interrupt

\* What the command does by itself: everything but waiting for the user, and
\* for the engine to initialize.
OwnStep ==
  \/ ResolveInputs \/ ValidateInputs \/ Compile \/ Initialize \/ BeforeStart
  \/ (interrupted /\ PickFails) \/ PayloadFromFlag \/ LogFromFlags
  \/ Start \/ FireTrigger \/ StopWaiting \/ Cleanup

Spec == Init /\ [][Next]_vars /\ WF_vars(OwnStep)

-----------------------------------------------------------------------------
Ends == {"error", "exit0", "exit1"}

TypeOK ==
  /\ main \in Ends \cup {"resolve", "validate", "compile", "initialize",
                         "beforeStart", "choose", "payload", "log", "start",
                         "uninitialized", "wait", "cleanup"}
  /\ clients \subseteq Chains
  /\ {experimentalForwarders, evmChains}
       \subseteq [Chains -> Forwarders \cup {NoForwarder}]
  /\ toRun \in 0..Len(subs) /\ registration \in -1..(Len(subs) - 1)
  /\ engine \in {"off", "ready", "running", "finished", "result", "crashed"}
  /\ shown \in {"none", "SUCCESS", "FAILED", "OTHER"}

\* A simulation sends a transaction only when the user asked for it with
\* --broadcast and gave a key of their own: the default key that stands in for
\* a missing one signs dry runs only (simulate.go:206, simulate.go:242).
WroteOnPurpose == written => inputs.broadcast /\ inputs.key = "own"

\* Every chain with a client has a fake chain to trigger: however supported and
\* experimental chains mix, none of them ends in "no EVM chain initialized"
\* (capabilities.go:62, simulate.go:651).
ClientsAreChains ==
  main \in {"choose", "payload", "log", "start", "uninitialized", "wait"} =>
    \A c \in clients : evmChains[c] # NoForwarder

\* The trigger that is fired is registered under its own position, whichever
\* way it was picked (simulate.go:612, simulate.go:687).
TriggerIsRegistered == toRun # 0 => registration = toRun - 1

\* A workflow that completes is not shown as a success after one of its
\* capabilities was seen to fail (telemetry_writer.go:278).
SuccessIsClean == shown = "SUCCESS" => ~failure
===============================================================================
