# Self-Healing Reserve: TLA+ specification

This directory specifies the Self-Healing Reserve in TLA+, model-checks it with
TLC on small instances and proves its main safety properties with TLAPS for all
values of the constants. Source paths below are relative to the repository.

## 1. The system

A custodian's API reports reserves and liabilities. A workflow on a timer
compares them and writes one boolean to a contract, which emits an event. An
agent polls for that event and, when it says *insolvent*, buys USDC and sends it
to the reserve, then reports to a dashboard. A second contract, the dark pool,
is meant for large deficits: a requester asks for collateral, an enclave matches
and settles, the requester withdraws against a ticket. Workflows reach the
network of oracles with Chainlink's CRE command line tool, whose source the
repository carries under `research/cre-cli` (CLI below): it builds and registers
workflows, links keys, stores secrets, logs in, simulates and updates itself.

```
 mock-api --GET /reserves--> workflow/main --onReport--> ReserveAttestation
                                                              | event
 dashboard <--POST /api/agent-activity-- agent/index <--poll-- agent/monitor
                                              | execSync
                                            awal wallet
 requester --requestCollateral/withdraw--> CREDarkPool <--fill/settle-- enclave
                                                             (ccc-settlement)
```

### Inventory

| Component | State it keeps | Operations | Hard behaviour | What makes it correct |
|---|---|---|---|---|
| `contracts/src/ReserveAttestation.sol` | `isSolvent`, `lastUpdated`, emitted events | `updateAttestation` (owner), `onReport` (anyone) | two writers, several writes in a block, reports without a sequence number | who has seen every event knows the stored state |
| `agent/monitor.ts` | `lastBlock`, the current round's head and logs; in memory only | poll, dispatch, sleep, stop | RPC failures between awaits, old heads, blocks mined in mid-round, restart | each mined event handed over once, in order, eventually; a restart replays from the start |
| `agent/index.ts`, `recovery.ts`, `wallet.ts`, `metrics.ts` | `recovering`, counters, last 100 errors; in memory only | event callback, three wallet commands, record, report | commands block the event loop, continuations run later, time-outs with effect, crash in a command, dropped events | flag up exactly during a recovery, counters add up, no transfer without a trade, never wedged |
| `contracts/src/CREDarkPool.sol` | requests, fills, used tickets, results, balance table, roles | request, fill, partial fill, settle, expire, withdraw, administration | deadlines, three ways to fill, refused token transfers, anyone may expire | life cycle is kept, at most one payment, a success is final |
| `workflow/ccc-settlement.ts` | none between calls | match, apply, settle | fills applied also when the ratio is too low | matching fills the deficit or all liquidity |
| `agent/darkpool.ts` | the list of steps | encrypt, submit, monitor, settle | each step may fail | steps in order, stops at the first failure |
| `workflow/main.ts`, `mock-api/server.ts`, `demo/simulate-workflow.ts` | reserve figures of the API | fetch, compare, attest; toggle, set | zero liabilities | the attestation is that of figures the API did report |
| `dashboard/server.ts` | overrides with expiry, events, activity, bounded histories | status, agent-activity, three scenarios with timers, reset, event poller | status assembled across awaits, timers of earlier scenarios, alerts in mid-dispatch | one status shows one scenario; the poller is the monitor |
| `dashboard/alerts.ts` | configuration, bounded history | send to e-mail and two chats | channels that fail or hang | never rejects |
| `api/index.ts` | as the dashboard, per serverless instance | as the dashboard | frozen and multiplied instances | - |
| CLI `cmd/client`, `cmd/workflow/{deploy,activate,pause,delete}`, `cmd/common` | the registry's record of the workflow, a changeset file | deploy, activate, pause, delete | several processes and other clients between read and transaction, receipts that do not come, partial deletes | what was checked is what the contract accepts; success means done |
| CLI `deploy/{compile,prepare,artifacts}.go`, `storageclient` | `tmp.wasm`, the output file, the storage service | compile, hash, upload, register | shared files, lost answers, retries | what is registered is stored, and is what was compiled |
| CLI `cmd/account`, `deploy/autoLink.go` | the key's link in contract and service | link, unlink, the deploy's ownership phase | a service that lags behind the contract, proofs that expire | passed means linked, unlinked means agreed |
| CLI `cmd/secrets` | allowlist, vault, bundle files | create, update, delete, list, execute | deadlines, retries after success, kills, multisig in two halves | posted means allowlisted, prepared means kept on disk |
| CLI `credentials`, `graphqlclient`, `authvalidation`, `cmd/logout`, `telemetry` | `~/.cre/cre.yaml`, the service's tokens | load, validate, refresh, save, log out, report | rotation of refresh tokens by two processes, kills in a save, telemetry after the end | a session is lost only by logging out |
| CLI `cmd/login` | verifier, state, count of retries, a channel | listen, callback, start over, exchange, save | handlers run beside the command without a lock; reloads | the code goes with its verifier; a login ends |
| CLI `cmd/workflow/simulate` | inputs, fake chains, the engine's state | resolve, pick, fire, wait | interrupts, events out of order, experimental chains over supported ones | what was asked is simulated; success is clean |
| CLI `cmd/creinit` | the project's files | find or make, write each file | interrupted and repeated runs over edited files, some of which are written again unasked | edits are kept unless given up or of a file a template writes again |
| CLI `internal/settings`, `internal/context` | working directory, environment, target, settings, owner | look up each in turn | lookups before and after the change of directory, files named by a flag or found by climbing | environment, settings and owner are the right ones |
| CLI `cmd/update`, `internal/update` | cache file, installed binary | check, download, replace | overlapping commands, old answers, kills | a fresh cache is true; the binary is whole |
| CLI generator, templates, `whoami`, `version`, `test` | none | text from an ABI; one query or process | - | - |
| `demo/`, `deployment/`, web pages, notes in `research/` | none | start and stop processes, rendering | - | - |

The components share no memory; the processes of the CLI share files. They
interact through transactions and log
queries (workflow to contract to monitor), a callback in the same JavaScript
thread (monitor to agent), child processes (agent to wallet) and HTTP (agent to
dashboard, workflow to API). The CLI's groups of commands meet in the registry
contract, in the home directory and in the project, in separate parts of each.

## 2. Modules

| Module | Models | Kind |
|---|---|---|
| `ReserveAttestation` | the attestation contract and the blocks that carry its events | component |
| `EventStream` | what a subscriber to the event is promised | abstract |
| `ReserveMonitor` | the polling loop; EXTENDS the contract, implements `EventStream` | component, composed |
| `RecoveryAgent` | the callback, wallet, metrics and report; EXTENDS and implements `ReserveMonitor` | component, composed |
| `RequestLifecycle` | what a requester of the dark pool is promised | abstract |
| `CREDarkPool` | the dark pool contract; implements `RequestLifecycle` | component |
| `Dashboard` | status page, scenarios and event poller; EXTENDS and implements `ReserveMonitor` | component, composed |
| `TxClient` | from a registry call to a transaction and its outcome | operators |
| `WorkflowCommands` | deploy, activate, pause, delete; EXTENDS `TxClient` | component |
| `WorkflowBuild` | compilation, uploads, registration | component |
| `KeyLinking` | link, unlink, ownership phase; EXTENDS `TxClient` | component |
| `SecretsCommands` | the five secrets commands; EXTENDS `TxClient` | component |
| `Session` | credentials file, refresh, logout, telemetry | component |
| `Login` | the login command and its callback | component |
| `Simulation` | `workflow simulate` | component |
| `InitProject` | `init` | component |
| `SelfUpdate` | version check and `update` | component |
| `CommandSettings` | what a command looks up before it starts | component |
| `MCRecordCommands` | the CLI's groups that read and write what is on record: workflows, session, project, settings, the tool itself | model checking, composed |
| `MCServiceCommands` | the CLI's groups that wait for something outside: storage, linking service and chain, vault, browser, engine | model checking, composed |
| `ReserveMonitorProofs`, `CREDarkPoolProofs`, `WorkflowCommandsProofs`, `KeyLinkingProofs`, `SecretsCommandsProofs` | theorems about the module each is named after | proofs |
| `MonitoringProofs` | theorems about the two programs that extend the monitor, `RecoveryAgent` and `Dashboard` | proofs |
| `MCRecordCommandsProofs` | theorems about the properties of `cli_records`; the inductive invariants of `Session`, `InitProject`, `SelfUpdate` and `CommandSettings` | proofs |
| `MCServiceCommandsProofs` | theorems about the properties of `cli_services`; the inductive invariants of `WorkflowBuild`, `Login` and `Simulation` | proofs |

A `.cfg` instantiates a module directly where its parameters are small sets and
numbers; the modules of the CLI are instantiated by the two MC modules. Operators
introduced by a comment "Mutant of X" are plausible wrong versions of `X`; no
specification uses them. Each property of a passing run is violated once the
mutant paired with it in `PROJECT.json` replaces the definition.

### ReserveAttestation
`isSolvent`, `lastUpdated` are the contract's fields; `owner` never changes and
is the constant `Owner`. `log` is the sequence of emitted events; a transaction
executes in the block being built, and `MineBlock` makes that block visible:
`sealed[b]` is the number of events in blocks 1 to b. `block.timestamp` is the
number of the block (both grow with each block). A report is the boolean it
decodes to; a report that does not decode reverts and changes nothing.

### ReserveMonitor
`pc` is the await the loop is suspended in. `NewBlocks`/`NoNewBlocks` is
`getBlockNumber` resolving to some head in `Heads` (viem serves the block number
from a cache and a node may lag, so any head up to the newest), `FetchLogs` is
`getContractEvents`, `PollFails` the catch clause for either call, `OnStatus` one
turn of the `for` loop, `EndRound` the assignment of `lastBlock`, `Wake` the
timer. `handed` is a history variable: the events the callback received since
the process began. `Exit` may come at any point and forgets everything; `Start`
is the supervisor's restart. Blocks are never reorganised in the model, as on the
single Hardhat node the code is configured for. The `if (args)` test of the loop
is always true for an event decoded with its ABI.

### RecoveryAgent
The callback is called without `await` and runs synchronously to its first
await. `executeRecovery` contains no await on the direct path, so all three
wallet commands (`execSync`) run inside the monitor's dispatch loop:
`walletStep` is the running command, and nothing else of the process moves
meanwhile. What follows `await executeRecovery` is a microtask: it can only run
once the dispatch loop has reached its end (`pc # "dispatch"`) and runs before
the poll timer (`Wake` waits for it); this is `Record`. The dashboard `fetch` is
a real await, `reporting`, and the monitor polls on during it; `ReportDone`
covers every outcome, all of which the code logs and swallows before the
`finally` clause. The catch clause of the callback cannot be reached on this
path (neither call throws) and is not modelled.

`traded` and `sent` count what the wallet carried out, the world's side of the
commands. A failing command may have taken effect (killed after 30 s, output that
is not JSON), and so may one that is running when the process dies. The counters
of `MetricsCollector` are kept; response times are left out. `errors` keeps the
failed step of an entry; 100 is the constant `MaxErrors`. `failures` is a history
variable: every failed step since the process began.

`executeRecovery` chooses the dark pool when it is passed a deficit above
50,000,000; the callback passes none, so the branch is not part of the running
agent and not part of this module.

### CREDarkPool
A transaction is atomic and a revert undoes it, so each external function is one
action guarded by its checks. The calls in which the code makes an external call
(`withdrawWithTicket` to the token) make it last and under `nonReentrant`; the
functions a token could call back into commute with it. The mappings are total
functions with Solidity's zero value. A request id is the hash of sender,
payload and block; here it is that record (hashes do not collide; the encrypted
amount and the shielded address are one payload value), and the fields the id
determines are not stored a second time. Premium, encrypted data, attestations
and fill counts are never read by the contract and are left out; the premium's
check is kept. `fills` is only read for its `withdrawn` flag. `payments` is the
history of transfers the token made and `pool` the contract's balance in it.
`results[id].settled` says whether `settlementResults[id]` was written (its
timestamp is then not zero). The status CANCELLED is never assigned and left out.
Enclave tickets are not zero, since they are hashes; a caller may present any
ticket, zero included. `setMarketMaker`, `depositLiquidity` (which only emits),
`setVaultContract`, `incrementNonce`, the empty `emergencyPause` and the getters
are not modelled yet: no modelled guard reads what they write.

The file declares an event and an error both named `RequestExpired` and a
`bytes` parameter without a data location, so the compiler would reject it as
it stands; the demo compiles only `ReserveAttestation`. The model is of the
code's evident meaning.

### Dashboard
One event loop again: a handler is interrupted where it awaits. `req` is what
each HTTP request has come to; a scenario awaits the feed (`at = "fetch"`), then
waits for its timer; a status request awaits the feed only when the reserves are
not overridden, and looks at the attestation override when it goes on. An
override is the name of the scenario with its expiry: its numbers are opaque. A
reply is the pair of sources shown. The poller is `ReserveMonitor`'s loop with
one more await inside the dispatch (`alerting`); `handed` are the events it has
put into the log. The scenarios' own entries in that log are left out, since the
poller never reads it.

### The command line tool
`TxClient` gives the outcomes of a registry call; a command that gave up on its
receipt leaves the call in `late`, which may land at any time. `WorkflowCommands`
has the workflow's record (`reg`), other clients of the owner, and for each
process what it read; `WorkflowBuild` has the shared files and the storage
service, contents being version numbers of the source; `KeyLinking` the contract's
link and the service's delayed view of it; `SecretsCommands` the allowlist, the
gateway's view of it, the vault and the bundle files. `Session` models files as
names of inodes, so that a temporary file two processes share is one, and a file that
is replaced or removed is empty, since no process reads one it has opened; a refresh
replaces the refresh token (`Rotates`) or does not; an access token may be about to
expire whenever a command looks. `overlapped` is a history
variable: two processes have saved at the same time. In `Login` a number stands for a round's verifier,
state and code; every handler reads and writes the shared variables step by step.
`Simulation` resolves chains, forwarders and triggers, and takes the engine for an
external process that reports through hooks and telemetry. Of the engine it is assumed
that the statuses of an execution are `completed`, `errored` and `timeout`
(`EngineStatus`); the code would also show a
status `success` as success, without a look at the errors counted, if the engine
reported one (`simulate/telemetry_writer.go:282`). `InitProject` writes
one file per step; the `go get`s and `go mod tidy` on a module file that is there may
rewrite it or leave it. `SelfUpdate` shares a cache file between commands;
`CommandSettings` does its lookups in the order of the code over a tree of
directories. The environment file named by `--env` may be anywhere, `Named`, and a
simulation with `--broadcast` is a kind of command of its own, since it needs an
owner. Kills are possible between any two steps where something is left
behind. The header of each module says what it leaves out.

`MCRecordCommands` and `MCServiceCommands` run the groups side by side: a behaviour
picks one group and the flags it runs with (`config`), and the variables of the
others are `Unused`. That is enough because no group reads or writes what another
group keeps: a step of one leaves the state of the others as it was, so a safety
property of one group that holds where that group runs alone holds in their
interleaving. The same independence is why there can be two modules, each with its
own variables; one holds the groups whose question is whether what a command read is
still so when it writes, the other those whose question is what an answer from outside
still means when it comes. A deploy is in both: its build and uploads wait for the
storage service, its checks and its transaction go by the registry's record.

## 3. Properties and runs

| Run | Module | Shows |
|---|---|---|
| `agent` | RecoveryAgent | contract, polling loop, callback and wallet composed, with reporting: the callback sees a prefix of the mined log and, once caught up, knows the contract's state; metrics and money; refinement of `EventStream`; the flag is always cleared, the first incident is carried to an end, blocking commands cost no event |
| `darkpool_safety` | CREDarkPool | life cycle, finality, single payment, marks; refinement of `RequestLifecycle` |
| `darkpool_ticket`, `darkpool_result` | CREDarkPool | findings 1 and 2 (violations expected) |
| `dashboard_safety` | Dashboard | replies mix no scenarios; refinement of `ReserveMonitor!Spec` |
| `dashboard_failure` | Dashboard | finding 3 (violation expected) |
| `cli_records` | MCRecordCommands | workflow commands (regular, multisig, changeset), session, init, update, settings: what a command read still justifies what it does |
| `cli_services` | MCServiceCommands | build and upload, key linking, secrets (regular, multisig), login, simulation: what a command was told still justifies what it goes on to do |
| `cli_ends` | MCServiceCommands | commands that wait come to an end |
| `wf_changeset_delete`, `session_logout`, `login_reload` | WorkflowCommands, Session, Login | findings 4 to 6 (violations expected) |

The monitor has no run of its own: in `agent` the same loop runs against the same
chain, with the callback's blocking in addition, and the agent's steps are proved
to be the monitor's. `CursorMatchesHanded` and the monitor's `TypeOK` are proved
and no longer part of a run. A dry run (`DryRun = TRUE`) is covered by the
theorems, which hold for both values. The properties of the two CLI modules are
conjunctions of those of the groups; each names the lines it is about.

The hazard list in `PROJECT.json` says at which line each property bites.

### Bounds
* `agent`: `MaxEvents` = 2 and `MaxBlocks` = 3: two events over three blocks and the
  one being built give empty blocks, both events in one block, events that are not
  mined yet, two rounds with new events, a block mined in mid-round, and old heads up
  to three blocks behind. Three blocks are needed: with two, a round that asked again
  for its last block would go unnoticed. A third event lengthens the behaviours without
  a new kind of round; everything holds with it as well, in five times the time.
  The owner and one other sender attest (`onReport` is open to anyone).
* `MaxRestarts` = 1: one replay of the history, before and after recoveries.
* `MaxErrors` = 1 with two possible failures: the list overflows.
* Dark pool: `MaxTime` = 2 with timeouts 1 and 2 gives calls before, at and after
  a deadline; timeout 0 and premium 2 are refused. Two requesters and
  `MaxRequests` = 2 make two requests that may share the single ticket. `MaxPool`
  = 1 with amount 1 makes transfers that are refused. `MaxVersion` = 2 allows two
  settlements, in either order of outcome. One enclave suffices because an
  action looks at the role only, which is granted and revoked during the run.
* Dashboard: three requests are the least for a scenario, a second one and a
  status between them; delays of 1 tick and expiries of 2 and 3 within 3 ticks let
  a timer fire before, at and after the expiry of another override. One block
  with two events, of which an insolvency may be first, gives an alert in the
  middle of a dispatch. `dashboard_failure` has distinct delays and more time.
* CLI: two processes per group where processes share something (one multisig in
  the others), three token sets for them to refresh, two workflow names
  and contents, a quota of one active workflow, three landed transactions, three
  commands: enough for a read, another command's change and the transaction built
  from the read, plus one more that lands late. The runs have one tab, since a
  second one may bring a code to another round's verifier (below). Retries are cut to two attempts,
  clocks to two ticks around deadlines of one and two, chains to one supported and
  one not, directories to three. Secrets are given a timeout below the maximum and one
  above, or, for the multisig, one of exactly the maximum. `MaxInits` = 2 is an
  interrupted or finished `init` and a repeated one. In `CommandSettings` all
  directories have a `workflow.yaml` or none has, since a command asks that of the
  directory it has ended up in and of no other. `cli_ends` uses smaller bounds and no reload of
  the login page: with one, `login_reload` shows that a login may not end.
* Symmetry is used for processes, names, accounts, workflows and requests, which
  are interchangeable, and only in runs without liveness properties.

`CHECK_DEADLOCK FALSE` is set because the bounded chain stops growing, the
process may be down for good, a dark pool whose clock has reached its bound
may have no call left that succeeds, and commands end.

### Fairness
Weak fairness of the loop's continuations and timer, of the recording microtask,
and of process start: JavaScript runs what is queued, and the deployment's
service unit restarts the process (`deployment/self-healing-reserve.service`).
Weak fairness of *some* outcome of a wallet command (execSync kills it after
30 s) and of the end of the dashboard fetch (Node's HTTP client gives up after
its default timeout); neither is assumed to succeed. Strong fairness of
`getBlockNumber` with the newest head and of `getContractEvents`: they may fail
or be stale any number of times, but a call that is retried for ever eventually
succeeds. No fairness is assumed of attestations, blocks or exits; the delivery
properties are about processes that are eventually not killed any more.

For the CLI, weak fairness of each process's own steps (Go runs them; a call
without an answer runs into its client's timeout, and giving up is a step too), of
the login's handlers, of the user's answer to a prompt and of the engine's start of
a simulation. Nothing is assumed of the chain, the services, other processes, the
browser's user or what a simulated workflow does.

### Findings
1. **A settled request has no withdrawal ticket.** `cccSettle` fills the request
   but sets no ticket, so it keeps `bytes32(0)`; the declaration says "CCC
   enclave-generated ticket for withdrawal". The zero ticket works once: the
   first withdrawal marks it used, and every further request settled this way can
   never be withdrawn. Run `darkpool_ticket`.
2. **The result may contradict the request.** After `cccSettle` with
   `recoverySucceeded = false` the request stays open and another call may fill
   it; the stored result still answers "did recovery fill?" with no. Run
   `darkpool_result`.
3. **The failure scenario does not stay.** The override is meant to "Persist until
   manually reset", but the timer of a healing scenario started before clears
   whatever is shown when it fires, and the override expires after 600 s anyway.
   Run `dashboard_failure`.
4. **A delete with changesets prepares one version.** `cre workflow delete` "Deletes
   all workflow versions matching the given name", but with `--changeset` it returns
   from the loop after the first. Run `wf_changeset_delete`.
5. **A logout may be undone.** The telemetry sent after `cre logout` still holds the
   credentials; when they are about to expire it refreshes them and saves the new
   ones. For that the refresh token must still be accepted, so the revocation, whose
   failure the logout ignores, must have failed. Run `session_logout`.
6. **A reload may hang the login.** The channel of codes holds one and is read once; a
   callback with a code that finds it full blocks, and `Shutdown` waits for that handler
   for ever. With one reload this takes a command that has stopped reading: its 500 s
   have passed before the user agrees, the first callback fills the channel and the
   reload blocks. Run `login_reload`.

Seen in the models as well, without a contradicted statement or a run of their own:
two commands that append to the changeset file at once may lose one of the entries
(`cmd/common/utils.go:222`); two builds of one folder may exchange their `tmp.wasm`
(`deploy/compile.go:48`); two commands that save refreshed tokens at once share
`cre.yaml.tmp`, and one may rename it into place when the other has just emptied it
(`credentials.go:90`), so that the file is empty until the other has written, and
stays empty if the other is killed: `SessionKept` is therefore stated for behaviours
in which no two saves have overlapped; a link made by another account in between is blamed on the
user's own (`deploy/autoLink.go:41`); a secrets timeout of exactly the maximum is
accepted here and may be refused by the contract (`secrets/create/create.go:40`); two
tabs can bring a code to another round's verifier, and the login then fails
(`cmd/login/login.go:178`); an interrupt before a simulation has a trigger ends it
with an error status or with success, depending on the moment
(`simulate/simulate.go:460`); a repeated `init` writes files it does not ask about
(`cmd/creinit/creinit.go:477`: the secrets file, the contracts and a Golang project's
`go.mod`, named in `RewrittenBy`); two overlapping updates may leave the older release
(`cmd/update/update.go:330`); the environment file may be of a directory above the
project's (`settings/settings_load.go:91`). The dashboard's history is cut to 100
entries by the agent's reports but not by the scenarios; a status may pair the real
reserves with an overridden attestation; after SIGTERM the server is closed but the
poller keeps the process alive.

## 4. Proofs

TLAPS checks every theorem below for all values of the constants that satisfy
the modules' assumptions (one named `...Assumption` in each): types of the
parameters, that the zero ticket and zero hash are none of the others, that a
healing scenario recovers before it expires. Those about `MCRecordCommands` and
`MCServiceCommands` hold for all sets and bounds a `.cfg` gives, and for the flags of
the instances in them.

* **Monitor.** `MonitorInvariant` proves the conjunction of the type invariant,
  `BlocksPartitionLog` (block boundaries are within the log and ordered) and the
  two cursor properties. `CursorMatchesHanded` is the heart: outside a dispatch
  the number of handed events is the number of events up to the cursor; inside,
  handed and queued events are together those up to the head of the round. It
  needs `BlocksPartitionLog` for the log query to start where the handed events
  end, and its bounds on the cursor for blocks mined in mid-round not to matter.
  `HandedIsMinedPrefix` follows step by step from it. `Informed` combines it with
  `EventsMirrorState` (state and last event agree), an invariant of the contract. `StreamImplemented` maps
  mining to publishing, a turn of the dispatch loop to delivering, and an exit to
  a restart.
* **Agent.** `AgentRefinesMonitor` shows each step to be a monitor step or to
  leave the monitor alone, so all of the above carries over (`AgentDeliversEvents`).
  `AgentInvariant`
  then needs `BusyMeansInFlight` (where the one recovery is) for
  `MetricsConsistent`, and both for `TransfersFunded` and `SuccessMeansSent`.
  `RecoveriesAnswerEvents` rests on a lemma about the number of insolvent events
  of a sequence that grows by one, `ErrorsAreLatestFailures` on one about pushing to
  the list and cutting it.
* **Dark pool.** `PoolInvariant` proves the safety properties together: that an
  open request was neither settled successfully nor paid (which `SuccessIsFinal`,
  `PaidOnce` and `MarkedIffPaid` say) is what `ExpiredIsDead` needs. For
  `LifecycleImplemented`, one lemma shows that a call on a request moves only
  that request's stage.

* **Dashboard.** `DashboardRefinesMonitor` shows each of the poller's steps to be a
  monitor step or, for the await of an alert, none; `DashboardDeliversEvents` follows.
  `PageInvariant` is inductive:
  while either override is in effect the two are equal (`HalvesAgree`), and a
  request without a reply knows nothing but real reserves (`ReplyAgrees`). The heart
  is the status request that finds the reserves overridden: they are then in effect,
  so both halves are equal, and it looks at the second half in the same turn; time
  passing in between can only turn the attestation into the real one. The handler
  that waited for the feed shows real reserves, with which nothing can be mixed.

* **Workflow commands.** `WorkInv` is the conjunction of `RegInv` (the registry has
  one entry per name and tag and is within its limit), `TxsInv` and, for each command,
  `CmdInv`. `SeenInv` and `FreshTx` are why no deploy undoes a pause it saw: a deploy
  that is to register an active workflow found none paused, so every pause there is
  now came after its first read, and this stays true of the transaction it has sent,
  prepared or written down, however late that lands. `ReadyInv` says what the checks
  have established by each phase; it is only claimed while the registry is as it was
  at the first read (`seenAt = block`), which is what lets a step of anybody else
  preserve it. `RoundsInv` counts off the versions a delete has dealt with. For one
  process, `FileInv` says that its copy of the changeset file has all that the file has.
* **Build.** `UploadInv` says what storage holds at each step of an upload: the
  binary before the URL of the configuration is asked for, the artifact itself
  before its URL is fetched, all of them before the registration. An answer may be
  lost and an attempt repeated because storage never forgets. `SoloInv` says what
  the two shared files hold at each step of a build nobody disturbed; it lasts since
  whoever starts to build marks all who are building (`Touch`).
* **Key linking.** `LinkInv`: a command whose proof was verified carries the time and
  the number of links it saw (`checked`); both only grow, so while they are as they
  were, the contract accepts. An unlink on its way was agreed to at the prompt, by
  the command that sent it, however long ago.
* **Secrets.** `SecretsInv`: who posts has its request on the allowlist, who hands a
  transaction out has its bundle on disk, a success was executed by the vault.
  Requests that were given up stay on the allowlist, and bundles are not removed.
* **Init.** `ProjectInv`: at each step the files of the steps before it exist, and a
  workflow without a directory has none; while a workflow's directory is written to,
  its edited files are among those whose loss was agreed to. `KeptUnlessAgreed` exempts
  exactly the files of `RewrittenBy`: project settings, environment, ignored files and
  workflows are protected in every project, contracts and `go.mod` from the templates
  that bring none.
* **Self-update.** `UpdateInv`: each answer that is cached or in a process's hands
  carries a time it was true at, and answers age. A cache file that is written over
  by an older answer carries the older time, so the next check asks again.
* **Login.** `LoginInv`, for the one tab the runs have too: between a handler's two
  assignments verifier and state differ, and that handler is the tab's. The theorem's
  hypothesis `Tabs = {t}` is needed: with two tabs the property does not hold.
  `LoginTypes` is for any number of tabs: the handlers check the count of retries
  before they raise it, so the count and the handlers in between (`Renewing`) are
  together at most one per tab above the limit.
* **Session.** `SessionInv`: as long as no two saves overlapped, at most one process is
  between opening the temporary file and renaming it, its inode is the one under the
  temporary name, and when it renames, the file is whole. A refresh token that is
  still to be saved is nobody else's (`NewInv`), so nobody can use it up before it is
  on file; that on file is accepted, given up, or in the hands of who replaced it.
* **Simulation.** The experimental chains are a sequence the code folds into its
  clients and forwarders (`IsFold`); `GoodChains` holds of the result for a sequence of
  any length, by induction on the length. `SimulationInv` then says that each client's
  chain has a fake one by the time a trigger may be picked, and that what was written
  was asked for.
* **Settings.** `Nearest` climbs from a directory to its parent. `NearestIsNearest`
  shows by induction on the number of the directory that in every tree it finds the
  lowest directory at or above with what is looked for; `SettingsInv` says of each
  lookup where it started and what was there. A file that `--env` names and that is
  there goes before every other one, and only without it is the nearest one loaded
  (`EnvIsRight`); only a simulation that does not broadcast is ready without an owner.
* **Induction.** The lemmas on recursive definitions do not use the library's induction
  theorems, which take an operator, but the well-foundedness of the natural numbers: a
  nonempty set of them has a least element (`LeastNumber`), so a set that has 0 and all
  successors has all (`AllNumbers`). That a recursive function satisfies its equation
  is shown in the same way, by building it up to each argument (`FoldExists`,
  `ClimbExists`).
* **The tool.** `ConfigStays` and one lemma per group (`...Steps`) carry the groups'
  theorems over to the MC modules, whose steps are those of one group. The groups with
  a module of proofs are instantiated there a second time, with the flags of the
  instance; lemmas named `...IsModule` and `...IsSame` say that the definitions agree.
  `TypesAreKept` and `SuccessesAreDone` of each module put the invariants of all its
  groups together. Among the services a success is a fact about a state: the vault has
  executed the request, and no capability has failed. Among the records it is one about
  a step, and `SuccessesAreDone` assumes there that the commands with changesets run in
  one process (`OneProc = {p}`), as the run does: two that append at once may lose an
  entry (above).

Theorems about joint invariants are split, one per property; `CursorCorrect`,
`FlagAndErrorsCorrect` and the type theorem of the monitor are about invariants that
no run lists.

Every invariant and every action property of a passing run is stated by a theorem. Only
model-checked are the liveness properties (`IdleAgain`, `FirstIncidentAttempted`,
`EventsAreDelivered`, `CommandsEnd`), since TLAPS 1.4.5 does not treat fairness and
`ENABLED`.

## 5. Plan

Done: 1 `ReserveAttestation`; 2 `EventStream`, `ReserveMonitor`; 3 `RecoveryAgent`;
4 `RequestLifecycle`, `CREDarkPool`; 5 proofs about 2 to 4; 6 the modules of the CLI's
groups, `MCRecordCommands` and `MCServiceCommands`; 7 `Dashboard` and its proofs; 8
proofs about all groups of the CLI.

Next: the administration of `CREDarkPool`; the dashboard's agent
metrics.

## 6. Not modelled

* `workflow/ccc-settlement.ts` matches against a table written in its source and
  never calls the contract; what an enclave would read before `cccSettle` is not in
  the repository, so the hazard of two settlements computed from one table
  (`CREDarkPool.sol:326`) has no property. `agent/darkpool.ts` is never selected by
  the running agent.
* `workflow/main.ts`, the mock API and the demo keep no state between two runs; the
  reports they can send are among those anyone may send in `ReserveAttestation`.
* `api/index.ts` repeats the dashboard's handlers for a serverless platform; what
  timers and memory do there is the platform's doing.
* The dashboard's counters, histories, exports and the proxied toggle; the channels
  and messages of alerts.
* Of the CLI: the generator of bindings and the templates (text from text), the
  remaining commands (one query or process), the client's administrative calls that
  no command makes, encryption and wire formats.
* Web pages, deployment and demo scripts keep no state of their own; the notes and
  wallet skills under `research/` are not run by the system.
* Encryption, attestations, hashing and signatures are opaque values. Response-time
  statistics, logging and formatting are left out. Chain reorganisations, gas and the
  arithmetic width of `uint256` timestamps do not matter for the properties: the
  timeouts are at most a day.
