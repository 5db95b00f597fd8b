---------------------------- MODULE RecoveryAgent ----------------------------
(***************************************************************************)
(* agent/index.ts with recovery.ts, wallet.ts and metrics.ts: the callback *)
(* the monitor runs for every event.  An insolvent event starts a recovery *)
(* unless one is already under way.  The wallet commands are execSync      *)
(* calls, so they run inside the monitor's dispatch loop and block it; the *)
(* code after "await executeRecovery" is a microtask, which runs only when *)
(* that loop has ended; the dashboard report is a real await, during which *)
(* the monitor polls on.                                                   *)
(***************************************************************************)
EXTENDS ReserveMonitor, FiniteSets

CONSTANTS DryRun,            \* config.dryRun
          ReportingEnabled,  \* config.reportingEnabled
          MaxErrors          \* how many errors the metrics keep (100)

ASSUME AgentAssumption ==
  /\ DryRun \in BOOLEAN
  /\ ReportingEnabled \in BOOLEAN
  /\ MaxErrors \in Nat \ {0}

VARIABLES recovering,            \* the flag of index.ts
          walletStep,            \* the wallet command running, or "none"
          result,                \* outcome awaited by the callback, or "none"
          reporting,             \* the fetch to the dashboard is in flight
          totalRecoveries, successfulRecoveries, failedRecoveries, errors,
          failures,              \* history: every failed step so far
          traded, sent           \* trades and transfers the wallet carried out

metrics == <<totalRecoveries, successfulRecoveries, failedRecoveries, errors,
             failures>>
wallet == <<traded, sent>>
agentVars == <<recovering, walletStep, result, reporting, metrics, wallet>>
allVars == <<vars, agentVars>>

Steps == {"checkBalance", "trade", "send"}

AgentInit ==
  /\ Init
  /\ recovering = FALSE
  /\ walletStep = "none"
  /\ result = "none"
  /\ reporting = FALSE
  /\ totalRecoveries = 0
  /\ successfulRecoveries = 0
  /\ failedRecoveries = 0
  /\ errors = <<>>
  /\ failures = <<>>
  /\ traded = 0
  /\ sent = 0

\* errors.push, then slice(-MaxErrors) once there are more.
Remember(step) ==
  LET es == Append(errors, step)
  IN IF Len(es) > MaxErrors THEN Tail(es) ELSE es
-----------------------------------------------------------------------------
\* Mutant of StartsRecovery: the attestation is read the wrong way round.
StartsWhenSolvent(event) == event.isSolvent /\ ~recovering

StartsRecovery(event) == ~event.isSolvent /\ ~recovering

\* The part of the onStatus callback that runs before its first await.
Callback(event) ==
  IF StartsRecovery(event)
  THEN /\ recovering' = TRUE
       /\ totalRecoveries' = totalRecoveries + 1
       /\ walletStep' = "checkBalance"
       /\ UNCHANGED <<result, reporting, successfulRecoveries,
                      failedRecoveries, errors, failures, wallet>>
  ELSE UNCHANGED agentVars

HandleEvent ==
  /\ walletStep = "none"
  /\ OnStatus
  /\ Callback(Head(logs))

\* What a command does to the world: checkBalance reads, the others move funds.
Effect(took) ==
  /\ traded' = IF walletStep = "trade" /\ took THEN traded + 1 ELSE traded
  /\ sent' = IF walletStep = "send" /\ took THEN sent + 1 ELSE sent

\* A dry run does nothing, and says that it succeeded.
SuccessTakesEffect == ~DryRun

\* A command exits with JSON on its output.
StepSucceeds ==
  /\ walletStep # "none"
  /\ Effect(SuccessTakesEffect)
  /\ walletStep' = CASE walletStep = "checkBalance" -> "trade"
                     [] walletStep = "trade" -> "send"
                     [] walletStep = "send" -> "none"
  /\ result' = IF walletStep = "send" THEN "success" ELSE "none"
  /\ UNCHANGED <<monitorVars, recovering, reporting, metrics>>

\* Mutants of AfterFailure: a failed trade is tried again; it is ignored.
RetryTrade(step) == IF step = "trade" THEN "trade" ELSE "none"
IgnoreTrade(step) == IF step = "trade" THEN "send" ELSE "none"

\* The command that follows a failed one: there is none, the recovery ends.
AfterFailure(step) == "none"

\* Mutants of Failure: the error is swallowed; the promise is never settled;
\* the step is not named.
FailureSwallowed(step) == "success"
FailureUnsettled(step) == "none"
FailureUnnamed(step) == "unknown"

\* What executeRecovery returns when a command fails: the step that failed.
Failure(step) == step

\* A command exits with an error, exceeds the 30 s or prints what is not JSON.
\* In the last two cases the wallet may have carried the transaction out.
StepFails(took) ==
  /\ walletStep # "none"
  /\ ~DryRun
  /\ Effect(took)
  /\ walletStep' = AfterFailure(walletStep)
  /\ result' = IF walletStep' = "none" THEN Failure(walletStep) ELSE "none"
  /\ UNCHANGED <<monitorVars, recovering, reporting, metrics>>

\* The microtask after "await executeRecovery": record the outcome and start
\* the report; without reporting the finally clause runs in the same turn.
Record ==
  /\ result # "none"
  /\ pc # "dispatch"
  /\ IF result = "success"
     THEN /\ successfulRecoveries' = successfulRecoveries + 1
          /\ UNCHANGED <<failedRecoveries, errors, failures>>
     ELSE /\ failedRecoveries' = failedRecoveries + 1
          /\ errors' = Remember(result)
          /\ failures' = Append(failures, result)
          /\ UNCHANGED successfulRecoveries
  /\ result' = "none"
  /\ reporting' = ReportingEnabled
  /\ recovering' = ReportingEnabled
  /\ UNCHANGED <<monitorVars, walletStep, totalRecoveries, wallet>>

\* The fetch settles, whether answered, refused or timed out: every outcome is
\* logged and swallowed, and the finally clause clears the flag.
ReportDone ==
  /\ reporting
  /\ pc # "dispatch"
  /\ reporting' = FALSE
  /\ recovering' = FALSE
  /\ UNCHANGED <<monitorVars, walletStep, result, metrics, wallet>>

\* The monitor's other steps.  The dispatch loop is one turn, and a settled
\* recovery is recorded before the poll timer can fire.
MonitorStep ==
  /\ walletStep = "none"
  /\ \/ \E head \in Heads : NewBlocks(head) \/ NoNewBlocks(head)
     \/ FetchLogs \/ PollFails \/ EndRound \/ Start
     \/ Wake /\ result = "none"
  /\ UNCHANGED agentVars

\* Mutant of ForgetMetrics: the counters survive the process.
KeepMetrics == UNCHANGED metrics

\* The collector lives in the process only.
ForgetMetrics ==
  /\ totalRecoveries' = 0
  /\ successfulRecoveries' = 0
  /\ failedRecoveries' = 0
  /\ errors' = <<>>
  /\ failures' = <<>>

\* The process dies.  A wallet command that was running may have taken effect.
AgentExit(took) ==
  /\ Exit
  /\ Effect(took /\ ~DryRun)
  /\ recovering' = FALSE
  /\ walletStep' = "none"
  /\ result' = "none"
  /\ reporting' = FALSE
  /\ ForgetMetrics

AgentStep ==
  \/ HandleEvent
  \/ StepSucceeds
  \/ \E took \in BOOLEAN : StepFails(took) \/ AgentExit(took)
  \/ Record
  \/ ReportDone
  \/ MonitorStep

AgentNext ==
  \/ ChainNext /\ UNCHANGED <<monitorVars, agentVars>>
  \/ AgentStep /\ UNCHANGED chainVars

AgentSpec == AgentInit /\ [][AgentNext]_allVars
-----------------------------------------------------------------------------
(* Fairness.  Continuations and timers run; a wallet command ends, at the  *)
(* latest when execSync kills it after 30 s; the dashboard fetch settles,  *)
(* at the latest when the client's own timeout gives up.  The process      *)
(* supervisor starts the process again.  An RPC call may fail or answer    *)
(* with an old head any number of times but not for ever: one that keeps   *)
(* being issued is eventually answered with the current state (SF).        *)
Unblocked(A) == A /\ walletStep = "none" /\ UNCHANGED <<chainVars, agentVars>>

AgentFairness ==
  /\ WF_allVars(HandleEvent /\ UNCHANGED chainVars)
  /\ WF_allVars((StepSucceeds \/ \E took \in BOOLEAN : StepFails(took))
                  /\ UNCHANGED chainVars)
  /\ WF_allVars(Record /\ UNCHANGED chainVars)
  /\ WF_allVars(ReportDone /\ UNCHANGED chainVars)
  /\ WF_allVars(Unblocked(EndRound))
  /\ WF_allVars(Unblocked(Wake /\ result = "none"))
  /\ WF_allVars(Unblocked(Start))
  /\ SF_allVars(Unblocked(NewBlocks(BlockNumber)))
  /\ SF_allVars(Unblocked(FetchLogs))

AgentFairSpec == AgentSpec /\ AgentFairness
-----------------------------------------------------------------------------
AgentTypes ==
  /\ recovering \in BOOLEAN
  /\ walletStep \in Steps \union {"none"}
  /\ result \in Steps \union {"none", "success"}
  /\ reporting \in BOOLEAN
  /\ totalRecoveries \in Nat
  /\ successfulRecoveries \in Nat
  /\ failedRecoveries \in Nat
  /\ errors \in Seq(Steps)
  /\ failures \in Seq(Steps)
  /\ traded \in Nat
  /\ sent \in Nat

AgentTypeOK == TypeOK /\ AgentTypes

\* The busy flag is up exactly while a recovery is somewhere between the
\* event that started it and its finally clause, and it is in one place only:
\* running a command in the dispatch loop, waiting to be recorded, or being
\* reported.
BusyMeansInFlight ==
  /\ recovering <=> (walletStep # "none" \/ result # "none" \/ reporting)
  /\ walletStep # "none" => pc = "dispatch" /\ result = "none"
  /\ result # "none" => pc \in {"dispatch", "sleep"}
  /\ reporting => walletStep = "none" /\ result = "none"

\* What the metrics say adds up: every recovery that was started is counted
\* as a success or as a failure once, except one that is still running.  A
\* report to the dashboard therefore never carries a half-counted recovery.
MetricsConsistent ==
  totalRecoveries = successfulRecoveries + failedRecoveries
                      + (IF recovering /\ ~reporting THEN 1 ELSE 0)

Latest(s) ==
  SubSeq(s, IF Len(s) > MaxErrors THEN Len(s) - MaxErrors + 1 ELSE 1, Len(s))

\* The error list holds the last failures in order, all of them until it is
\* full, and the counter counts those it has dropped as well.
ErrorsAreLatestFailures ==
  /\ errors = Latest(failures)
  /\ failedRecoveries = Len(failures)

Insolvencies(events) ==
  Cardinality({i \in 1..Len(events) : ~events[i].isSolvent})

\* The agent acts on attested events only: never more recoveries than there
\* were insolvent events to start them, and the first one is never missed.
RecoveriesAnswerEvents ==
  /\ totalRecoveries <= Insolvencies(handed)
  /\ Insolvencies(handed) > 0 => totalRecoveries > 0

\* No money leaves for the reserve that was not first bought, whatever fails
\* and wherever the process dies: every transfer follows a trade of its own.
TransfersFunded ==
  ~DryRun => sent + (IF walletStep = "send" THEN 1 ELSE 0) <= traded

\* A recovery counted as a success did send the funds, and a dry run moves
\* nothing at all.
SuccessMeansSent ==
  IF DryRun THEN traded = 0 /\ sent = 0
  ELSE successfulRecoveries + (IF result = "success" THEN 1 ELSE 0) <= sent

\* A restart replays the whole event history, so an old deficit is paid for
\* again; but no more than once for each time the process was started.
TradesBoundedByReplays ==
  traded <= (restarts + 1) * Insolvencies(MinedLog)

\* The agent never stays busy: the handler cannot wedge the flag.
IdleAgain == recovering ~> ~recovering

\* If the process stays up, an insolvency that was mined leads to a recovery
\* carried to its end, however many RPC calls, commands and reports fail.
FirstIncidentAttempted ==
  <>[](pc # "down") =>
     (Insolvencies(MinedLog) > 0) ~> (successfulRecoveries + failedRecoveries > 0)
=============================================================================
