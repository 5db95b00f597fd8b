--------------------------- MODULE MonitoringProofs --------------------------
(***************************************************************************)
(* Theorems about the two programs that watch the reserve, RecoveryAgent   *)
(* and Dashboard: for every number of accounts, events, blocks, restarts   *)
(* and remembered errors, with and without dry run and reporting, and for  *)
(* every number of requests, every delay and expiry, and every chain.  The *)
(* steps of both are steps of the monitor, so what was proved of the       *)
(* monitor carries over (AgentRefinesMonitor, DashboardRefinesMonitor).    *)
(* AgentInv is then inductive relative to it; PageInv is the inductive     *)
(* invariant of the overrides and of the replies.                          *)
(***************************************************************************)
EXTENDS RecoveryAgent, Dashboard, ReserveMonitorProofs, FiniteSetTheorems

(***************************************************************************)
(* The recovery agent                                                      *)
(***************************************************************************)

USE AgentAssumption

\* The invariants of RecoveryAgent are inductive together, on top of the
\* monitor's.  The last conjunct is needed for RecoveriesAnswerEvents: an event
\* that finds the agent busy must find a recovery counted.
AgentInv ==
  /\ AgentTypes
  /\ BusyMeansInFlight
  /\ MetricsConsistent
  /\ ErrorsAreLatestFailures
  /\ RecoveriesAnswerEvents
  /\ TransfersFunded
  /\ SuccessMeansSent
  /\ recovering => totalRecoveries > 0
-----------------------------------------------------------------------------
(* Every step of the agent is a step of the monitor.                       *)

LEMMA AgentStepIsMonitorStep == [AgentNext]_allVars => [Next]_vars
<1> SUFFICES ASSUME [AgentNext]_allVars PROVE [Next]_vars
  OBVIOUS
<1>1. CASE ChainNext /\ UNCHANGED <<monitorVars, agentVars>>
  BY <1>1 DEF Next
<1>2. CASE AgentStep /\ UNCHANGED chainVars
  <2>1. CASE HandleEvent
    BY <1>2, <2>1 DEF HandleEvent, Next, MonitorNext
  <2>2. CASE StepSucceeds
    BY <1>2, <2>2 DEF StepSucceeds, vars
  <2>3. ASSUME NEW took \in BOOLEAN, StepFails(took) PROVE [Next]_vars
    BY <1>2, <2>3 DEF StepFails, vars
  <2>4. ASSUME NEW took \in BOOLEAN, AgentExit(took) PROVE [Next]_vars
    BY <1>2, <2>4 DEF AgentExit, Next, MonitorNext
  <2>5. CASE Record
    BY <1>2, <2>5 DEF Record, vars
  <2>6. CASE ReportDone
    BY <1>2, <2>6 DEF ReportDone, vars
  <2>7. CASE MonitorStep
    BY <1>2, <2>7 DEF MonitorStep, Next, MonitorNext
  <2> QED BY <1>2, <2>1, <2>2, <2>3, <2>4, <2>5, <2>6, <2>7 DEF AgentStep
<1>3. CASE UNCHANGED allVars
  BY <1>3 DEF allVars
<1> QED BY <1>1, <1>2, <1>3 DEF AgentNext

\* agent/index.ts: the callback, however long it blocks the loop, leaves the
\* monitor's delivery of events as it was specified.
THEOREM AgentRefinesMonitor == AgentSpec => Spec
<1>1. AgentInit => Init
  BY DEF AgentInit
<1> QED BY <1>1, AgentStepIsMonitorStep, PTL DEF AgentSpec, Spec

\* What the run of the agent checks of the events: the agent, wallet commands
\* and all, delivers them as the abstract stream promises, sees each mined event
\* once and in order, and knows the state of the contract when it has seen all.
THEOREM AgentDeliversEvents ==
  AgentSpec => StreamSpec /\ []HandedIsMinedPrefix /\ []InformedWhenCaughtUp
BY AgentRefinesMonitor, StreamImplemented, PrefixHanded, Informed, PTL
-----------------------------------------------------------------------------
(* Lemmas about the counted events and the remembered errors.              *)

LEMMA InsolvenciesEmpty == Insolvencies(<<>>) = 0
<1>1. {i \in 1..Len(<<>>) : ~(<<>>)[i].isSolvent} = {}
  OBVIOUS
<1> QED BY <1>1, FS_EmptySet DEF Insolvencies

LEMMA InsolvenciesAppend ==
  ASSUME NEW s \in Seq(Event), NEW e \in Event
  PROVE  /\ Insolvencies(s) \in Nat
         /\ Insolvencies(Append(s, e)) =
              IF e.isSolvent THEN Insolvencies(s) ELSE Insolvencies(s) + 1
<1> DEFINE A == {i \in 1..Len(s) : ~s[i].isSolvent}
<1> DEFINE t == Append(s, e)
<1> DEFINE B == {i \in 1..Len(t) : ~t[i].isSolvent}
<1>1. /\ Len(s) \in Nat /\ Len(t) = Len(s) + 1 /\ t[Len(s) + 1] = e
      /\ \A i \in 1..Len(s) : t[i] = s[i]
  OBVIOUS
<1>2. IsFiniteSet(A) /\ Cardinality(A) \in Nat
  <2>1. IsFiniteSet(1..Len(s))
    BY <1>1, FS_Interval
  <2> QED BY <2>1, FS_Subset, FS_CardinalityType
<1>3. CASE e.isSolvent
  <2>1. B = A
    BY <1>1, <1>3
  <2> QED BY <1>2, <1>3, <2>1 DEF Insolvencies
<1>4. CASE ~e.isSolvent
  <2>1. B = A \union {Len(s) + 1} /\ Len(s) + 1 \notin A
    BY <1>1, <1>4
  <2>2. Cardinality(B) = Cardinality(A) + 1
    BY <1>2, <2>1, FS_AddElement
  <2> QED BY <1>2, <1>4, <2>2 DEF Insolvencies
<1> QED BY <1>3, <1>4

LEMMA LatestEmpty == Latest(<<>>) = <<>>
<1>1. <<>> \in Seq(Steps) /\ Len(<<>>) = 0
  BY EmptySeq
<1> QED BY <1>1, SubSeqEmpty DEF Latest

\* Where the latest of l errors begin.
FirstOf(l) == IF l > MaxErrors THEN l - MaxErrors + 1 ELSE 1

LEMMA FirstKept ==
  ASSUME NEW l \in Nat PROVE FirstOf(l) \in Nat \ {0} /\ FirstOf(l) <= l + 1
  BY DEF FirstOf

\* Latest(s) is the end of s from index m on.
LEMMA LatestFrom ==
  ASSUME NEW s \in Seq(Steps), NEW m, m = FirstOf(Len(s))
  PROVE  /\ m \in Nat \ {0} /\ m <= Len(s) + 1
         /\ Latest(s) \in Seq(Steps)
         /\ Len(Latest(s)) = Len(s) - m + 1
         /\ \A i \in 1..(Len(s) - m + 1) : Latest(s)[i] = s[m + i - 1]
<1>1. Len(s) \in Nat /\ m \in Nat \ {0} /\ m <= Len(s) + 1
  BY LenProperties, FirstKept
<1>2. Latest(s) = SubSeq(s, m, Len(s))
  BY DEF Latest, FirstOf
<1>3. Len(s) \in 0..Len(s)
  BY <1>1
<1> DEFINE u == SubSeq(s, m, Len(s))
<1>4. /\ u \in Seq(Steps)
      /\ Len(u) = IF m <= Len(s) THEN Len(s) - m + 1 ELSE 0
      /\ \A i \in 1..(Len(s) - m + 1) : u[i] = s[m + i - 1]
  BY <1>1, <1>3, SubSeqType
<1>5. Latest(s) = u
  BY <1>2
<1> HIDE DEF u
<1>6. Len(u) = Len(s) - m + 1
  <2>1. CASE m <= Len(s)
    BY <1>4, <2>1
  <2>2. CASE m = Len(s) + 1
    <3>1. ~(m <= Len(s)) /\ Len(s) - m + 1 = 0
      BY <1>1, <2>2
    <3> QED BY <1>4, <3>1
  <2> QED BY <1>1, <2>1, <2>2
<1> QED BY <1>1, <1>4, <1>5, <1>6

\* Pushing an error and cutting the list keeps it the latest of all failures.
LEMMA RememberLatest ==
  ASSUME NEW step \in Steps, failures \in Seq(Steps), errors = Latest(failures)
  PROVE  /\ Remember(step) \in Seq(Steps)
         /\ Remember(step) = Latest(Append(failures, step))
<1> DEFINE n == Len(failures)
<1> DEFINE m == FirstOf(n)
<1> DEFINE fs == Append(failures, step)
<1> DEFINE es == Append(errors, step)
<1> DEFINE k == FirstOf(Len(fs))
<1>1. /\ n \in Nat /\ MaxErrors \in Nat /\ MaxErrors > 0
      /\ fs \in Seq(Steps) /\ Len(fs) = n + 1 /\ fs[n + 1] = step
      /\ \A i \in 1..n : fs[i] = failures[i]
  OBVIOUS
<1>2. /\ m \in Nat \ {0} /\ m <= n + 1 /\ errors \in Seq(Steps) /\ Len(errors) = n - m + 1
      /\ \A i \in 1..(n - m + 1) : errors[i] = failures[m + i - 1]
  BY LatestFrom
<1> HIDE DEF fs
<1>3. /\ k \in Nat \ {0} /\ k <= Len(fs) + 1
      /\ Latest(fs) \in Seq(Steps) /\ Len(Latest(fs)) = Len(fs) - k + 1
      /\ \A i \in 1..(Len(fs) - k + 1) : Latest(fs)[i] = fs[k + i - 1]
  <2>1. Len(fs) \in Nat
    BY <1>1
  <2>2. k \in Nat \ {0} /\ k <= Len(fs) + 1
    BY <2>1, FirstKept
  <2> QED BY <1>1, <2>2, LatestFrom
<1>4. /\ n - m + 2 > MaxErrors => k = m + 1
      /\ ~(n - m + 2 > MaxErrors) => k = 1 /\ m = 1
  <2> HIDE DEF n
  <2>1. CASE n > MaxErrors
    <3>1. m = n - MaxErrors + 1 /\ k = n - MaxErrors + 2
      BY <1>1, <2>1 DEF FirstOf
    <3> QED BY <1>1, <3>1
  <2>2. CASE n = MaxErrors
    <3>1. m = 1 /\ k = 2
      BY <1>1, <2>2 DEF FirstOf
    <3> QED BY <1>1, <2>2, <3>1
  <2>3. CASE n < MaxErrors
    <3>1. m = 1 /\ k = 1
      BY <1>1, <2>3 DEF FirstOf
    <3> QED BY <1>1, <2>3, <3>1
  <2> QED BY <1>1, <2>1, <2>2, <2>3
<1> HIDE DEF m, k, n
<1>5. /\ k \in Nat \ {0} /\ k <= n + 2
      /\ Latest(fs) \in Seq(Steps) /\ Len(Latest(fs)) = n - k + 2
      /\ \A i \in 1..(n - k + 2) : Latest(fs)[i] = fs[k + i - 1]
  <2>1. Len(fs) + 1 = n + 2 /\ Len(fs) - k + 1 = n - k + 2
    BY <1>1, <1>3
  <2> QED BY <1>3, <2>1
<1>6. /\ es \in Seq(Steps) /\ es # <<>> /\ Len(es) = n - m + 2
      /\ \A i \in 1..(n - m + 2) : es[i] = fs[m + i - 1]
  <2>1. /\ es \in Seq(Steps) /\ es # <<>> /\ Len(es) = Len(errors) + 1
        /\ es[Len(errors) + 1] = step /\ \A i \in 1..Len(errors) : es[i] = errors[i]
    <3>1. step \in Steps /\ errors \in Seq(Steps)
      BY <1>2
    <3> QED BY <3>1
  <2> HIDE DEF es
  <2>2. Len(es) = n - m + 2 /\ es[n - m + 2] = step
    BY <1>1, <1>2, <2>1
  <2>3. ASSUME NEW i \in 1..(n - m + 1) PROVE es[i] = fs[m + i - 1]
    <3>1. es[i] = errors[i] /\ errors[i] = failures[m + i - 1]
      BY <1>2, <2>1
    <3>2. m + i - 1 \in 1..n
      BY <1>1, <1>2
    <3> QED BY <1>1, <3>1, <3>2
  <2>4. m + (n - m + 2) - 1 = n + 1
    BY <1>1, <1>2
  <2>5. \A i \in 1..(n - m + 2) : i \in 1..(n - m + 1) \/ i = n - m + 2
    BY <1>1, <1>2
  <2> QED BY <1>1, <2>1, <2>2, <2>3, <2>4, <2>5
<1>7. CASE Len(es) > MaxErrors
  <2>1. /\ Tail(es) \in Seq(Steps) /\ Len(Tail(es)) = Len(es) - 1
        /\ \A i \in 1..Len(Tail(es)) : Tail(es)[i] = es[i + 1]
    BY <1>6, HeadTailProperties
  <2>2. k = m + 1
    BY <1>1, <1>4, <1>6, <1>7
  <2>3. Len(Tail(es)) = n - k + 2 /\ \A i \in 1..(n - k + 2) : Tail(es)[i] = fs[k + i - 1]
    BY <1>1, <1>2, <1>6, <2>1, <2>2
  <2>4. Tail(es) = Latest(fs)
    <3> DEFINE u == Tail(es)
    <3> DEFINE v == Latest(fs)
    <3>1. u \in Seq(Steps) /\ v \in Seq(Steps) /\ Len(u) = Len(v)
      BY <1>5, <2>1, <2>3
    <3>2. \A i \in 1..Len(u) : u[i] = v[i]
      BY <1>5, <2>3
    <3> HIDE DEF u, v
    <3>3. u = v
      BY <3>1, <3>2, SeqEqual
    <3> QED BY <3>3 DEF u, v
  <2>5. Remember(step) = Tail(es)
    BY <1>7 DEF Remember
  <2> QED BY <1>5, <2>4, <2>5 DEF fs
<1>8. CASE ~(Len(es) > MaxErrors)
  <2>1. k = 1 /\ m = 1
    BY <1>1, <1>4, <1>6, <1>8
  <2>2. es = Latest(fs)
    BY <1>1, <1>5, <1>6, <2>1, SeqEqual
  <2>3. Remember(step) = es
    BY <1>8 DEF Remember
  <2> QED BY <1>5, <2>2, <2>3 DEF fs
<1> QED BY <1>7, <1>8
-----------------------------------------------------------------------------
(* The inductive invariant.                                                *)

LEMMA AgentInvInit == AgentInit => AgentInv
<1> SUFFICES ASSUME AgentInit PROVE AgentInv
  OBVIOUS
<1>1. AgentTypes /\ BusyMeansInFlight /\ MetricsConsistent
  <2>1. errors \in Seq(Steps) /\ failures \in Seq(Steps)
    BY EmptySeq DEF AgentInit
  <2>2. AgentTypes
    BY <2>1 DEF AgentInit, AgentTypes
  <2>3. BusyMeansInFlight /\ MetricsConsistent
    BY DEF AgentInit, BusyMeansInFlight, MetricsConsistent
  <2> QED BY <2>2, <2>3
<1>2. ErrorsAreLatestFailures
  BY LatestEmpty DEF AgentInit, ErrorsAreLatestFailures
<1>3. RecoveriesAnswerEvents
  BY InsolvenciesEmpty DEF AgentInit, Init, MonitorInit, RecoveriesAnswerEvents
<1>4. TransfersFunded /\ SuccessMeansSent
  BY DEF AgentInit, TransfersFunded, SuccessMeansSent
<1> QED BY <1>1, <1>2, <1>3, <1>4 DEF AgentInit, AgentInv

\* The steps during which the agent's own variables do not change.
LEMMA IdleKeepsAgentInv ==
  ASSUME AgentInv, UNCHANGED <<agentVars, handed>>,
         \/ walletStep = "none" /\ result = "none"
         \/ walletStep = "none" /\ pc' \in {"dispatch", "sleep"}
         \/ pc' = pc
  PROVE  AgentInv'
BY DEF AgentInv, AgentTypes, BusyMeansInFlight, MetricsConsistent, ErrorsAreLatestFailures,
       RecoveriesAnswerEvents, TransfersFunded, SuccessMeansSent, Insolvencies,
       agentVars, metrics, wallet

LEMMA HandleEventKeepsAgentInv ==
  ASSUME MonitorInv, AgentInv, HandleEvent
  PROVE  AgentInv'
<1> DEFINE e == Head(logs)
<1> DEFINE n == Insolvencies(handed)
<1>1. /\ pc = "dispatch" /\ pc' = pc /\ walletStep = "none"
      /\ handed' = Append(handed, e) /\ Callback(e)
  BY DEF HandleEvent, OnStatus
<1>2. handed \in Seq(Event) /\ e \in Event /\ e.isSolvent \in BOOLEAN
  <2>1. handed \in Seq(Event) /\ logs \in Seq(Event) /\ logs # <<>>
    BY DEF MonitorInv, TypeOK, HandleEvent, OnStatus
  <2>2. Head(logs) \in Event
    BY <2>1, HeadTailProperties
  <2>3. \A x \in Event : x.isSolvent \in BOOLEAN
    BY DEF Event
  <2> QED BY <2>1, <2>2, <2>3
<1>3. n \in Nat /\ Insolvencies(handed)' = IF e.isSolvent THEN n ELSE n + 1
  <2>1. Insolvencies(handed') = IF e.isSolvent THEN n ELSE n + 1
    BY <1>1, <1>2, InsolvenciesAppend
  <2>2. Insolvencies(handed)' = Insolvencies(handed')
    BY DEF Insolvencies
  <2> QED BY <1>2, <2>1, <2>2, InsolvenciesAppend
<1> HIDE DEF e, n
<1>4. CASE StartsRecovery(e)
  <2>1. /\ ~e.isSolvent /\ ~recovering
        /\ recovering' = TRUE /\ walletStep' = "checkBalance"
        /\ totalRecoveries' = totalRecoveries + 1
        /\ UNCHANGED <<result, reporting, successfulRecoveries, failedRecoveries, errors,
                       failures, traded, sent>>
    BY <1>1, <1>4 DEF Callback, StartsRecovery, wallet
  <2>2. result = "none" /\ ~reporting
    BY <2>1 DEF AgentInv, BusyMeansInFlight
  <2>3. AgentTypes' /\ BusyMeansInFlight' /\ MetricsConsistent'
    BY <1>1, <2>1, <2>2
       DEF AgentInv, AgentTypes, Steps, BusyMeansInFlight, MetricsConsistent
  <2>4. ErrorsAreLatestFailures' /\ TransfersFunded' /\ SuccessMeansSent'
    BY <1>1, <2>1 DEF AgentInv, ErrorsAreLatestFailures, TransfersFunded, SuccessMeansSent
  <2>5. RecoveriesAnswerEvents' /\ totalRecoveries' > 0
    BY <1>3, <2>1 DEF AgentInv, AgentTypes, RecoveriesAnswerEvents, n
  <2> QED BY <2>3, <2>4, <2>5 DEF AgentInv
<1>5. CASE ~StartsRecovery(e)
  <2>1. UNCHANGED agentVars
    BY <1>1, <1>5 DEF Callback
  <2>2. AgentTypes' /\ BusyMeansInFlight' /\ MetricsConsistent' /\ ErrorsAreLatestFailures'
        /\ TransfersFunded' /\ SuccessMeansSent' /\ (recovering => totalRecoveries > 0)'
    BY <1>1, <2>1
       DEF AgentInv, AgentTypes, BusyMeansInFlight, MetricsConsistent, ErrorsAreLatestFailures,
           TransfersFunded, SuccessMeansSent, agentVars, metrics, wallet
  <2>3. e.isSolvent \/ totalRecoveries > 0
    BY <1>2, <1>5 DEF StartsRecovery, AgentInv
  <2>4. RecoveriesAnswerEvents'
    BY <1>3, <2>1, <2>3
       DEF AgentInv, AgentTypes, RecoveriesAnswerEvents, agentVars, metrics, n
  <2> QED BY <2>2, <2>4 DEF AgentInv
<1> QED BY <1>4, <1>5

LEMMA WalletKeepsAgentInv ==
  ASSUME AgentInv, StepSucceeds \/ \E took \in BOOLEAN : StepFails(took)
  PROVE  AgentInv'
<1>1. /\ walletStep \in Steps /\ walletStep # "none" /\ pc = "dispatch" /\ result = "none"
      /\ ~reporting /\ recovering
      /\ UNCHANGED <<pc, handed, recovering, reporting, totalRecoveries,
                     successfulRecoveries, failedRecoveries, errors, failures>>
  BY DEF StepSucceeds, StepFails, AgentInv, AgentTypes, BusyMeansInFlight, monitorVars, metrics
<1>2. MetricsConsistent' /\ ErrorsAreLatestFailures' /\ (recovering => totalRecoveries > 0)'
  BY <1>1 DEF AgentInv, MetricsConsistent, ErrorsAreLatestFailures
<1>3. RecoveriesAnswerEvents'
  BY <1>1 DEF AgentInv, RecoveriesAnswerEvents, Insolvencies
<1>4. CASE StepSucceeds
  BY <1>1, <1>2, <1>3, <1>4
     DEF StepSucceeds, Effect, SuccessTakesEffect, AgentInv, AgentTypes, Steps,
         BusyMeansInFlight, TransfersFunded, SuccessMeansSent
<1>5. ASSUME NEW took \in BOOLEAN, StepFails(took) PROVE AgentInv'
  BY <1>1, <1>2, <1>3, <1>5
     DEF StepFails, Effect, AfterFailure, Failure, AgentInv, AgentTypes, Steps,
         BusyMeansInFlight, TransfersFunded, SuccessMeansSent
<1> QED BY <1>4, <1>5

LEMMA RecordKeepsAgentInv ==
  ASSUME AgentInv, Record
  PROVE  AgentInv'
<1>1. /\ result # "none" /\ result \in Steps \union {"success"} /\ "success" \notin Steps
      /\ walletStep = "none" /\ recovering /\ ~reporting
      /\ UNCHANGED <<pc, handed, walletStep, totalRecoveries, traded, sent>>
      /\ result' = "none" /\ reporting' = ReportingEnabled /\ recovering' = ReportingEnabled
  BY DEF Record, AgentInv, AgentTypes, BusyMeansInFlight, Steps, monitorVars, wallet
<1>2. BusyMeansInFlight' /\ TransfersFunded' /\ (recovering => totalRecoveries > 0)'
  BY <1>1 DEF AgentInv, BusyMeansInFlight, TransfersFunded
<1>3. RecoveriesAnswerEvents'
  BY <1>1 DEF AgentInv, RecoveriesAnswerEvents, Insolvencies
<1>4. CASE result = "success"
  BY <1>1, <1>2, <1>3, <1>4
     DEF Record, AgentInv, AgentTypes, MetricsConsistent, ErrorsAreLatestFailures, SuccessMeansSent
<1>5. CASE result \in Steps
  <2>1. /\ failedRecoveries' = failedRecoveries + 1 /\ errors' = Remember(result)
        /\ failures' = Append(failures, result)
        /\ successfulRecoveries' = successfulRecoveries
    BY <1>1, <1>5 DEF Record
  <2>2. AgentTypes' /\ ErrorsAreLatestFailures'
    BY <1>1, <1>5, <2>1, RememberLatest DEF AgentInv, AgentTypes, ErrorsAreLatestFailures
  <2>3. MetricsConsistent' /\ SuccessMeansSent'
    BY <1>1, <1>5, <2>1 DEF AgentInv, AgentTypes, MetricsConsistent, SuccessMeansSent
  <2> QED BY <1>2, <1>3, <2>2, <2>3 DEF AgentInv
<1> QED BY <1>1, <1>4, <1>5

LEMMA ReportDoneKeepsAgentInv ==
  ASSUME AgentInv, ReportDone
  PROVE  AgentInv'
BY DEF ReportDone, AgentInv, AgentTypes, BusyMeansInFlight, MetricsConsistent,
       ErrorsAreLatestFailures, RecoveriesAnswerEvents, TransfersFunded, SuccessMeansSent,
       Insolvencies, monitorVars, metrics, wallet

LEMMA AgentExitKeepsAgentInv ==
  ASSUME AgentInv, NEW took \in BOOLEAN, AgentExit(took)
  PROVE  AgentInv'
<1>1. Insolvencies(handed)' = 0
  BY InsolvenciesEmpty DEF AgentExit, Exit, Insolvencies
<1>2. RecoveriesAnswerEvents'
  BY <1>1 DEF AgentExit, ForgetMetrics, RecoveriesAnswerEvents
<1>3. BusyMeansInFlight' /\ MetricsConsistent' /\ ErrorsAreLatestFailures'
  BY LatestEmpty DEF AgentExit, ForgetMetrics, BusyMeansInFlight, MetricsConsistent, ErrorsAreLatestFailures
<1>4. AgentTypes' /\ TransfersFunded' /\ SuccessMeansSent'
  <2>1. errors' \in Seq(Steps) /\ failures' \in Seq(Steps)
    BY EmptySeq DEF AgentExit, ForgetMetrics
  <2>2. traded' \in {traded, traded + 1} /\ sent' \in {sent, sent + 1}
    BY DEF AgentExit, Effect
  <2>3. AgentTypes'
    <3>1. traded' \in Nat /\ sent' \in Nat
      BY <2>2 DEF AgentInv, AgentTypes
    <3>2. /\ recovering' = FALSE /\ reporting' = FALSE /\ walletStep' = "none" /\ result' = "none"
          /\ totalRecoveries' = 0 /\ successfulRecoveries' = 0 /\ failedRecoveries' = 0
      BY DEF AgentExit, ForgetMetrics
    <3> QED BY <2>1, <3>1, <3>2 DEF AgentTypes
  <2>4. TransfersFunded' /\ SuccessMeansSent'
    BY DEF AgentExit, ForgetMetrics, Effect, AgentInv, AgentTypes, TransfersFunded, SuccessMeansSent
  <2> QED BY <2>3, <2>4
<1> QED BY <1>2, <1>3, <1>4 DEF AgentInv, AgentExit

LEMMA AgentInvStep == MonitorInv /\ AgentInv /\ [AgentNext]_allVars => AgentInv'
<1> SUFFICES ASSUME MonitorInv, AgentInv, [AgentNext]_allVars PROVE AgentInv'
  OBVIOUS
<1>1. CASE ChainNext /\ UNCHANGED <<monitorVars, agentVars>>
  BY <1>1, IdleKeepsAgentInv DEF monitorVars
<1>2. CASE MonitorStep
  BY <1>2, IdleKeepsAgentInv
     DEF MonitorStep, NewBlocks, NoNewBlocks, FetchLogs, PollFails, EndRound, Start, Wake,
         AgentInv, BusyMeansInFlight
<1>3. CASE UNCHANGED allVars
  BY <1>3, IdleKeepsAgentInv DEF allVars, vars, monitorVars
<1> QED
  BY <1>1, <1>2, <1>3, HandleEventKeepsAgentInv, WalletKeepsAgentInv, RecordKeepsAgentInv,
     ReportDoneKeepsAgentInv, AgentExitKeepsAgentInv
     DEF AgentNext, AgentStep
-----------------------------------------------------------------------------
(* How often a deficit is paid for.  A trade belongs to a recovery of the  *)
(* running process, and those answer events that were mined; every start   *)
(* of the process begins to count them anew.                               *)

TradeAhead == IF walletStep \in {"checkBalance", "trade"} THEN 1 ELSE 0

ReplayInv ==
  IF pc = "down" THEN TradesBoundedByReplays
  ELSE traded + TradeAhead
         <= restarts * Insolvencies(MinedLog) + totalRecoveries

\* A longer history does not hold fewer insolvencies.
LEMMA InsolvenciesOfPrefix ==
  ASSUME NEW s \in Seq(Event), NEW t \in Seq(Event), Len(s) <= Len(t),
         \A i \in 1..Len(s) : s[i] = t[i]
  PROVE  Insolvencies(s) \in Nat /\ Insolvencies(s) <= Insolvencies(t)
<1> DEFINE A == {i \in 1..Len(s) : ~s[i].isSolvent}
<1> DEFINE B == {i \in 1..Len(t) : ~t[i].isSolvent}
<1>1. Len(s) \in Nat /\ Len(t) \in Nat
  OBVIOUS
<1>2. A \subseteq B
  BY <1>1
<1>3. IsFiniteSet(1..Len(t)) /\ IsFiniteSet(1..Len(s))
  BY <1>1, FS_Interval
<1>4. IsFiniteSet(B) /\ IsFiniteSet(A)
  BY <1>3, FS_Subset
<1>5. Cardinality(A) \in Nat /\ Cardinality(A) <= Cardinality(B)
  BY <1>2, <1>4, FS_Subset, FS_CardinalityType
<1> QED BY <1>5 DEF Insolvencies

LEMMA MinedLogType ==
  ASSUME MonitorInv
  PROVE  /\ log \in Seq(Event) /\ EventsUpTo(BlockNumber) \in 0..Len(log)
         /\ MinedLog \in Seq(Event) /\ Len(MinedLog) = EventsUpTo(BlockNumber)
         /\ \A i \in 1..Len(MinedLog) : MinedLog[i] = log[i]
         /\ Insolvencies(MinedLog) \in Nat
<1>1. log \in Seq(Event) /\ BlockNumber \in Nat
  BY DEF MonitorInv, TypeOK, ChainTypeOK, BlockNumber
<1>2. EventsUpTo(BlockNumber) \in 0..Len(log)
  BY <1>1, EventsUpToBound DEF MonitorInv, TypeOK, ChainInv
<1>3. /\ MinedLog \in Seq(Event) /\ Len(MinedLog) = EventsUpTo(BlockNumber)
      /\ \A i \in 1..Len(MinedLog) : MinedLog[i] = log[i]
  BY <1>1, <1>2, SubSeqType DEF MinedLog
<1> QED BY <1>1, <1>2, <1>3, InsolvenciesOfPrefix

\* The insolvencies the process answered were mined.
LEMMA RecoveriesBounded ==
  ASSUME MonitorInv, AgentInv
  PROVE  totalRecoveries \in Nat /\ totalRecoveries <= Insolvencies(MinedLog)
<1>1. Len(handed) <= Len(MinedLog) /\ handed \in Seq(Event) /\ Len(handed) \in Nat
  BY MinedLogType DEF MonitorInv, TypeOK, HandedIsMinedPrefix
<1>2. \A i \in 1..Len(handed) : handed[i] = MinedLog[i]
  <2>1. Len(handed) \in 0..Len(log) /\ handed = SubSeq(log, 1, Len(handed))
    BY <1>1, MinedLogType DEF MonitorInv, HandedIsMinedPrefix
  <2>2. \A i \in 1..Len(handed) : SubSeq(log, 1, Len(handed))[i] = log[i]
    BY <2>1, MinedLogType, SubSeqType
  <2> QED BY <1>1, <2>1, <2>2, MinedLogType
<1>3. Insolvencies(handed) \in Nat /\ Insolvencies(handed) <= Insolvencies(MinedLog)
  BY <1>1, <1>2, MinedLogType, InsolvenciesOfPrefix
<1> QED BY <1>3, MinedLogType DEF AgentInv, AgentTypes, RecoveriesAnswerEvents

\* More insolvencies allow for more trades.
LEMMA ReplayInvGrows ==
  ASSUME MonitorInv, AgentInv, MonitorInv', ReplayInv, ChainNext,
         UNCHANGED <<monitorVars, agentVars>>
  PROVE  ReplayInv'
<1> DEFINE m == Insolvencies(MinedLog)
<1> DEFINE n == Insolvencies(MinedLog')
<1>1. ChainGrows
  BY ChainStep DEF MonitorInv, TypeOK, ChainInv
<1>2. m \in Nat /\ n \in Nat /\ m <= n
  <2>1. /\ MinedLog' \in Seq(Event) /\ Len(MinedLog') = EventsUpTo(BlockNumber)'
        /\ \A i \in 1..Len(MinedLog') : MinedLog'[i] = log'[i]
        /\ EventsUpTo(BlockNumber)' \in 0..Len(log')
    <3>1. /\ log' \in Seq(Event) /\ (sealed \in Seq(Nat))' /\ BlocksPartitionLog'
      BY DEF MonitorInv, TypeOK, ChainTypeOK
    <3>2. EventsUpTo(BlockNumber)' \in 0..Len(log')
      BY <3>1 DEF EventsUpTo, BlockNumber, BlocksPartitionLog
    <3> QED BY <3>1, <3>2, SubSeqType DEF MinedLog
  <2>2. /\ Len(MinedLog) <= Len(MinedLog')
        /\ \A i \in 1..Len(MinedLog) : MinedLog[i] = MinedLog'[i]
    BY <1>1, <2>1, MinedLogType DEF ChainGrows
  <2> QED BY <2>1, <2>2, MinedLogType, InsolvenciesOfPrefix
<1>3. Insolvencies(MinedLog)' = n
  BY DEF Insolvencies
<1> HIDE DEF m, n
<1>4. restarts \in Nat /\ traded \in Nat /\ totalRecoveries \in Nat
  BY DEF MonitorInv, TypeOK, AgentInv, AgentTypes
<1>5. restarts * m <= restarts * n /\ (restarts + 1) * m <= (restarts + 1) * n
  BY <1>2, <1>4
<1>6. restarts * m \in Nat /\ restarts * n \in Nat
      /\ (restarts + 1) * m \in Nat /\ (restarts + 1) * n \in Nat
  BY <1>2, <1>4
<1>7. TradeAhead \in 0..1
  BY DEF TradeAhead
<1> DEFINE K == restarts * m
<1> DEFINE L == restarts * n
<1> DEFINE M == (restarts + 1) * m
<1> DEFINE N == (restarts + 1) * n
<1>8. UNCHANGED <<pc, restarts, traded, totalRecoveries, TradeAhead>>
  BY DEF monitorVars, agentVars, metrics, wallet, TradeAhead
<1>9. CASE pc = "down"
  <2>1. traded <= M
    BY <1>9 DEF ReplayInv, TradesBoundedByReplays, m
  <2>2. traded <= N
    BY <1>4, <1>5, <1>6, <2>1
  <2> QED BY <1>3, <1>8, <1>9, <2>2 DEF ReplayInv, TradesBoundedByReplays
<1>10. CASE pc # "down"
  <2>1. traded + TradeAhead <= K + totalRecoveries
    BY <1>10 DEF ReplayInv, m
  <2> HIDE DEF K, L
  <2>2. K \in Nat /\ L \in Nat /\ K <= L
    BY <1>5, <1>6 DEF K, L
  <2>3. traded + TradeAhead <= L + totalRecoveries
    BY <1>4, <1>7, <2>1, <2>2
  <2>4. (traded + TradeAhead <= restarts * Insolvencies(MinedLog) + totalRecoveries)'
    BY <1>3, <1>8, <2>3 DEF L
  <2> QED BY <1>8, <1>10, <2>4 DEF ReplayInv
<1> QED BY <1>9, <1>10

\* The other steps leave the mined events alone.
LEMMA ReplayInvCounts ==
  ASSUME MonitorInv, AgentInv, ReplayInv, AgentStep, UNCHANGED chainVars
  PROVE  ReplayInv'
<1> DEFINE m == Insolvencies(MinedLog)
<1> DEFINE K == restarts * m
<1>1. Insolvencies(MinedLog)' = m
  BY DEF Insolvencies, MinedLog, EventsUpTo, BlockNumber, chainVars
<1>2. /\ restarts \in Nat /\ traded \in Nat /\ totalRecoveries \in Nat /\ m \in Nat
      /\ K \in Nat /\ totalRecoveries <= m /\ (restarts + 1) * m = K + m
  BY RecoveriesBounded, MinedLogType DEF MonitorInv, TypeOK, AgentInv, AgentTypes
<1>3. pc # "down" => traded + TradeAhead <= K + totalRecoveries
  BY DEF ReplayInv
<1>4. pc = "down" => traded <= K + m
  BY <1>2 DEF ReplayInv, TradesBoundedByReplays
<1>5. TradeAhead \in 0..1
  BY DEF TradeAhead
\* What is left to show, for steps within one run of the process ...
<1>6. ASSUME UNCHANGED restarts, pc' # "down",
             traded' + TradeAhead' <= K + totalRecoveries'
      PROVE  ReplayInv'
  BY <1>1, <1>6 DEF ReplayInv
\* ... and for those that leave the count of trades alone.
<1>7. ASSUME UNCHANGED <<restarts, traded, totalRecoveries, walletStep>>,
             pc # "down", pc' # "down"
      PROVE  ReplayInv'
  BY <1>3, <1>6, <1>7 DEF TradeAhead
<1> HIDE DEF m, K
<1>8. CASE HandleEvent
  <2>1. /\ UNCHANGED <<restarts, traded>> /\ pc # "down" /\ pc' # "down"
        /\ walletStep = "none"
    BY <1>8 DEF HandleEvent, OnStatus, Callback, agentVars, wallet
  <2>2. \/ UNCHANGED <<walletStep, totalRecoveries>>
        \/ totalRecoveries' = totalRecoveries + 1
    BY <1>8 DEF HandleEvent, Callback, agentVars, metrics
  <2>3. TradeAhead = 0 /\ TradeAhead' \in 0..1
    BY <2>1 DEF TradeAhead
  <2> QED BY <1>2, <1>3, <1>6, <1>7, <2>1, <2>2, <2>3
<1>9. CASE StepSucceeds \/ \E took \in BOOLEAN : StepFails(took)
  <2>1. /\ UNCHANGED <<restarts, totalRecoveries, pc>> /\ walletStep # "none"
        /\ walletStep \in Steps
    BY <1>9 DEF StepSucceeds, StepFails, monitorVars, metrics, AgentInv, AgentTypes
  <2>2. pc # "down"
    BY <2>1 DEF AgentInv, BusyMeansInFlight
  <2>3. traded' + TradeAhead' <= traded + TradeAhead
    BY <1>2, <1>9, <2>1
       DEF StepSucceeds, StepFails, Effect, AfterFailure, TradeAhead, Steps
  <2>4. traded' \in Nat /\ TradeAhead' \in 0..1
    BY <1>2, <1>9 DEF StepSucceeds, StepFails, Effect, TradeAhead
  <2>5. K \in Nat /\ totalRecoveries \in Nat /\ traded \in Nat
    BY <1>2
  <2>6. traded + TradeAhead <= K + totalRecoveries
    BY <1>3, <2>2
  <2>7. traded' \in Int /\ TradeAhead' \in Int /\ TradeAhead \in Int
    BY <1>5, <2>4
  <2>8. ASSUME NEW t \in Int, NEW u \in Int, t + u <= traded + TradeAhead
        PROVE  t + u <= K + totalRecoveries
    BY <2>5, <2>6, <2>7, <2>8
  <2>9. traded' + TradeAhead' <= K + totalRecoveries
    BY <2>3, <2>7, <2>8
  <2> QED BY <1>6, <2>1, <2>2, <2>9
<1>10. CASE Record \/ ReportDone
  <2>1. UNCHANGED <<pc, restarts, traded, totalRecoveries, walletStep>>
    BY <1>10 DEF Record, ReportDone, monitorVars, metrics, wallet
  <2> QED BY <1>1, <2>1 DEF ReplayInv, TradesBoundedByReplays, TradeAhead, m
<1>11. ASSUME NEW took \in BOOLEAN, AgentExit(took) PROVE ReplayInv'
  <2>1. UNCHANGED restarts /\ pc # "down" /\ pc' = "down"
    BY <1>11 DEF AgentExit, Exit
  <2>2. traded' <= traded + TradeAhead
    BY <1>2, <1>5, <1>11 DEF AgentExit, Effect, TradeAhead
  <2>3. traded' \in Nat
    BY <1>2, <1>11 DEF AgentExit, Effect
  <2>4. traded' <= (restarts + 1) * m
    BY <1>2, <1>3, <1>5, <2>1, <2>2, <2>3
  <2> QED BY <1>1, <2>1, <2>4 DEF ReplayInv, TradesBoundedByReplays, m
<1>12. CASE MonitorStep
  <2>1. UNCHANGED <<traded, totalRecoveries, walletStep>> /\ walletStep = "none"
    BY <1>12 DEF MonitorStep, agentVars, metrics, wallet
  <2>2. CASE Start
    <3>1. restarts' = restarts + 1 /\ pc = "down" /\ pc' # "down"
      BY <2>2 DEF Start
    <3>2. TradeAhead' = 0
      BY <2>1 DEF TradeAhead
    <3>3. traded' + TradeAhead' <= (restarts + 1) * m + totalRecoveries'
      BY <1>2, <1>4, <2>1, <3>1, <3>2
    <3> QED BY <1>1, <3>1, <3>3 DEF ReplayInv, m
  <2>3. CASE ~Start
    BY <1>7, <1>12, <2>1, <2>3
       DEF MonitorStep, NewBlocks, NoNewBlocks, FetchLogs, PollFails, EndRound, Wake
  <2> QED BY <2>2, <2>3
<1> QED BY <1>8, <1>9, <1>10, <1>11, <1>12 DEF AgentStep
-----------------------------------------------------------------------------
(* The theorems.                                                           *)

THEOREM AgentInvariant == AgentSpec => [](MonitorInv /\ AgentInv)
<1>1. AgentSpec => []MonitorInv
  BY AgentRefinesMonitor, MonitorInvariant, PTL
<1> QED BY <1>1, AgentInvInit, AgentInvStep, PTL DEF AgentSpec

\* Every variable of the chain, the monitor and the agent keeps its type.
THEOREM AgentTypeCorrect == AgentSpec => []AgentTypeOK
<1>1. MonitorInv /\ AgentInv => AgentTypeOK
  BY DEF MonitorInv, AgentInv, AgentTypeOK
<1> QED BY <1>1, AgentInvariant, PTL

\* agent/metrics.ts: the counters account for every recovery, whatever fails.
THEOREM MetricsCorrect == AgentSpec => []MetricsConsistent
<1>1. AgentInv => MetricsConsistent
  BY DEF AgentInv
<1> QED BY <1>1, AgentInvariant, PTL

\* agent/index.ts, agent/metrics.ts: the busy flag is set exactly while a
\* recovery is in flight, and the error list is cut at its old end only.
THEOREM FlagAndErrorsCorrect == AgentSpec => [](BusyMeansInFlight /\ ErrorsAreLatestFailures)
<1>1. AgentInv => BusyMeansInFlight /\ ErrorsAreLatestFailures
  BY DEF AgentInv
<1> QED BY <1>1, AgentInvariant, PTL

\* agent/index.ts: the agent acts on attested events only, and on the first.
THEOREM ActsOnEvents == AgentSpec => []RecoveriesAnswerEvents
<1>1. AgentInv => RecoveriesAnswerEvents
  BY DEF AgentInv
<1> QED BY <1>1, AgentInvariant, PTL

\* agent/recovery.ts: no transfer without its trade, across failures, timeouts
\* and deaths of the process.
THEOREM MoneyAccounted == AgentSpec => []TransfersFunded
<1>1. AgentInv => TransfersFunded
  BY DEF AgentInv
<1> QED BY <1>1, AgentInvariant, PTL

\* agent/recovery.ts, agent/wallet.ts: no success without its transfer, and a
\* dry run moves nothing.
THEOREM SuccessfulMeansPaid == AgentSpec => []SuccessMeansSent
<1>1. AgentInv => SuccessMeansSent
  BY DEF AgentInv
<1> QED BY <1>1, AgentInvariant, PTL

\* agent/monitor.ts, agent/recovery.ts: a restart replays the events from the
\* first block, and so an old deficit is paid for again, but no more than once
\* for each time the process was started.
THEOREM TradesBounded == AgentSpec => []TradesBoundedByReplays
<1>1. AgentInit => ReplayInv
  <2> SUFFICES ASSUME AgentInit PROVE ReplayInv
    OBVIOUS
  <2>1. /\ pc # "down" /\ traded = 0 /\ TradeAhead = 0 /\ restarts = 0
        /\ totalRecoveries = 0
    BY DEF AgentInit, Init, MonitorInit, TradeAhead
  <2>2. Insolvencies(MinedLog) \in Nat
    BY MonitorInvInit, MinedLogType DEF AgentInit
  <2> QED BY <2>1, <2>2 DEF ReplayInv
<1>2. /\ MonitorInv /\ AgentInv /\ (MonitorInv /\ AgentInv)' /\ ReplayInv
      /\ [AgentNext]_allVars
      => ReplayInv'
  <2> SUFFICES ASSUME MonitorInv, AgentInv, MonitorInv', ReplayInv,
                      [AgentNext]_allVars
               PROVE  ReplayInv'
    OBVIOUS
  <2>1. CASE UNCHANGED allVars
    BY <2>1 DEF allVars, vars, chainVars, monitorVars, agentVars, metrics,
                wallet, ReplayInv, TradesBoundedByReplays, TradeAhead,
                Insolvencies, MinedLog, EventsUpTo, BlockNumber
  <2> QED BY <2>1, ReplayInvGrows, ReplayInvCounts DEF AgentNext
<1>3. MonitorInv /\ AgentInv /\ ReplayInv => TradesBoundedByReplays
  <2> SUFFICES ASSUME MonitorInv, AgentInv, ReplayInv, pc # "down"
               PROVE  TradesBoundedByReplays
    BY DEF ReplayInv
  <2> DEFINE m == Insolvencies(MinedLog)
  <2>1. /\ restarts \in Nat /\ m \in Nat /\ totalRecoveries \in Nat
        /\ totalRecoveries <= m /\ traded \in Nat
    BY RecoveriesBounded, MinedLogType DEF MonitorInv, TypeOK, AgentInv, AgentTypes
  <2>2. traded + TradeAhead <= restarts * m + totalRecoveries
    BY DEF ReplayInv
  <2>3. TradeAhead \in 0..1
    BY DEF TradeAhead
  <2> HIDE DEF m
  <2>4. restarts * m \in Nat /\ (restarts + 1) * m = restarts * m + m
    BY <2>1
  <2>5. traded <= (restarts + 1) * m
    BY <2>1, <2>2, <2>3, <2>4
  <2> QED BY <2>5 DEF TradesBoundedByReplays, m
<1> QED BY <1>1, <1>2, <1>3, AgentInvariant, PTL DEF AgentSpec

(***************************************************************************)
(* The dashboard                                                           *)
(***************************************************************************)

HIDE AgentAssumption
USE DashboardAssumption

Override == {None} \cup [scenario : Scenarios, expiresAt : Nat]
Shown == Scenarios \cup {"none", "real"}
Request == [op : Scenarios \cup {"none", "status", "reset", "over"},
            at : {"new", "fetch", "timer", "done"},
            time : Nat, reserves : Shown, attestation : Shown]

PageTypes ==
  /\ clock \in 0..MaxTime
  /\ overrideReserves \in Override /\ overrideAttestation \in Override
  /\ req \in [Requests -> Request]

\* While either half is in effect the halves agree.
HalvesAgree ==
  InEffect(overrideReserves) \/ InEffect(overrideAttestation)
    => overrideReserves = overrideAttestation

\* A reply that is not out yet has no attestation, and its reserves, if they
\* are known, are the real ones: a handler that waits waits for the feed.
ReplyAgrees(q) ==
  /\ {q.reserves, q.attestation} \subseteq Scenarios
       => q.reserves = q.attestation
  /\ q.at # "done" => q.attestation = "none" /\ q.reserves \notin Scenarios

PageInv ==
  /\ PageTypes
  /\ HalvesAgree
  /\ \A r \in Requests : ReplyAgrees(req[r])
-----------------------------------------------------------------------------
(* The poller: every step of the dashboard is a step of the monitor.       *)

LEMMA DashboardStepIsMonitorStep == [DashboardNext]_boardVars => [Next]_vars
<1> SUFFICES ASSUME [DashboardNext]_boardVars PROVE [Next]_vars
  OBVIOUS
<1>1. CASE ChainNext /\ UNCHANGED <<monitorVars, dashboardVars>>
  BY <1>1 DEF Next
<1>2. CASE UNCHANGED <<vars, alerting>>
  BY <1>2
<1>3. CASE (LogEvent \/ AlertSettled \/ Poll) /\ UNCHANGED <<chainVars, pageVars>>
  <2>1. CASE LogEvent
    BY <1>3, <2>1 DEF LogEvent, Next, MonitorNext
  <2>2. CASE AlertSettled
    BY <1>3, <2>2 DEF AlertSettled, vars
  <2>3. CASE Poll
    BY <1>3, <2>3 DEF Poll, Next, MonitorNext
  <2> QED BY <1>3, <2>1, <2>2, <2>3
<1>4. CASE UNCHANGED boardVars
  BY <1>4 DEF boardVars
<1> QED BY <1>1, <1>2, <1>3, <1>4 DEF DashboardNext

\* dashboard/server.ts pollEvents: a loop that waits for an alert in the middle
\* of its dispatch still delivers events as the monitor is specified to.
THEOREM DashboardRefinesMonitor == DashboardSpec => Spec
<1>1. DashboardInit => Init
  BY DEF DashboardInit
<1> QED BY <1>1, DashboardStepIsMonitorStep, PTL DEF DashboardSpec, Spec

\* dashboard/server.ts pollEvents: the log that the page shows is a prefix of the
\* mined events, although every alert suspends the dispatch.
THEOREM DashboardDeliversEvents == DashboardSpec => StreamSpec /\ []HandedIsMinedPrefix
BY DashboardRefinesMonitor, StreamImplemented, PrefixHanded, PTL

LEMMA AlertingStep ==
  (alerting => pc = "dispatch") /\ [DashboardNext]_boardVars
    => (alerting => pc = "dispatch")'
<1> SUFFICES ASSUME alerting => pc = "dispatch", [DashboardNext]_boardVars,
                    alerting'
             PROVE  pc' = "dispatch"
  OBVIOUS
<1>1. CASE LogEvent
  BY <1>1 DEF LogEvent, OnStatus
<1>2. CASE AlertSettled
  BY <1>2 DEF AlertSettled
<1>3. CASE Poll
  BY <1>3 DEF Poll
<1>4. CASE UNCHANGED <<pc, alerting>>
  BY <1>4
<1> QED
  BY <1>1, <1>2, <1>3, <1>4
     DEF DashboardNext, boardVars, dashboardVars, vars, monitorVars
-----------------------------------------------------------------------------
(* The page.                                                               *)

LEMMA PageInvInit == DashboardInit => PageInv
<1> SUFFICES ASSUME DashboardInit PROVE PageInv
  OBVIOUS
<1>1. New \in Request /\ ReplyAgrees(New)
  BY DEF New, Stage, Request, Shown, Scenarios, ReplyAgrees
<1>2. PageTypes
  BY <1>1 DEF DashboardInit, PageTypes, Override
<1>3. HalvesAgree
  BY DEF DashboardInit, HalvesAgree
<1> QED BY <1>1, <1>2, <1>3 DEF PageInv, DashboardInit

\* What a request comes to concerns that request only.
LEMMA OneRequest ==
  ASSUME PageInv, NEW r \in Requests, NEW q \in Request, ReplyAgrees(q),
         Becomes(r, q),
         clock' \in 0..MaxTime, overrideReserves' \in Override,
         overrideAttestation' \in Override, HalvesAgree'
  PROVE  PageInv'
<1>1. req' \in [Requests -> Request]
  BY DEF PageInv, PageTypes, Becomes
<1>2. ASSUME NEW s \in Requests PROVE ReplyAgrees(req[s])'
  <2>1. req'[s] = IF s = r THEN q ELSE req[s]
    BY DEF PageInv, PageTypes, Becomes
  <2> QED BY <2>1 DEF PageInv, ReplyAgrees
<1> QED BY <1>1, <1>2 DEF PageInv, PageTypes

LEMMA RequestFacts ==
  ASSUME PageInv, NEW r \in Requests
  PROVE  /\ req[r] \in Request /\ ReplyAgrees(req[r])
         /\ clock \in Nat /\ clock \in 0..MaxTime /\ MaxTime \in Nat
         /\ overrideReserves \in Override /\ overrideAttestation \in Override
         /\ HalvesAgree
BY DEF PageInv, PageTypes

LEMMA UnexpiredType ==
  ASSUME NEW o \in Override, NEW t \in Nat
  PROVE  Unexpired(o, t) \in Override
BY DEF Unexpired, Override

LEMMA SourceType ==
  ASSUME NEW o \in Override
  PROVE  /\ Source(o) \in Shown
         /\ Source(o) \in Scenarios => o # None /\ Source(o) = o.scenario
         /\ o # None => o.scenario \in Scenarios /\ o.expiresAt \in Nat
BY DEF Source, Override, Shown, Scenarios

LEMMA ScenarioTimes ==
  ASSUME NEW s \in Scenarios
  PROVE  Expiry(s) \in Nat /\ (s \in Healing => Delay(s) \in Nat)
BY DEF Expiry, Delay, Scenarios, Healing
-----------------------------------------------------------------------------
\* A change of neither override keeps the halves in agreement as time passes.
LEMMA AgreementLasts ==
  ASSUME PageTypes, HalvesAgree, clock' \in Nat, clock <= clock',
         UNCHANGED overrides
  PROVE  HalvesAgree'
<1>1. ASSUME NEW o \in Override, InEffect(o)' PROVE o # None /\ clock <= o.expiresAt
  BY <1>1, SourceType DEF InEffect, PageTypes
<1> QED BY <1>1 DEF HalvesAgree, InEffect, overrides, PageTypes

LEMMA ShowAgrees ==
  ASSUME NEW o \in Override, Show(o)
  PROVE  /\ overrideReserves' \in Override /\ overrideAttestation' \in Override
         /\ HalvesAgree'
BY DEF Show, HalvesAgree

\* A request on its way, or one that came to its end without a status.
LEMMA StageAgrees ==
  ASSUME NEW op \in Scenarios \cup {"none", "status", "reset", "over"},
         NEW at \in {"new", "fetch", "timer", "done"}, NEW time \in Nat
  PROVE  Stage(op, at, time) \in Request /\ ReplyAgrees(Stage(op, at, time))
BY DEF Stage, Request, Shown, Scenarios, ReplyAgrees

LEMMA ScenarioKeepsPageInv ==
  ASSUME PageInv, NEW r \in Requests,
         \/ \E s \in Scenarios : StartScenario(r, s)
         \/ FeedFails(r) \/ ShowDeficit(r) \/ Recover(r) \/ Reset(r)
  PROVE  PageInv'
<1> USE RequestFacts
<1>0. Over \in Request /\ ReplyAgrees(Over)
  BY StageAgrees DEF Over
<1>1. ASSUME NEW s \in Scenarios, StartScenario(r, s) PROVE PageInv'
  <2>1. HalvesAgree'
    BY <1>1, AgreementLasts DEF StartScenario, PageInv
  <2>2. /\ Stage(s, "fetch", clock) \in Request
        /\ ReplyAgrees(Stage(s, "fetch", clock))
    BY StageAgrees
  <2> QED BY <1>1, <2>1, <2>2, OneRequest DEF StartScenario, overrides
<1>2. CASE FeedFails(r)
  <2>1. HalvesAgree'
    BY <1>2, AgreementLasts DEF FeedFails, PageInv
  <2> QED BY <1>0, <1>2, <2>1, OneRequest DEF FeedFails, overrides
<1>3. CASE ShowDeficit(r)
  <2> DEFINE op == req[r].op
             q == IF op \in Healing
                  THEN Stage(op, "timer", clock + Delay(op)) ELSE Over
  <2>1. op \in Scenarios /\ req[r].time \in Nat
    BY <1>3 DEF ShowDeficit, Request
  <2>2. Deficit(r) \in Override
    BY <2>1, ScenarioTimes DEF Deficit, Override
  <2>3. q \in Request /\ ReplyAgrees(q)
    <3>1. CASE op \in Healing
      <4>1. clock + Delay(op) \in Nat
        BY <2>1, <3>1, ScenarioTimes
      <4> QED BY <2>1, <3>1, <4>1, StageAgrees
    <3>2. CASE op \notin Healing
      BY <1>0, <3>2
    <3> QED BY <3>1, <3>2
  <2>4. Becomes(r, q) /\ Show(Deficit(r)) /\ UNCHANGED clock
    BY <1>3 DEF ShowDeficit
  <2> QED BY <2>2, <2>3, <2>4, ShowAgrees, OneRequest
<1>4. CASE Recover(r)
  <2>1. Show(None) /\ None \in Override
    BY <1>4 DEF Recover, Override
  <2> QED BY <1>0, <1>4, <2>1, ShowAgrees, OneRequest DEF Recover
<1>5. CASE Reset(r)
  <2>1. Show(None) /\ None \in Override
    BY <1>5 DEF Reset, Override
  <2>2. /\ Stage("reset", "done", 0) \in Request
        /\ ReplyAgrees(Stage("reset", "done", 0))
    BY StageAgrees
  <2> QED BY <1>5, <2>1, <2>2, ShowAgrees, OneRequest DEF Reset
<1> QED BY <1>1, <1>2, <1>3, <1>4, <1>5
-----------------------------------------------------------------------------
\* A status request that finds the reserves overridden finds the attestation
\* overridden by the same scenario, unless time ran out in between.
LEMMA AskKeepsPageInv ==
  ASSUME PageInv, NEW r \in Requests, AskStatus(r)
  PROVE  PageInv'
<1> USE RequestFacts
<1>1. overrideReserves' = Unexpired(overrideReserves, clock)
      /\ req[r].at = "new"
  BY DEF AskStatus
<1>2. overrideReserves' \in Override
  BY <1>1, UnexpiredType
<1>3. CASE /\ overrideReserves' = None
           /\ Becomes(r, Answer("fetch", "real", "none"))
           /\ UNCHANGED <<clock, overrideAttestation>>
  <2>1. /\ Answer("fetch", "real", "none") \in Request
        /\ ReplyAgrees(Answer("fetch", "real", "none"))
    BY DEF Answer, Request, ReplyAgrees, Shown, Scenarios
  <2>2. ~InEffect(overrideReserves)
    BY <1>1, <1>3, SourceType DEF Unexpired, InEffect
  <2>3. HalvesAgree'
    BY <1>3, <2>2 DEF HalvesAgree, InEffect
  <2> QED BY <1>2, <1>3, <2>1, <2>3, OneRequest
<1>4. CASE /\ overrideReserves' # None
           /\ clock' \in {clock, clock + 1} \intersect (0..MaxTime)
           /\ Reply(r, Source(overrideReserves'), clock')
  <2>1. overrideReserves' = overrideReserves /\ InEffect(overrideReserves)
    BY <1>1, <1>4, SourceType DEF Unexpired, InEffect
  <2>2. overrideAttestation = overrideReserves
    BY <2>1 DEF HalvesAgree
  <2>3. clock' \in Nat /\ clock <= clock' /\ clock' \in 0..MaxTime
    BY <1>4
  <2>4. overrideAttestation' = Unexpired(overrideAttestation, clock')
    BY <1>4 DEF Reply
  <2>5. overrideAttestation' \in Override
    BY <2>3, <2>4, UnexpiredType
  <2>6. overrideAttestation' \in {None, overrideReserves'}
    BY <2>1, <2>2, <2>4 DEF Unexpired
  <2>7. HalvesAgree'
    <3>1. CASE overrideAttestation' = overrideReserves'
      BY <3>1 DEF HalvesAgree
    <3>2. CASE overrideAttestation' = None
      <4>1. clock' > overrideReserves'.expiresAt
        BY <1>4, <2>1, <2>2, <2>4, <3>2 DEF Unexpired
      <4>2. overrideReserves'.expiresAt \in Nat
        BY <1>2, <1>4, SourceType
      <4> QED BY <2>3, <3>2, <4>1, <4>2 DEF HalvesAgree, InEffect
    <3> QED BY <2>6, <3>1, <3>2
  <2> DEFINE q == Answer("done", Source(overrideReserves'),
                         Source(overrideAttestation'))
  <2>8. q \in Request /\ ReplyAgrees(q)
    <3>1. /\ Source(overrideReserves') \in Shown
          /\ Source(overrideAttestation') \in Shown
          /\ Source(overrideAttestation') \in Scenarios
               => Source(overrideAttestation') = Source(overrideReserves')
      BY <1>2, <2>5, <2>6, SourceType
    <3> QED BY <3>1 DEF Answer, Request, ReplyAgrees
  <2>9. Becomes(r, q)
    BY <1>4 DEF Reply
  <2> QED BY <1>2, <2>3, <2>5, <2>7, <2>8, <2>9, OneRequest
<1> QED BY <1>3, <1>4 DEF AskStatus

LEMMA FinishKeepsPageInv ==
  ASSUME PageInv, NEW r \in Requests, FinishStatus(r)
  PROVE  PageInv'
<1> USE RequestFacts
<1>1. /\ req[r].at = "fetch" /\ UNCHANGED <<clock, overrideReserves>>
      /\ overrideAttestation' = Unexpired(overrideAttestation, clock)
  BY DEF FinishStatus, Reply
<1>2. overrideAttestation' \in Override
  BY <1>1, UnexpiredType
<1>3. HalvesAgree'
  <2>1. CASE overrideAttestation' = overrideAttestation
    BY <1>1, <2>1 DEF HalvesAgree, InEffect
  <2>2. CASE overrideAttestation' # overrideAttestation
    <3>1. overrideAttestation' = None /\ ~InEffect(overrideAttestation)
      BY <1>1, <2>2, SourceType DEF Unexpired, InEffect
    <3> QED BY <1>1, <3>1 DEF HalvesAgree, InEffect
  <2> QED BY <2>1, <2>2
<1> DEFINE q == Answer("done", req[r].reserves, Source(overrideAttestation'))
<1>4. q \in Request /\ ReplyAgrees(q)
  <2>1. req[r].reserves \in Shown /\ req[r].reserves \notin Scenarios
    BY <1>1 DEF Request, ReplyAgrees
  <2>2. Source(overrideAttestation') \in Shown
    BY <1>2, SourceType
  <2> QED BY <2>1, <2>2 DEF Answer, Request, ReplyAgrees
<1>5. Becomes(r, q)
  BY DEF FinishStatus, Reply
<1> QED BY <1>1, <1>2, <1>3, <1>4, <1>5, OneRequest

LEMMA PageInvStep == PageInv /\ [DashboardNext]_boardVars => PageInv'
<1> SUFFICES ASSUME PageInv, [DashboardNext]_boardVars PROVE PageInv'
  OBVIOUS
<1>1. ASSUME NEW r \in Requests, PageStep(r) PROVE PageInv'
  BY <1>1, ScenarioKeepsPageInv, AskKeepsPageInv, FinishKeepsPageInv
     DEF PageStep
<1>2. CASE PassTime
  <2>1. clock' \in 0..MaxTime /\ clock' \in Nat /\ clock <= clock'
    BY <1>2 DEF PassTime, PageInv, PageTypes
  <2>2. HalvesAgree'
    BY <1>2, <2>1, AgreementLasts DEF PassTime, PageInv
  <2>3. PageTypes'
    BY <1>2, <2>1 DEF PassTime, PageInv, PageTypes, overrides
  <2> QED BY <1>2, <2>2, <2>3 DEF PassTime, PageInv, ReplyAgrees
<1>3. CASE UNCHANGED pageVars
  BY <1>3 DEF PageInv, PageTypes, HalvesAgree, InEffect, ReplyAgrees, pageVars,
              overrides
<1> QED
  BY <1>1, <1>2, <1>3 DEF DashboardNext, boardVars, dashboardVars

LEMMA PageInvariant == DashboardSpec => [](PageInv /\ (alerting => pc = "dispatch"))
<1>1. DashboardInit => PageInv /\ (alerting => pc = "dispatch")
  BY PageInvInit DEF DashboardInit
<1> QED BY <1>1, PageInvStep, AlertingStep, PTL DEF DashboardSpec

\* dashboard/server.ts: the variables of the page and of the poller keep their
\* types.
THEOREM DashboardTypeCorrect == DashboardSpec => []DashboardTypeOK
<1>1. PageInv /\ (alerting => pc = "dispatch") /\ TypeOK => DashboardTypeOK
  BY DEF PageInv, PageTypes, DashboardTypeOK, Override, Request, Shown
<1> QED BY <1>1, PageInvariant, DashboardRefinesMonitor, TypeCorrect, PTL

\* dashboard/server.ts: however requests, timers and expiries overlap, the page
\* never mixes two scenarios.
THEOREM ScenariosKeptApart == DashboardSpec => []ScenariosNotMixed
<1>1. PageInv => ScenariosNotMixed
  BY DEF PageInv, HalvesAgree, ReplyAgrees, ScenariosNotMixed
<1> QED BY <1>1, PageInvariant, PTL
==============================================================================
