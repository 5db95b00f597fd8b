------------------------------ MODULE Dashboard ------------------------------
(***************************************************************************)
(* dashboard/server.ts: the status the web page shows, the demo scenarios  *)
(* that override it for a while, and the background poller of contract     *)
(* events.  All run on one event loop: a handler is interrupted only where *)
(* it awaits.  The poller is the loop of agent/monitor.ts except that it   *)
(* awaits an alert in the middle of its dispatch; `handed` are the events  *)
(* it has put into the log.  The scenarios' own entries in the log, the    *)
(* counters and histories that the page plots, and the exports are left    *)
(* out, and so is the death of the process, which loses all of this; the   *)
(* numbers of the feed are opaque.                                         *)
(***************************************************************************)
EXTENDS ReserveMonitor, TLC

CONSTANTS Requests,       \* HTTP requests, each made once
          SmallDelay, LargeDelay,   \* until a scenario recovers (3 s, 4 s)
          SmallExpiry, LargeExpiry, FailureExpiry,  \* 10 s, 12 s, 600 s
          MaxTime         \* bound: time that passes

Scenarios == {"small", "large", "failure"}
Healing == {"small", "large"}
None == [scenario |-> "none", expiresAt |-> 0]
Delay(s) == IF s = "small" THEN SmallDelay ELSE LargeDelay
Expiry(s) == IF s = "small" THEN SmallExpiry
             ELSE IF s = "large" THEN LargeExpiry ELSE FailureExpiry

ASSUME DashboardAssumption ==
  /\ {SmallDelay, LargeDelay, SmallExpiry, LargeExpiry, FailureExpiry, MaxTime}
       \subseteq Nat \ {0}
  /\ \A s \in Healing : Delay(s) < Expiry(s)

VARIABLES clock,               \* Date.now()
          overrideReserves, overrideAttestation,
          req,                 \* what each request has come to
          alerting             \* the poller awaits sendAlert

overrides == <<overrideReserves, overrideAttestation>>
pageVars == <<clock, overrides, req>>
dashboardVars == <<pageVars, alerting>>
boardVars == <<vars, dashboardVars>>

Stage(op, at, time) == [op |-> op, at |-> at, time |-> time,
                        reserves |-> "none", attestation |-> "none"]
New == Stage("none", "new", 0)
Over == Stage("over", "done", 0)
Answer(at, reserves, attestation) ==
  [op |-> "status", at |-> at, time |-> 0,
   reserves |-> reserves, attestation |-> attestation]

Becomes(r, q) == req' = [req EXCEPT ![r] = q]

DashboardInit ==
  /\ Init
  /\ clock = 0
  /\ overrideReserves = None /\ overrideAttestation = None
  /\ req = [r \in Requests |-> New]
  /\ alerting = FALSE
------------------------------------------------------------------------------
(* The scenarios: /api/simulate, /api/simulate-large, /api/simulate-failure *)

\* The time is taken before the feed is read, and the feed may be slow.
StartScenario(r, s) ==
  /\ req[r].at = "new"
  /\ Becomes(r, Stage(s, "fetch", clock))
  /\ UNCHANGED <<clock, overrides>>

\* The feed cannot be read: 500, and nothing is overridden.
FeedFails(r) ==
  /\ req[r].at = "fetch" /\ req[r].op \in Scenarios
  /\ Becomes(r, Over)
  /\ UNCHANGED <<clock, overrides>>

Deficit(r) ==
  [scenario |-> req[r].op, expiresAt |-> req[r].time + Expiry(req[r].op)]

Show(o) == overrideReserves' = o /\ overrideAttestation' = o

\* Both halves are overridden in one turn; a scenario that heals sets a timer.
ShowDeficit(r) ==
  /\ req[r].at = "fetch" /\ req[r].op \in Scenarios
  /\ Show(Deficit(r))
  /\ Becomes(r, IF req[r].op \in Healing
                  THEN Stage(req[r].op, "timer", clock + Delay(req[r].op))
                  ELSE Over)
  /\ UNCHANGED clock

\* The timer clears whatever override is there by now, its own or not.
Recover(r) ==
  /\ req[r].at = "timer" /\ clock >= req[r].time
  /\ Show(None)
  /\ Becomes(r, Over)
  /\ UNCHANGED clock

\* POST /api/reset
Reset(r) ==
  /\ req[r].at = "new"
  /\ Show(None)
  /\ Becomes(r, Stage("reset", "done", 0))
  /\ UNCHANGED clock
------------------------------------------------------------------------------
(* GET /api/status *)

Unexpired(o, t) == IF t > o.expiresAt THEN None ELSE o

\* What the override says, or what the feed and the contract do.
Source(o) == IF o = None THEN "real" ELSE o.scenario

\* The second half of the handler: the attestation is looked at, and the reply
\* put together, in the turn in which the reserves became known.
Reply(r, reserves, t) ==
  /\ overrideAttestation' = Unexpired(overrideAttestation, t)
  /\ Becomes(r, Answer("done", reserves, Source(overrideAttestation')))

\* Mutant of AskStatus: the handler awaits between its two halves.
AskThenWait(r) ==
  /\ req[r].at = "new"
  /\ overrideReserves' = Unexpired(overrideReserves, clock)
  /\ Becomes(r, Answer("fetch", Source(overrideReserves'), "none"))
  /\ UNCHANGED <<clock, overrideAttestation>>

\* An override in effect is answered in one turn, within which the clock may
\* move on; otherwise the feed is read first.
AskStatus(r) ==
  /\ req[r].at = "new"
  /\ overrideReserves' = Unexpired(overrideReserves, clock)
  /\ \/ /\ overrideReserves' = None
        /\ Becomes(r, Answer("fetch", "real", "none"))
        /\ UNCHANGED <<clock, overrideAttestation>>
     \/ /\ overrideReserves' # None
        /\ clock' \in {clock, clock + 1} \intersect (0..MaxTime)
        /\ Reply(r, Source(overrideReserves'), clock')

\* The feed answered, or failed and the mock API took its place.
FinishStatus(r) ==
  /\ req[r].at = "fetch" /\ req[r].op = "status"
  /\ Reply(r, req[r].reserves, clock)
  /\ UNCHANGED <<clock, overrideReserves>>

PassTime ==
  /\ clock < MaxTime
  /\ clock' = clock + 1
  /\ UNCHANGED <<overrides, req>>
------------------------------------------------------------------------------
(* pollEvents *)

\* An event enters the log; for an insolvency the loop waits for the alert.
LogEvent ==
  /\ ~alerting
  /\ OnStatus
  /\ alerting' = ~Head(logs).isSolvent

\* Mutant of AlertSettled: a channel that fails makes sendAlert reject, and the
\* round is abandoned.
AlertRejects ==
  /\ alerting
  /\ alerting' = FALSE
  /\ pc' = "sleep" /\ logs' = <<>>
  /\ UNCHANGED <<lastBlock, currentBlock, handed, restarts>>

\* sendAlert waits for all channels and never rejects.
AlertSettled == alerting /\ alerting' = FALSE /\ UNCHANGED monitorVars

\* Mutant of Poll: the alert is not awaited.
PollUnawaited ==
  /\ UNCHANGED alerting
  /\ \/ \E head \in Heads : NewBlocks(head) \/ NoNewBlocks(head)
     \/ FetchLogs \/ PollFails \/ EndRound \/ Wake

\* The rest of the loop, as in agent/monitor.ts.
Poll ==
  /\ ~alerting /\ UNCHANGED alerting
  /\ \/ \E head \in Heads : NewBlocks(head) \/ NoNewBlocks(head)
     \/ FetchLogs \/ PollFails \/ EndRound \/ Wake
------------------------------------------------------------------------------
PageStep(r) ==
  \/ \E s \in Scenarios : StartScenario(r, s)
  \/ FeedFails(r) \/ ShowDeficit(r) \/ Recover(r)
  \/ Reset(r) \/ AskStatus(r) \/ FinishStatus(r)

DashboardNext ==
  \/ ChainNext /\ UNCHANGED <<monitorVars, dashboardVars>>
  \/ (PassTime \/ \E r \in Requests : PageStep(r)) /\ UNCHANGED <<vars, alerting>>
  \/ (LogEvent \/ AlertSettled \/ Poll) /\ UNCHANGED <<chainVars, pageVars>>

DashboardSpec == DashboardInit /\ [][DashboardNext]_boardVars

RequestSymmetry == Permutations(Requests)
------------------------------------------------------------------------------
DashboardTypeOK ==
  /\ TypeOK
  /\ clock \in 0..MaxTime
  /\ {overrideReserves, overrideAttestation}
       \subseteq {None} \cup [scenario : Scenarios, expiresAt : Nat]
  /\ \A r \in Requests :
       /\ req[r].op \in Scenarios \cup {"none", "status", "reset", "over"}
       /\ req[r].at \in {"new", "fetch", "timer", "done"}
       /\ {req[r].reserves, req[r].attestation}
            \subseteq Scenarios \cup {"none", "real"}
  /\ alerting => pc = "dispatch"

InEffect(o) == o # None /\ clock <= o.expiresAt

\* The page never mixes two scenarios, however requests, timers and expiries
\* overlap: while an override is in effect both halves are of one scenario, and
\* no reply shows the reserves of one with the attestation of another.
ScenariosNotMixed ==
  /\ InEffect(overrideReserves) \/ InEffect(overrideAttestation)
       => overrideReserves = overrideAttestation
  /\ \A r \in Requests :
       {req[r].reserves, req[r].attestation} \subseteq Scenarios
         => req[r].reserves = req[r].attestation

\* "Persist until manually reset" (server.ts:756): the deficit of the failure
\* scenario is taken off the page by a reset only, or by a newer scenario.
FailurePersists ==
  [][overrideReserves.scenario = "failure" /\ overrideReserves' = None
       => \E r \in Requests : req[r].op = "none" /\ req'[r].op = "reset"]_boardVars
==============================================================================
