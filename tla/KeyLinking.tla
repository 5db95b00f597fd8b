------------------------------ MODULE KeyLinking ------------------------------
(***************************************************************************)
(* Linking an owner key to an account of the CRE service: the commands     *)
(* `cre account link-key` and `cre account unlink-key`, and the phase of   *)
(* `cre workflow deploy` that verifies the ownership and links the key     *)
(* when it has to.  The link is a record of the registry contract; the     *)
(* service learns of it some blocks later and only then calls it verified. *)
(* Several accounts may hold the same key.                                 *)
(***************************************************************************)
EXTENDS TxClient

CONSTANTS Accounts, NoAccount,
          Procs,             \* processes running a command
          Type,              \* transaction type the commands are run with
          SkipConfirmation,  \* --yes
          Validity,          \* clock units a proof of the service is valid
          MaxAttempts,       \* waitForBackendLinkProcessing's maxAttempts (5)
          MaxClock,          \* bound: clock units
          MaxLinks,          \* bound: transactions that land
          MaxCommands        \* bound: commands started

KeyLinkingAssumption ==
  /\ Type \in TxTypes /\ SkipConfirmation \in BOOLEAN
  /\ NoAccount \notin Accounts
  /\ MaxAttempts \in Nat \ {0}
  /\ {Validity, MaxClock, MaxLinks, MaxCommands} \subseteq Nat

\* The owner type follows from the flags: a multisig signs what is not sent.
Msig == Type # "regular"

VARIABLES linkedTo,  \* contract: the account the key is linked to
          verified,  \* service: the account it has verified
          clock,
          links,     \* transactions landed
          last,      \* history: the transaction that landed last
          everLinked,\* history: accounts the key was ever linked to
          late,      \* sent, and given up on by their command
          prepared,  \* handed out for the multisig
          cli,       \* what each process is doing
          started    \* commands started

chainVars == <<linkedTo, links, last, everLinked>>
outVars == <<late, prepared>>
vars == <<chainVars, verified, clock, outVars, cli, started>>
-----------------------------------------------------------------------------
(* The contract, the service and time. *)

Linked == linkedTo # NoAccount

Accepts(tx) == clock <= tx.until /\ (tx.op = "link") = ~Linked

Land(tx) ==
  /\ links < MaxLinks
  /\ links' = links + 1
  /\ linkedTo' = IF tx.op = "link" THEN tx.account ELSE NoAccount
  /\ everLinked' = everLinked \cup ({linkedTo'} \ {NoAccount})
  /\ last' = tx

\* The service catches up with the contract.
BackendSync ==
  /\ verified # linkedTo
  /\ verified' = linkedTo
  /\ UNCHANGED <<chainVars, clock, outVars, cli, started>>

Tick ==
  /\ clock < MaxClock
  /\ clock' = clock + 1
  /\ UNCHANGED <<chainVars, verified, outVars, cli, started>>

\* A transaction nobody waits for is mined or dropped.
MineLate ==
  /\ \E tx \in late :
       /\ late' = late \ {tx}
       /\ (Accepts(tx) /\ Land(tx)) \/ UNCHANGED chainVars
  /\ UNCHANGED <<prepared, verified, clock, cli, started>>

\* The multisig sends what was prepared.
SubmitPrepared ==
  /\ \E tx \in prepared :
       /\ prepared' = prepared \ {tx}
       /\ IF Accepts(tx) THEN Land(tx) ELSE UNCHANGED chainVars
  /\ UNCHANGED <<late, verified, clock, cli, started>>
-----------------------------------------------------------------------------
(* The processes. *)

Idle == [op |-> "none", phase |-> "idle", result |-> "none",
         account |-> NoAccount, agreed |-> FALSE, until |-> 0, left |-> 0,
         checked |-> <<0, 0>>]

At(p, phase) == cli[p].phase = phase
Goto(p, phase) == cli' = [cli EXCEPT ![p].phase = phase]
Finish(p, result) ==
  cli' = [cli EXCEPT ![p].phase = "done", ![p].result = result]
LocalStep == UNCHANGED <<chainVars, verified, clock, outVars, started>>

Start(p, op, phase, a) ==
  /\ cli[p].phase \in {"idle", "done"}
  /\ started < MaxCommands
  /\ started' = started + 1
  /\ cli' = [cli EXCEPT ![p] = [Idle EXCEPT !.op = op, !.phase = phase,
                                             !.account = a]]
  /\ UNCHANGED <<chainVars, verified, clock, outVars>>

StartLink(p, a) == Start(p, "link", "label", a)
StartUnlink(p, a) == Start(p, "unlink", "connect", a)
StartDeploy(p, a) == Start(p, "deploy", "connect", a)

\* The registry client is built, and for a link the label is asked for.
Connect(p) ==
  /\ cli[p].phase \in {"connect", "label"}
  /\ \/ Finish(p, "error")
     \/ Goto(p, IF At(p, "label") THEN "linkCheck"
                ELSE IF cli[p].op = "deploy" THEN "ownership"
                ELSE "unlinkCheck")
  /\ LocalStep

\* Reads of the registry and calls of the service may fail.
CallFails(p) ==
  /\ cli[p].phase \in {"ownership", "askBackend", "linkCheck", "unlinkCheck",
                       "initiate"}
  /\ Finish(p, "error")
  /\ LocalStep

\* ensureOwnerLinkedOrFail and autoLinkMSIGAndExit: a key that is linked has
\* to be verified for this account, any other is linked now (tryAutoLink).
Ownership(p) ==
  /\ At(p, "ownership")
  /\ Goto(p, IF Linked THEN "askBackend" ELSE "label")
  /\ LocalStep

\* checkLinkStatusViaGraphQL
VerifiedFor(a) == verified = a

AskBackend(p) ==
  /\ At(p, "askBackend")
  /\ Finish(p, IF VerifiedFor(cli[p].account) THEN "passed" ELSE "otherAccount")
  /\ LocalStep

\* Mutant of AfterLink: the deploy goes on without waiting for the service.
NoWait(p) == Finish(p, IF cli[p].op = "deploy" THEN "passed" ELSE "ok")

\* linkkey.Exec and unlinkOwner return without an error.  A deploy for a
\* multisig stops, any other deploy waits for the service.
AfterLink(p) ==
  IF cli[p].op # "deploy" THEN Finish(p, "ok")
  ELSE IF Msig THEN Finish(p, "halted")
  ELSE cli' = [cli EXCEPT ![p].phase = "wait", ![p].left = MaxAttempts]

\* checkIfAlreadyLinked, link-key: whose link it is does not matter.
LinkCheck(p) ==
  /\ At(p, "linkCheck")
  /\ IF Linked THEN AfterLink(p) ELSE Goto(p, "initiate")
  /\ LocalStep

UnlinkCheck(p) ==
  /\ At(p, "unlinkCheck")
  /\ IF ~Linked THEN Finish(p, "nothing")
     ELSE Goto(p, IF SkipConfirmation THEN "initiate" ELSE "confirm")
  /\ LocalStep

\* An unlink wipes the workflows of the owner, so the user has to agree.
Confirm(p) ==
  /\ At(p, "confirm")
  /\ \/ cli' = [cli EXCEPT ![p].phase = "initiate", ![p].agreed = TRUE]
     \/ Finish(p, "error")
  /\ LocalStep

\* callInitiateLinking and callInitiateUnlinking: the service signs a proof
\* with an expiry, an unlink only for the account that holds the key.  The
\* answer has to name the contract of the settings.
Initiate(p) ==
  /\ At(p, "initiate")
  /\ cli[p].op = "unlink" => linkedTo = cli[p].account
  /\ cli' = [cli EXCEPT ![p].phase = "verify", ![p].until = clock + Validity]
  /\ LocalStep

Tx(p) == [op |-> IF cli[p].op = "unlink" THEN "unlink" ELSE "link",
          account |-> cli[p].account, until |-> cli[p].until,
          agreed |-> cli[p].agreed \/ SkipConfirmation]

\* Mutant of ProofHolds: the expiry of the proof is all that is checked.
NotExpired(p) == clock <= cli[p].until

\* The expiry check, then CanLinkOwner or CanUnlinkOwner.
ProofHolds(p) == clock <= cli[p].until /\ Accepts(Tx(p))

VerifyProof(p) ==
  /\ At(p, "verify")
  /\ IF ProofHolds(p)
     THEN cli' = [cli EXCEPT ![p].phase = "submit",
                             ![p].checked = <<links, clock>>]
     ELSE Finish(p, "error")
  /\ LocalStep

\* LinkOwner and UnlinkOwner, and the switch on the type of the result; a
\* changeset may still fail to be written.
Submit(p) ==
  /\ At(p, "submit")
  /\ \E r \in TxResults(Type, SkipConfirmation, Accepts(Tx(p)), TRUE) :
       /\ IF Landed(r) THEN Land(Tx(p)) ELSE UNCHANGED chainVars
       /\ late' = IF r = "timedOut" THEN late \cup {Tx(p)} ELSE late
       /\ IF Succeeded(r)
          THEN \/ /\ prepared' = prepared \cup
                                   IF r = "prepared" THEN {Tx(p)} ELSE {}
                  /\ AfterLink(p)
               \/ r = "prepared" /\ Finish(p, "error") /\ UNCHANGED prepared
          ELSE Finish(p, "error") /\ UNCHANGED prepared
  /\ UNCHANGED <<verified, clock, started>>

\* retry.Do: the last attempt ends the deploy.
Another(p) ==
  IF cli[p].left = 1 THEN Finish(p, "error")
  ELSE cli' = [cli EXCEPT ![p].left = @ - 1]

\* waitForBackendLinkProcessing: a query that fails counts as an attempt.
Poll(p) ==
  /\ At(p, "wait")
  /\ \/ VerifiedFor(cli[p].account) /\ Finish(p, "passed")
     \/ Another(p)
  /\ LocalStep

Init ==
  /\ linkedTo = NoAccount /\ verified = NoAccount
  /\ clock = 0 /\ links = 0 /\ last = [op |-> "none"] /\ everLinked = {}
  /\ late = {} /\ prepared = {}
  /\ cli = [p \in Procs |-> Idle]
  /\ started = 0

Step(p) ==
  \/ Connect(p) \/ CallFails(p) \/ Ownership(p) \/ AskBackend(p)
  \/ LinkCheck(p) \/ UnlinkCheck(p) \/ Confirm(p) \/ Initiate(p)
  \/ VerifyProof(p) \/ Submit(p) \/ Poll(p)

Next ==
  \/ \E p \in Procs, a \in Accounts :
       StartLink(p, a) \/ StartUnlink(p, a) \/ StartDeploy(p, a)
  \/ \E p \in Procs : Step(p)
  \/ BackendSync \/ Tick \/ MineLate \/ SubmitPrepared

\* Every call of a command returns: the service and the node have timeouts,
\* and the user answers.
Spec == Init /\ [][Next]_vars /\ \A p \in Procs : WF_vars(Step(p))
-----------------------------------------------------------------------------
Phases == {"idle", "connect", "label", "ownership", "askBackend", "linkCheck",
           "unlinkCheck", "confirm", "initiate", "verify", "submit", "wait",
           "done"}
Results == {"none", "ok", "nothing", "halted", "passed", "otherAccount",
            "error"}

Command ==
  [op: {"none", "link", "unlink", "deploy"}, phase: Phases, result: Results,
   account: Accounts \cup {NoAccount}, agreed: BOOLEAN,
   until: 0..(MaxClock + Validity), left: 0..MaxAttempts,
   checked: (0..MaxLinks) \X (0..MaxClock)]

Transaction ==
  [op: {"link", "unlink"}, account: Accounts, until: 0..(MaxClock + Validity),
   agreed: BOOLEAN]

TypeOK ==
  /\ {linkedTo, verified} \subseteq Accounts \cup {NoAccount}
  /\ clock \in 0..MaxClock /\ links \in 0..MaxLinks
  /\ everLinked \subseteq Accounts
  /\ started \in 0..MaxCommands
  /\ late \cup prepared \subseteq Transaction
  /\ cli \in [Procs -> Command]

\* A deploy gets past the ownership phase only for an account the key has been
\* linked to on the chain: a link by another account between the two checks of
\* an auto-link does not count as one's own (autoLink.go:49, link_key.go:181).
PassedWasLinked ==
  \A p \in Procs : cli[p].result = "passed" => cli[p].account \in everLinked

\* A key is unlinked, and the owner's workflows wiped, only by a transaction
\* whose user agreed to it or passed --yes, however late it is mined
\* (unlink_key.go:162).
UnlinkWasAgreed == Linked /\ linkedTo' = NoAccount => last'.agreed

\* A transaction that was checked is accepted, unless the clock moved or
\* another transaction landed after the check (link_key.go:292).
CheckedIsAccepted ==
  \A p \in Procs :
    At(p, "submit") /\ cli[p].checked = <<links, clock>> => Accepts(Tx(p))
===============================================================================
