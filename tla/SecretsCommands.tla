--------------------------- MODULE SecretsCommands ---------------------------
(***************************************************************************)
(* The commands `cre secrets create / update / delete / list / execute`.   *)
(* A request for the vault is built and its digest is put on the allowlist *)
(* of the registry contract with a deadline; then the exact request is     *)
(* posted to the gateway, again and again while the gateway has not seen   *)
(* the allowlisting yet.  For a multisig the request is saved in a bundle  *)
(* file and posted by `secrets execute` once the prepared transaction has  *)
(* been sent.  The digest covers the request with its fresh id, so the id  *)
(* stands for both here.                                                   *)
(***************************************************************************)
EXTENDS TxClient, FiniteSets

CONSTANTS Procs,             \* processes running a command
          Keys,              \* names of secrets
          Type,              \* transaction type the commands are run with
          SkipConfirmation,  \* --yes
          Timeouts,          \* values of --timeout the commands are given
          MaxDuration,       \* MaxVaultAllowlistDuration (7 days)
          MaxItems,          \* MaxSecretItemsPerPayload (10)
          Attempts,          \* attempts of HTTPClient.Post (5)
          MaxClock,          \* bound: clock units
          MaxCommands        \* bound: commands started, one request each

SecretsCommandsAssumption ==
  /\ Type \in TxTypes /\ SkipConfirmation \in BOOLEAN
  /\ Timeouts \subseteq Nat
  /\ {MaxDuration, MaxItems, MaxClock, MaxCommands} \subseteq Nat
  /\ Attempts \in Nat \ {0}

VARIABLES clock,
          allow,     \* contract: request -> deadline, 0 when not allowlisted
          seen,      \* gateway: requests whose allowlisting it knows of
          vault,     \* key -> the request that wrote its value, or 0
          executed,  \* history: requests the vault has executed
          requests,  \* request -> what it asks for
          bundles,   \* requests saved in bundle files
          late,      \* allowlist transactions given up on
          prepared,  \* allowlist transactions handed out for the multisig
          cli        \* what each process is doing

vaultVars == <<vault, executed>>
vars == <<clock, allow, seen, vaultVars, requests, bundles, late, prepared, cli>>

Ids == 1..MaxCommands
Ops == {"create", "update", "delete", "list"}
RequestOf(p) == cli[p].id
-----------------------------------------------------------------------------
(* The chain, the gateway and the vault behind it. *)

Allowlisted(id) == clock < allow[id]

Accepts(tx) == clock < tx.until

Land(tx) == allow' = [allow EXCEPT ![tx.id] = tx.until]

Tick ==
  /\ clock < MaxClock
  /\ clock' = clock + 1
  /\ UNCHANGED <<allow, seen, vaultVars, requests, bundles, late, prepared, cli>>

GatewaySync ==
  /\ \E id \in Ids \ seen : allow[id] > 0 /\ seen' = seen \cup {id}
  /\ UNCHANGED <<clock, allow, vaultVars, requests, bundles, late, prepared, cli>>

MineLate ==
  /\ \E tx \in late :
       /\ late' = late \ {tx}
       /\ (Accepts(tx) /\ Land(tx)) \/ UNCHANGED allow
  /\ UNCHANGED <<clock, seen, vaultVars, requests, bundles, prepared, cli>>

SubmitPrepared ==
  /\ \E tx \in prepared :
       /\ prepared' = prepared \ {tx}
       /\ IF Accepts(tx) THEN Land(tx) ELSE UNCHANGED allow
  /\ UNCHANGED <<clock, seen, vaultVars, requests, bundles, late, cli>>

\* The vault answers per secret: creating one that exists fails, and so does
\* changing or deleting one that does not.
Execute(id) ==
  LET r == requests[id]
      Touched(k) == k \in r.keys /\ (vault[k] = 0) = (r.op = "create")
  IN /\ vault' = [k \in Keys |-> IF r.op = "list" \/ ~Touched(k) THEN vault[k]
                                 ELSE IF r.op = "delete" THEN 0 ELSE id]
     /\ executed' = executed \cup {id}

GatewayAccepts(id) == id \in seen /\ Allowlisted(id)
-----------------------------------------------------------------------------
(* The processes. *)

NoRequest == [op |-> "none", keys |-> {}]
Idle == [phase |-> "idle", id |-> 0, timeout |-> 0, left |-> 0,
         execute |-> FALSE, result |-> "none"]

At(p, phase) == cli[p].phase = phase
Goto(p, phase) == cli' = [cli EXCEPT ![p].phase = phase]
Finish(p, result) ==
  cli' = [cli EXCEPT ![p].phase = "done", ![p].result = result]
LocalStep == UNCHANGED <<clock, allow, seen, vaultVars, requests, bundles, late,
                         prepared>>

Unused == {id \in Ids : requests[id] = NoRequest}
NextId == CHOOSE id \in Unused : TRUE
Free(p) == cli[p].phase \in {"idle", "done"}

\* The --timeout and the file of names are checked: ResolveInputs and
\* ResolveDeleteInputs end with an error at the first name beyond MaxItems.
ValidTimeout(t) == t > 0 /\ t <= MaxDuration
ValidKeys(op, keys) == op = "list" \/ (keys # {} /\ Cardinality(keys) <= MaxItems)

Start(p, op, keys, t) ==
  /\ Free(p) /\ Unused # {}
  /\ requests' = [requests EXCEPT ![NextId] = [op |-> op, keys |-> keys]]
  /\ cli' = [cli EXCEPT ![p] =
       [Idle EXCEPT !.id = NextId, !.timeout = t,
          !.phase = IF ValidTimeout(t) /\ ValidKeys(op, keys)
                    THEN "connect" ELSE "done",
          !.result = IF ValidTimeout(t) /\ ValidKeys(op, keys)
                     THEN "none" ELSE "error"]]
  /\ UNCHANGED <<clock, allow, seen, vaultVars, bundles, late, prepared>>

\* `secrets execute` is for a multisig and needs the bundle file.
StartExecute(p) ==
  /\ Free(p) /\ Type # "regular"
  /\ \E id \in bundles :
       cli' = [cli EXCEPT ![p] = [Idle EXCEPT !.id = id, !.phase = "check",
                                              !.execute = TRUE]]
  /\ LocalStep

\* EnsureOwnerLinkedOrFail: the key is not linked to the account, or the
\* service does not tell.
NotLinked(p) == At(p, "connect") /\ Finish(p, "error") /\ LocalStep

\* For a create or an update the secrets are encrypted for the vault.
Connect(p) ==
  /\ At(p, "connect")
  /\ Finish(p, "error") \/ Goto(p, "check")
  /\ LocalStep

\* What is allowlisted already is posted; anything else has to be allowlisted
\* first, which `secrets execute` leaves to the multisig.
AfterCheck(p) ==
  IF Allowlisted(RequestOf(p))
  THEN cli' = [cli EXCEPT ![p].phase = "post", ![p].left = Attempts]
  ELSE IF cli[p].execute THEN Finish(p, "error") ELSE Goto(p, "allow")

\* IsRequestAllowlisted
Check(p) ==
  /\ At(p, "check")
  /\ Finish(p, "error") \/ AfterCheck(p)
  /\ LocalStep

AllowTx(p) == [id |-> RequestOf(p), until |-> clock + cli[p].timeout]

\* Mutant of Allowed: a transaction that timed out is taken as confirmed.
AllowedOrPending(r) == Succeeded(r) \/ r = "timedOut"

\* AllowlistRequest returned without an error.
Allowed(r) == Succeeded(r)

\* AllowlistRequest, and the switch on the type of its result.
Allow(p) ==
  /\ At(p, "allow")
  /\ \E r \in TxResults(Type, SkipConfirmation, Accepts(AllowTx(p)), TRUE) :
       /\ IF Landed(r) THEN Land(AllowTx(p)) ELSE UNCHANGED allow
       /\ late' = IF r = "timedOut" THEN late \cup {AllowTx(p)} ELSE late
       /\ IF ~Allowed(r) THEN Finish(p, "error")
          ELSE cli' = [cli EXCEPT ![p].left = Attempts,
                 ![p].phase = IF r = "prepared" THEN "saveBundle" ELSE "post"]
  /\ UNCHANGED <<clock, seen, vaultVars, requests, bundles, prepared>>

\* Mutant of SaveBundle: a bundle that cannot be written is passed over.
SaveIgnored(p) ==
  /\ At(p, "saveBundle")
  /\ bundles' \in {bundles, bundles \cup {RequestOf(p)}}
  /\ Goto(p, "handOut")
  /\ UNCHANGED <<clock, allow, seen, vaultVars, requests, late, prepared>>

SaveBundle(p) ==
  /\ At(p, "saveBundle")
  /\ \/ Finish(p, "error") /\ UNCHANGED bundles
     \/ Goto(p, "handOut") /\ bundles' = bundles \cup {RequestOf(p)}
  /\ UNCHANGED <<clock, allow, seen, vaultVars, requests, late, prepared>>

\* The call data is printed, packed again with a new deadline, or a changeset
\* is written.
HandOut(p) ==
  /\ At(p, "handOut")
  /\ \/ Finish(p, "error") /\ UNCHANGED prepared
     \/ Finish(p, "prepared") /\ prepared' = prepared \cup {AllowTx(p)}
  /\ UNCHANGED <<clock, allow, seen, vaultVars, requests, bundles, late>>

\* retry.Do: the last attempt ends the command.
Retry(p) ==
  IF cli[p].left = 1 THEN Finish(p, "error")
  ELSE cli' = [cli EXCEPT ![p].left = @ - 1]

\* "request not allowlisted" is retried.
Refused(p) == Retry(p)

\* ParseVaultGatewayResponse: what came back may not be the answer it takes.
Answered(p) == Finish(p, "ok") \/ Finish(p, "error")

\* postOnce and what Post makes of it.  A lost answer is retried although the
\* request may have been executed; any other refusal is not retried.
Post(p) ==
  /\ At(p, "post")
  /\ \/ /\ ~GatewayAccepts(RequestOf(p)) /\ Refused(p) /\ UNCHANGED vaultVars
     \/ /\ GatewayAccepts(RequestOf(p)) /\ Execute(RequestOf(p))
        /\ Answered(p) \/ Retry(p)
     \/ /\ Retry(p) \/ Finish(p, "error")
        /\ UNCHANGED vaultVars
  /\ UNCHANGED <<clock, allow, seen, requests, bundles, late, prepared>>

\* The user interrupts the command.
Interrupt(p) ==
  /\ cli[p].phase \notin {"idle", "done"}
  /\ Finish(p, "error")
  /\ LocalStep

Init ==
  /\ clock = 0
  /\ allow = [id \in Ids |-> 0]
  /\ seen = {} /\ executed = {} /\ bundles = {} /\ late = {} /\ prepared = {}
  /\ vault = [k \in Keys |-> 0]
  /\ requests = [id \in Ids |-> NoRequest]
  /\ cli = [p \in Procs |-> Idle]

Step(p) ==
  \/ NotLinked(p) \/ Connect(p) \/ Check(p) \/ Allow(p) \/ SaveBundle(p)
  \/ HandOut(p) \/ Post(p)

Next ==
  \/ \E p \in Procs, op \in Ops, keys \in SUBSET Keys, t \in Timeouts :
       (op = "list" => keys = {}) /\ Start(p, op, keys, t)
  \/ \E p \in Procs : StartExecute(p) \/ Step(p) \/ Interrupt(p)
  \/ Tick \/ GatewaySync \/ MineLate \/ SubmitPrepared

\* Every call of a command returns: the HTTP client and the node have
\* timeouts, and the user answers.
Spec == Init /\ [][Next]_vars /\ \A p \in Procs : WF_vars(Step(p))
-----------------------------------------------------------------------------
Phases == {"idle", "connect", "check", "allow", "saveBundle", "handOut", "post",
           "done"}

Results == {"none", "ok", "prepared", "error"}

Command ==
  [phase: Phases, id: 0..MaxCommands, timeout: Timeouts \cup {0},
   left: 0..Attempts, execute: BOOLEAN, result: Results]

Request == [op: Ops \cup {"none"}, keys: SUBSET Keys]
Transaction == [id: Ids, until: Nat]

TypeOK ==
  /\ clock \in 0..MaxClock
  /\ allow \in [Ids -> Nat]
  /\ seen \cup executed \cup bundles \subseteq Ids
  /\ vault \in [Keys -> 0..MaxCommands]
  /\ requests \in [Ids -> Request]
  /\ late \cup prepared \subseteq Transaction
  /\ cli \in [Procs -> Command]

\* A command posts a request only after its digest was put on the allowlist:
\* not after a transaction nobody saw mined, and not for a bundle whose
\* multisig transaction is still pending (handler.go:419, execute.go:74).
PostedWasAllowlisted == \A p \in Procs : At(p, "post") => allow[RequestOf(p)] > 0

\* A transaction the multisig is asked to send always has its bundle on disk,
\* whatever fails or is interrupted in between: without the bundle the request
\* it allowlists could never be posted (handler.go:459, handler.go:500).
PreparedHasBundle == \A tx \in prepared : tx.id \in bundles

\* A command reports success only for a request the vault has executed,
\* whatever answers were lost on the way (gateway.go:30).
SuccessMeansExecuted ==
  \A p \in Procs : cli[p].result = "ok" => RequestOf(p) \in executed
===============================================================================
