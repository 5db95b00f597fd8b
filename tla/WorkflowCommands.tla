--------------------------- MODULE WorkflowCommands ---------------------------
(***************************************************************************)
(* The commands `cre workflow deploy / activate / pause / delete` of the   *)
(* CRE command line tool, run by several processes of one owner against    *)
(* one WorkflowRegistry contract.  Every command reads the registry, asks  *)
(* the user, checks a quota, and sends a transaction built from what it    *)
(* read: between any two of its calls another process, another client, a   *)
(* multisig or a transaction given up on may change the registry.          *)
(*                                                                         *)
(* deploy is modelled from the check that the workflow exists onwards: its *)
(* build is WorkflowBuild, its ownership check KeyLinking.                 *)
(***************************************************************************)
EXTENDS TxClient, FiniteSets

CONSTANTS Procs,             \* processes running a command
          Names,             \* workflow names
          Contents,          \* what a deploy compiled: names the workflow id
          OtherContent,      \* what another client of the owner registered
          Type,              \* transaction type the commands are run with
          SkipConfirmation,  \* --yes
          MaxActive,         \* the contract's limit per user and DON
          MaxBlock,          \* bound: transactions that land
          MaxCommands        \* bound: commands started

WorkflowCommandsAssumption ==
  /\ Type \in TxTypes
  /\ SkipConfirmation \in BOOLEAN
  /\ MaxActive \in Nat /\ MaxBlock \in Nat /\ MaxCommands \in Nat
  /\ OtherContent \notin Contents

VARIABLES reg,       \* the owner's workflows in the registry
          block,     \* transactions landed so far
          last,      \* history: the transaction that landed last
          late,      \* sent, and given up on by their command
          prepared,  \* call data handed to the user (--unsigned)
          csFile,    \* changesets in the changeset file
          cli,       \* what each process is doing
          started    \* commands started

NoTx == [op |-> "none"]
NoName == "none"

chainVars == <<reg, block, last>>
outVars == <<late, prepared, csFile>>
vars == <<chainVars, outVars, cli, started>>
-----------------------------------------------------------------------------
(* The contract: one entry per name and tag. *)

CliTag == "cli"      \* the name cut to 32 bytes, which deploy uses as the tag
OtherTag == "other"  \* any other tag

Id(e) == <<e.name, e.content>>
Listed(n) == {e \in reg : e.name = n}
Active(r) == {e \in r : e.status = "active"}

\* UpsertWorkflow with KeepAlive unset pauses the name's other versions.
AfterUpsert(tx) ==
  LET old == {e \in reg : e.name = tx.name /\ e.tag = tx.tag}
      Sibling(e) == e.name = tx.name /\ e.status = "active" /\ ~tx.keepAlive
  IN {IF Sibling(e)
        THEN [e EXCEPT !.status = "paused", !.changed = block + 1]
        ELSE e : e \in reg \ old}
     \cup {[name |-> tx.name, tag |-> tx.tag, content |-> tx.content,
            status |-> tx.status, changed |-> block + 1,
            created |-> IF old = {} THEN block + 1
                        ELSE (CHOOSE e \in old : TRUE).created]}

SetStatus(ids, s) ==
  {IF Id(e) \in ids /\ e.status # s
     THEN [e EXCEPT !.status = s, !.changed = block + 1] ELSE e : e \in reg}

After(tx) ==
  CASE tx.op = "upsert" -> AfterUpsert(tx)
    [] tx.op = "activate" -> SetStatus(tx.ids, "active")
    [] tx.op = "pause" -> SetStatus(tx.ids, "paused")
    [] tx.op = "delete" -> {e \in reg : Id(e) \notin tx.ids}

Registered(ids) == ids \subseteq {Id(e) : e \in reg}

\* Calls about unknown workflows and calls over the limit are rejected.
Accepts(tx) ==
  /\ tx.op # "upsert" => Registered(tx.ids)
  /\ tx.op = "activate" => \E e \in reg : Id(e) \in tx.ids /\ e.status = "paused"
  /\ Cardinality(Active(After(tx))) <= MaxActive

\* Only a pause that changes nothing shows no event.
Announces(tx) == After(tx) # reg

Land(tx) ==
  /\ block < MaxBlock
  /\ reg' = After(tx)
  /\ block' = block + 1
  /\ last' = tx

\* Another client of the owner registers a version under a tag of its own.
OtherClient(n) ==
  LET tx == [op |-> "upsert", name |-> n, tag |-> OtherTag, asOf |-> block,
             content |-> OtherContent, status |-> "active", keepAlive |-> TRUE]
  IN /\ OtherContent \notin {e.content : e \in Listed(n)}
     /\ Accepts(tx)
     /\ Land(tx)
     /\ UNCHANGED <<outVars, cli, started>>

\* A transaction whose command stopped waiting is mined, or dropped.
MineLate ==
  /\ \E tx \in late :
       /\ late' = late \ {tx}
       /\ IF Accepts(tx) THEN Land(tx) \/ UNCHANGED chainVars
                         ELSE UNCHANGED chainVars
  /\ UNCHANGED <<prepared, csFile, cli, started>>

\* The multisig sends prepared call data, however old.
SubmitPrepared ==
  /\ \E tx \in prepared :
       /\ prepared' = prepared \ {tx}
       /\ IF Accepts(tx) THEN Land(tx) ELSE UNCHANGED chainVars
  /\ UNCHANGED <<late, csFile, cli, started>>

\* The durable pipeline runs a changeset of the file; the file stays.
ApplyChangeset ==
  /\ \E tx \in csFile : Accepts(tx) /\ Land(tx)
  /\ UNCHANGED <<outVars, cli, started>>
-----------------------------------------------------------------------------
(* The processes. *)

Record(op, phase, n, c) ==
  [op |-> op, phase |-> phase, result |-> "none", name |-> n,
   content |-> c, seen |-> "none", seenAt |-> 0, pending |-> 1,
   listed |-> {}, todo |-> {}, failed |-> FALSE, payload |-> NoTx,
   copy |-> {}]

Idle == Record("none", "idle", NoName, OtherContent)
NewCommand(op, n, c) == Record(op, "connect", n, c)

At(p, phase) == cli[p].phase = phase
Goto(p, phase) == cli' = [cli EXCEPT ![p].phase = phase]
Finish(p, result) ==
  cli' = [cli EXCEPT ![p].phase = "done", ![p].result = result]
LocalStep == UNCHANGED <<chainVars, outVars, started>>

Start(p, op, n, c) ==
  /\ cli[p].phase \in {"idle", "done"}
  /\ started < MaxCommands
  /\ started' = started + 1
  /\ cli' = [cli EXCEPT ![p] = NewCommand(op, n, c)]
  /\ UNCHANGED <<chainVars, outVars>>

\* Inputs are validated while a goroutine builds the registry client.
StartDeploy(p, n, c) == Start(p, "deploy", n, c)
StartActivate(p, n) == Start(p, "activate", n, OtherContent)
StartPause(p, n) == Start(p, "pause", n, OtherContent)
StartDelete(p, n) == Start(p, "delete", n, OtherContent)

\* NewEthClientFromEnv and NewSethClientWithSimulated: a key, a chain or a
\* configuration is missing, or no node answers.
ClientFails(p) == At(p, "connect") /\ Finish(p, "error") /\ LocalStep

\* h.wg.Wait: the goroutine has built the registry client.
Connect(p) == At(p, "connect") /\ Goto(p, "lookup") /\ LocalStep

\* Any registry read may fail, and the command ends with the error.
ReadFails(p) ==
  /\ cli[p].phase \in {"lookup", "sameName", "quota"}
  /\ Finish(p, "error")
  /\ LocalStep

\* Mutants of SeenStatus: an update registers with the default status, and the
\* wrong field of the entry is taken for its status.
AlwaysNew(n) == "none"
SeenTag(n) == IF \E e \in Listed(n) : e.tag = CliTag THEN CliTag ELSE "none"

\* GetWorkflow(owner, name, tag): the status a deploy will register with.
SeenStatus(n) ==
  LET mine == {e \in Listed(n) : e.tag = CliTag}
  IN IF mine = {} THEN "none" ELSE (CHOOSE e \in mine : TRUE).status

\* workflowExists: the same id ends the deploy, the same name is an update
\* that keeps the status and has to be confirmed.
DeployLookup(p) ==
  LET n == cli[p].name
      same == \E e \in Listed(n) : e.tag = CliTag /\ e.content = cli[p].content
  IN /\ At(p, "lookup") /\ cli[p].op = "deploy"
     /\ IF same THEN Finish(p, "error")
        ELSE cli' = [cli EXCEPT
               ![p].phase = IF \A e \in Listed(n) : e.tag # CliTag
                            THEN "sameName" ELSE "confirm",
               ![p].seen = SeenStatus(n), ![p].seenAt = block]
     /\ LocalStep

\* How many active workflows a new registration adds to the quota.
PendingFor(activeSameName) == IF activeSameName >= 1 THEN 0 ELSE 1

\* checkUserDonLimitBeforeDeploy, for a workflow that is new.
CountSameName(p) ==
  LET n == PendingFor(Cardinality(Active(Listed(cli[p].name))))
  IN /\ At(p, "sameName")
     /\ cli' = [cli EXCEPT ![p].pending = n,
                           ![p].phase = IF n = 0 THEN "upload" ELSE "quota"]
     /\ LocalStep

\* Mutant of WithinLimit: off by one.
AtLimit(pending) == Cardinality(Active(reg)) + pending <= MaxActive + 1

\* CheckUserDonLimit: its reads of the quota and of the pages of the list are
\* taken as one; Connect, the list and this come at different times.
WithinLimit(pending) == Cardinality(Active(reg)) + pending <= MaxActive

\* CheckUserDonLimit: for a deploy the upload follows, for an activate the
\* transaction.
CheckQuota(p) ==
  /\ At(p, "quota")
  /\ IF WithinLimit(cli[p].pending)
     THEN Goto(p, IF cli[p].op = "deploy" THEN "upload" ELSE "submit")
     ELSE Finish(p, "refused")
  /\ LocalStep

\* The artifacts are stored, or the deploy ends (ArtifactUpload).
Upload(p) ==
  /\ At(p, "upload")
  /\ Finish(p, "error") \/ Goto(p, "submit")
  /\ LocalStep

Latest(n) ==
  CHOOSE e \in Listed(n) : \A f \in Listed(n) : f.created <= e.created

\* The version created last has to be paused.  The versions read are the first
\* 200 (activate.go:147), more than the bounds allow.
ActivateLookup(p) ==
  LET n == cli[p].name
  IN /\ At(p, "lookup") /\ cli[p].op = "activate"
     /\ IF Listed(n) = {} \/ (Listed(n) # {} /\ Latest(n).status # "paused")
        THEN Finish(p, "error")
        ELSE cli' = [cli EXCEPT ![p].phase = "quota", ![p].seenAt = block,
                                ![p].listed = {Id(Latest(n))}]
     /\ LocalStep

Pausable(n) == Active(Listed(n))

\* fetchAllWorkflows, then the active ones of them.
PauseLookup(p) ==
  LET ids == {Id(e) : e \in Pausable(cli[p].name)}
  IN /\ At(p, "lookup") /\ cli[p].op = "pause"
     /\ IF ids = {} THEN Finish(p, "error")
        ELSE cli' = [cli EXCEPT ![p].phase = "submit", ![p].listed = ids,
                                ![p].seenAt = block]
     /\ LocalStep

\* Nothing to delete is not an error.  The versions read are the first 100, more
\* than the bounds allow (delete.go:148).
DeleteLookup(p) ==
  LET ids == {Id(e) : e \in Listed(cli[p].name)}
  IN /\ At(p, "lookup") /\ cli[p].op = "delete"
     /\ IF ids = {} THEN Finish(p, "nothing")
        ELSE cli' = [cli EXCEPT ![p].phase = "confirm", ![p].listed = ids,
                                ![p].todo = ids, ![p].seenAt = block]
     /\ LocalStep

\* The user agrees (or passed --yes), or the command ends: a declined deploy
\* is an error, and so is a prompt that fails, but a declined delete is none.  An
\* update skips the quota.
Confirm(p) ==
  /\ At(p, "confirm")
  /\ \/ Goto(p, IF cli[p].op = "deploy" THEN "upload" ELSE "submit")
     \/ /\ ~SkipConfirmation
        /\ Finish(p, "error") \/ (cli[p].op = "delete" /\ Finish(p, "nothing"))
  /\ LocalStep
-----------------------------------------------------------------------------
(* Sending. *)

UpsertTx(p) ==
  [op |-> "upsert", name |-> cli[p].name, tag |-> CliTag,
   content |-> cli[p].content, keepAlive |-> FALSE, asOf |-> cli[p].seenAt,
   status |-> IF cli[p].seen = "none" THEN "active" ELSE cli[p].seen]
ActivateTx(ids) == [op |-> "activate", ids |-> ids]
PauseTx(ids) == [op |-> "pause", ids |-> ids]
DeleteTx(id) == [op |-> "delete", ids |-> {id}]

\* The transactions the process may send next: delete sends one per version.
NextTxs(p) ==
  CASE cli[p].op = "deploy" -> {UpsertTx(p)}
    [] cli[p].op = "activate" -> {ActivateTx(cli[p].listed)}
    [] cli[p].op = "pause" -> {PauseTx(cli[p].listed)}
    [] cli[p].op = "delete" -> {DeleteTx(id) : id \in cli[p].todo}

\* executeTransactionByTxType, and what it leaves behind.
Send(tx, r) ==
  /\ r \in TxResults(Type, SkipConfirmation, Accepts(tx), Announces(tx))
  /\ IF Landed(r) THEN Land(tx) ELSE UNCHANGED chainVars
  /\ late' = IF r = "timedOut" THEN late \cup {tx} ELSE late
  /\ prepared' = IF r = "prepared" /\ Type = "raw"
                 THEN prepared \cup {tx} ELSE prepared
  /\ UNCHANGED <<csFile, started>>

IsChangeset(r) == r = "prepared" /\ Type = "changeset"

\* The switch on the result: a changeset has still to be written.
Report(p, payload, r) ==
  IF IsChangeset(r)
  THEN cli' = [cli EXCEPT ![p].phase = "csRead", ![p].payload = payload]
  ELSE Finish(p, IF Succeeded(r) THEN "ok" ELSE "error")

Ready(p, op) == At(p, "submit") /\ cli[p].op = op

SubmitUpsert(p) ==
  /\ Ready(p, "deploy")
  /\ \E r \in TxOutcomes : Send(UpsertTx(p), r) /\ Report(p, UpsertTx(p), r)

SubmitActivate(p) ==
  LET tx == ActivateTx(cli[p].listed)
  IN /\ Ready(p, "activate")
     /\ \E r \in TxOutcomes : Send(tx, r) /\ Report(p, tx, r)

\* A changeset names one workflow only, runtimeContext.Workflow.ID.
SubmitPause(p) ==
  /\ Ready(p, "pause")
  /\ \E r \in TxOutcomes, first \in cli[p].listed :
       /\ Send(PauseTx(cli[p].listed), r)
       /\ Report(p, PauseTx({first}), r)

\* Mutant of DeleteFailed: the errors of earlier versions are forgotten.
LastFailed(p, r) == ~Succeeded(r)

\* errs: delete goes on after an error and reports it at the end.
DeleteFailed(p, r) == cli[p].failed \/ ~Succeeded(r)

\* The version listed first, runtimeContext.Workflow.ID, as far as the rounds
\* before the one for id tell.
MaybeFirst(p, id) ==
  IF cli[p].todo = cli[p].listed THEN {id} ELSE cli[p].listed \ cli[p].todo

\* One round of the loop over the versions; a changeset names the first of
\* them, and returns out of the loop.
SubmitDelete(p) ==
  /\ Ready(p, "delete")
  /\ \E r \in TxOutcomes, id \in cli[p].todo :
       LET rest == cli[p].todo \ {id}
           bad == DeleteFailed(p, r)
       IN /\ Send(DeleteTx(id), r)
          /\ IF IsChangeset(r)
             THEN \E first \in MaybeFirst(p, id) : Report(p, DeleteTx(first), r)
             ELSE cli' = [cli EXCEPT
                    ![p].todo = rest, ![p].failed = bad,
                    ![p].phase = IF rest = {} THEN "done" ELSE "submit",
                    ![p].result = IF rest # {} THEN "none"
                                  ELSE IF bad THEN "error" ELSE "ok"]

\* WriteChangesetFile reads the file if it is there ...
ReadChangesets(p) ==
  /\ At(p, "csRead")
  /\ \/ Finish(p, "error")
     \/ cli' = [cli EXCEPT ![p].phase = "csWrite", ![p].copy = csFile]
  /\ LocalStep

Rewritten(copy, payload) == copy \cup {payload}

\* ... and writes it again with the new changeset appended.  The command
\* returns with the outcome, whatever is left to do.
WriteChangesets(p) ==
  /\ At(p, "csWrite")
  /\ \/ Finish(p, "error") /\ UNCHANGED csFile
     \/ Finish(p, "ok") /\ csFile' = Rewritten(cli[p].copy, cli[p].payload)
  /\ UNCHANGED <<chainVars, late, prepared, started>>

Init ==
  /\ reg = {} /\ block = 0 /\ last = NoTx
  /\ late = {} /\ prepared = {} /\ csFile = {}
  /\ cli = [p \in Procs |-> Idle]
  /\ started = 0

Step(p) ==
  \/ ClientFails(p) \/ Connect(p) \/ ReadFails(p)
  \/ DeployLookup(p) \/ ActivateLookup(p) \/ PauseLookup(p) \/ DeleteLookup(p)
  \/ Confirm(p) \/ CountSameName(p) \/ CheckQuota(p) \/ Upload(p)
  \/ SubmitUpsert(p) \/ SubmitActivate(p) \/ SubmitPause(p) \/ SubmitDelete(p)
  \/ ReadChangesets(p) \/ WriteChangesets(p)

Next ==
  \/ \E p \in Procs, n \in Names :
       \/ \E c \in Contents : StartDeploy(p, n, c)
       \/ StartActivate(p, n) \/ StartPause(p, n) \/ StartDelete(p, n)
  \/ \E p \in Procs : Step(p)
  \/ \E n \in Names : OtherClient(n)
  \/ MineLate
  \/ SubmitPrepared
  \/ ApplyChangeset

Spec == Init /\ [][Next]_vars
-----------------------------------------------------------------------------
Results == {"none", "ok", "error", "refused", "nothing"}
Phases == {"idle", "connect", "lookup", "sameName", "quota", "confirm",
           "upload", "submit", "csRead", "csWrite", "done"}
Versions == Contents \cup {OtherContent}
Ids == Names \X Versions

Entry == [name : Names, tag : {CliTag, OtherTag}, content : Versions,
          status : {"active", "paused"},
          changed : 0..MaxBlock, created : 0..MaxBlock]

Transaction ==
  [op : {"upsert"}, name : Names, tag : {CliTag, OtherTag}, asOf : 0..MaxBlock,
   content : Versions, status : {"active", "paused"}, keepAlive : BOOLEAN]
  \cup [op : {"activate", "pause", "delete"}, ids : SUBSET Ids]

Command ==
  [op : {"none", "deploy", "activate", "pause", "delete"}, phase : Phases,
   result : Results, name : Names \cup {NoName}, content : Versions,
   seen : {"none", "active", "paused"}, seenAt : 0..MaxBlock,
   pending : {0, 1}, listed : SUBSET Ids, todo : SUBSET Ids,
   failed : BOOLEAN, payload : Transaction \cup {NoTx},
   copy : SUBSET Transaction]

\* The registry holds one entry per name and tag, and never more active ones
\* than the contract allows.
TypeOK ==
  /\ reg \subseteq Entry
  /\ \A e, f \in reg : e.name = f.name /\ e.tag = f.tag => e = f
  /\ Cardinality(Active(reg)) <= MaxActive
  /\ block \in 0..MaxBlock /\ started \in 0..MaxCommands
  /\ last \in Transaction \cup {NoTx}
  /\ late \subseteq Transaction /\ prepared \subseteq Transaction
  /\ csFile \subseteq Transaction
  /\ cli \in [Procs -> Command]

\* A paused workflow starts running again only by an activate, or by a deploy
\* that looked at the registry before the pause: no deploy that saw the pause
\* undoes it (deploy.go:261, register.go:41).
PauseNotUndone ==
  \A e \in reg, f \in reg' :
    /\ e.name = f.name /\ e.tag = f.tag
    /\ e.status = "paused" /\ f.status = "active"
    => last'.op = "activate" \/ last'.asOf < e.changed

\* The checks are as strict as the contract: a command that passed them sends
\* a transaction that is accepted and announced, unless somebody else changed
\* the registry after its first read (limits.go, activate.go, pause.go).
ChecksSuffice ==
  \A p \in Procs :
    At(p, "submit") /\ cli[p].seenAt = block =>
      \A tx \in NextTxs(p) : Accepts(tx) /\ Announces(tx)

\* ... and no stricter: a command refused for the quota would have been
\* rejected by the contract as well.
RefusalsJustified ==
  \A p \in Procs :
    /\ At(p, "quota") /\ cli'[p].result = "refused"
    /\ cli[p].seenAt = block
    => \A tx \in NextTxs(p) : ~Accepts(tx)

Gone(id, since) == \A e \in reg' : Id(e) = id => e.created > since

\* A command that reports success on the chain has done what it was asked:
\* a deploy shows in the registry, a paused workflow is paused, and of the
\* versions a delete listed none is left, whatever ran in between
\* (delete.go:184 collects the errors of the single transactions).
SuccessMeansDone ==
  \A p \in Procs :
    Type = "regular" /\ cli[p].result = "none" /\ cli'[p].result = "ok" =>
      CASE cli[p].op = "deploy" ->
             \E e \in reg' : Id(e) = <<cli[p].name, cli[p].content>>
        [] cli[p].op = "delete" ->
             \A id \in cli[p].listed : Gone(id, cli[p].seenAt)
        [] OTHER -> \A e \in reg' : Id(e) \in cli[p].listed =>
             (e.status = "active" <=> cli[p].op = "activate")

\* What settings_load.go:69 says of --changeset-file: a changeset a command
\* reported as written is still in the file, appended to the earlier ones.
AppendedStays ==
  \A p \in Procs :
    Type = "changeset" /\ cli[p].result = "ok" => cli[p].payload \in csFile

\* What delete.go:42 says: a delete that reports success has dealt with every
\* version of the workflow it listed.
DeletePreparesAll ==
  \A p \in Procs :
    Type = "changeset" /\ cli[p].op = "delete" /\ cli[p].result = "ok" =>
      \A id \in cli[p].listed : DeleteTx(id) \in csFile
===============================================================================
