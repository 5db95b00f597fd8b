------------------------- MODULE SecretsCommandsProofs -------------------------
(***************************************************************************)
(* Proofs about SecretsCommands, for any number of processes, keys and     *)
(* requests, for every transaction type and with and without --yes.        *)
(* CommandInv is what is known at each step of one command, ChainInv what  *)
(* holds of the transactions on their way.  The steps of others only add   *)
(* to the allowlist, the bundles and the executed requests (Grows), so     *)
(* they take nothing from what a command knows.                            *)
(***************************************************************************)
EXTENDS SecretsCommands, TLAPS

-----------------------------------------------------------------------------
(* The inductive invariant *)

\* What is known at each step of p's command.
Knows(p) ==
  LET c == cli[p]
  IN /\ c.phase # "idle" => c.id \in Ids
     /\ c.phase \notin {"idle", "done"} /\ ~c.execute => c.timeout > 0
     /\ c.phase \in {"allow", "saveBundle", "handOut"} => ~c.execute
     /\ c.phase = "post" => c.left > 0 /\ allow[c.id] > 0
     /\ c.phase = "handOut" => c.id \in bundles
     /\ c.result = "ok" => c.id \in executed

CommandInv == \A p \in Procs : Knows(p)

ChainInv ==
  /\ \A tx \in late \cup prepared : tx.until > 0
  /\ PreparedHasBundle

SecretsInv == TypeOK /\ CommandInv /\ ChainInv
-----------------------------------------------------------------------------
(* Commands as records *)

\* A command whose record is replaced leaves those of the others.
LEMMA Replaces ==
  ASSUME cli \in [Procs -> Command], NEW p \in Procs, NEW c \in Command,
         cli' = [cli EXCEPT ![p] = c]
  PROVE  /\ cli' \in [Procs -> Command]
         /\ cli'[p] = c
         /\ \A q \in Procs \ {p} : cli'[q] = cli[q]
  OBVIOUS

LEMMA IdleType == ASSUME SecretsCommandsAssumption PROVE Idle \in Command
  BY DEF SecretsCommandsAssumption, Idle, Command, Phases, Results

LEMMA FinishSteps ==
  ASSUME cli \in [Procs -> Command], NEW p \in Procs, NEW r \in Results,
         Finish(p, r)
  PROVE  /\ cli' \in [Procs -> Command]
         /\ \A q \in Procs \ {p} : cli'[q] = cli[q]
         /\ cli'[p].phase = "done" /\ cli'[p].result = r
         /\ cli'[p].id = cli[p].id
<1> DEFINE c == [cli[p] EXCEPT !.phase = "done", !.result = r]
<1>1. cli[p] \in Command
  OBVIOUS
<1>2. c \in Command
  BY <1>1, Zenon DEF Command, Phases
<1>3. c.phase = "done" /\ c.result = r /\ c.id = cli[p].id
  BY <1>1 DEF Command
<1>4. cli' = [cli EXCEPT ![p] = c]
  BY DEF Finish
<1> HIDE DEF c
<1> QED BY <1>2, <1>3, <1>4, Replaces

\* Going on to another phase, with a count of attempts or without.
Continues(p, phase, left) ==
  cli' = [cli EXCEPT ![p].phase = phase, ![p].left = left]

LEMMA ContinueSteps ==
  ASSUME cli \in [Procs -> Command], NEW p \in Procs, NEW phase \in Phases,
         NEW left \in 0..Attempts, Continues(p, phase, left)
  PROVE  /\ cli' \in [Procs -> Command]
         /\ \A q \in Procs \ {p} : cli'[q] = cli[q]
         /\ cli'[p].phase = phase /\ cli'[p].left = left
         /\ cli'[p].id = cli[p].id /\ cli'[p].timeout = cli[p].timeout
         /\ cli'[p].execute = cli[p].execute /\ cli'[p].result = cli[p].result
<1> DEFINE c == [cli[p] EXCEPT !.phase = phase, !.left = left]
<1>1. cli[p] \in Command
  OBVIOUS
<1>2. c \in Command
  BY <1>1, Zenon DEF Command
<1>3. /\ c.phase = phase /\ c.left = left /\ c.id = cli[p].id
      /\ c.timeout = cli[p].timeout /\ c.execute = cli[p].execute
      /\ c.result = cli[p].result
  BY <1>1 DEF Command
<1>4. cli' = [cli EXCEPT ![p] = c]
  BY DEF Continues
<1> HIDE DEF c
<1> QED BY <1>2, <1>3, <1>4, Replaces

\* Goto, and a failed attempt that is not the last, go on like that.
LEMMA GoesOn ==
  ASSUME cli \in [Procs -> Command], NEW p \in Procs, NEW phase
  PROVE  /\ Goto(p, phase) => Continues(p, phase, cli[p].left)
         /\ cli[p].left # 1 /\ Retry(p) =>
              Continues(p, cli[p].phase, cli[p].left - 1)
<1>1. cli[p] \in Command
  OBVIOUS
<1> QED BY <1>1 DEF Goto, Retry, Continues

LEMMA TxType ==
  ASSUME SecretsCommandsAssumption, TypeOK, NEW p \in Procs, Knows(p),
         cli[p].phase \in {"allow", "handOut"}
  PROVE  AllowTx(p) \in Transaction /\ AllowTx(p).until > 0
         /\ AllowTx(p).id = cli[p].id /\ cli[p].id \in Ids
<1>1. cli[p] \in Command
  BY DEF TypeOK
<1>2. cli[p].id \in Ids /\ cli[p].timeout > 0
  BY DEF Knows
<1>3. cli[p].timeout \in Nat /\ clock \in Nat
  <2>1. cli[p].timeout \in Timeouts \cup {0}
    BY <1>1 DEF Command
  <2>2. clock \in 0..MaxClock
    BY DEF TypeOK
  <2>3. Timeouts \subseteq Nat
    BY DEF SecretsCommandsAssumption
  <2>4. cli[p].timeout \in Nat
    <3>1. CASE cli[p].timeout \in Timeouts
      BY <2>3, <3>1
    <3>2. CASE cli[p].timeout = 0
      BY <3>2
    <3> QED BY <2>1, <3>1, <3>2
  <2>5. clock \in Nat
    BY <2>2
  <2> QED BY <2>4, <2>5
<1>4. clock + cli[p].timeout \in Nat /\ clock + cli[p].timeout > 0
  BY <1>2, <1>3
<1> QED BY <1>2, <1>4 DEF AllowTx, RequestOf, Transaction
-----------------------------------------------------------------------------
(* The chain, the gateway and the vault *)

\* What every step leaves of the world.
Grows ==
  /\ \A id \in Ids : allow[id] > 0 => allow'[id] > 0
  /\ bundles \subseteq bundles' /\ executed \subseteq executed'

\* The types of all variables but the commands.
WorldTypes ==
  /\ clock \in 0..MaxClock
  /\ allow \in [Ids -> Nat]
  /\ seen \cup executed \cup bundles \subseteq Ids
  /\ vault \in [Keys -> 0..MaxCommands]
  /\ requests \in [Ids -> Request]
  /\ late \cup prepared \subseteq Transaction

LEMMA LocalSteps ==
  ASSUME TypeOK, ChainInv, LocalStep
  PROVE  Grows /\ WorldTypes' /\ ChainInv'
  BY DEF LocalStep, TypeOK, ChainInv, PreparedHasBundle, Grows, WorldTypes,
         vaultVars

LEMMA LandSteps ==
  ASSUME TypeOK, NEW tx \in Transaction, tx.until > 0, Land(tx)
  PROVE  /\ allow' \in [Ids -> Nat] /\ allow'[tx.id] > 0
         /\ \A id \in Ids : allow[id] > 0 => allow'[id] > 0
  BY DEF TypeOK, Transaction, Land

\* The steps of others take nothing from what a command knows.
LEMMA OthersKnow ==
  ASSUME NEW q \in Procs, Knows(q), cli'[q] = cli[q], Grows
  PROVE  Knows(q)'
  BY DEF Knows, Grows
-----------------------------------------------------------------------------
(* The commands *)

LEMMA StartStep ==
  ASSUME SecretsCommandsAssumption, SecretsInv, NEW p \in Procs, NEW op \in Ops,
         NEW keys \in SUBSET Keys, NEW t \in Timeouts, Start(p, op, keys, t)
  PROVE  /\ Grows /\ WorldTypes' /\ ChainInv'
         /\ cli' \in [Procs -> Command]
         /\ \A q \in Procs \ {p} : cli'[q] = cli[q]
         /\ Knows(p)'
<1>1. TypeOK /\ ChainInv /\ cli \in [Procs -> Command]
  BY DEF SecretsInv, TypeOK
<1>2. NextId \in Ids
  BY DEF Start, NextId, Unused
<1>3. PICK phase \in {"connect", "done"}, result \in {"none", "error"} :
        /\ phase = "connect" => ValidTimeout(t)
        /\ cli' = [cli EXCEPT ![p] =
             [Idle EXCEPT !.id = NextId, !.timeout = t, !.phase = phase,
                          !.result = result]]
  <2>1. CASE ValidTimeout(t) /\ ValidKeys(op, keys)
    BY <2>1 DEF Start
  <2>2. CASE ~(ValidTimeout(t) /\ ValidKeys(op, keys))
    BY <2>2 DEF Start
  <2> QED BY <2>1, <2>2
<1> DEFINE c == [Idle EXCEPT !.id = NextId, !.timeout = t, !.phase = phase,
                             !.result = result]
<1>4. c \in Command
  <2>1. NextId \in 0..MaxCommands /\ t \in Timeouts \cup {0}
    BY <1>2 DEF Ids, SecretsCommandsAssumption
  <2>2. phase \in Phases /\ result \in Results
    BY DEF Phases, Results
  <2> QED BY <2>1, <2>2, IdleType, Zenon DEF Command
<1>5. /\ c.id = NextId /\ c.timeout = t /\ c.phase = phase
      /\ c.result = result /\ c.execute = FALSE
  BY DEF Idle
<1>6. cli' = [cli EXCEPT ![p] = c]
  BY <1>3
<1> HIDE DEF c
<1>7. Knows(p)'
  <2>1. cli'[p] = c
    BY <1>1, <1>4, <1>6, Replaces
  <2> QED BY <1>2, <1>3, <1>5, <2>1 DEF Knows, ValidTimeout
<1>8. [op |-> op, keys |-> keys] \in Request
  BY DEF Request
<1>9. requests' \in [Ids -> Request]
  BY <1>1, <1>8 DEF Start, TypeOK
<1>10. UNCHANGED <<clock, allow, seen, vaultVars, bundles, late, prepared>>
  BY DEF Start
<1>11. Grows /\ WorldTypes' /\ ChainInv'
  BY <1>1, <1>9, <1>10
     DEF Grows, WorldTypes, TypeOK, ChainInv, PreparedHasBundle, vaultVars
<1> QED BY <1>1, <1>4, <1>6, <1>7, <1>11, Replaces

LEMMA OwnLocalStep ==
  ASSUME SecretsCommandsAssumption, SecretsInv, NEW p \in Procs,
         \/ StartExecute(p) \/ NotLinked(p) \/ Connect(p) \/ Check(p)
         \/ Interrupt(p)
  PROVE  /\ LocalStep
         /\ cli' \in [Procs -> Command]
         /\ \A q \in Procs \ {p} : cli'[q] = cli[q]
         /\ Knows(p)'
<1>1. /\ TypeOK /\ ChainInv /\ Knows(p)
      /\ cli \in [Procs -> Command] /\ cli[p] \in Command
  BY DEF SecretsInv, TypeOK, CommandInv
<1>2. LocalStep
  BY DEF StartExecute, NotLinked, Connect, Check, Interrupt
<1>3. UNCHANGED <<allow, bundles, executed>>
  BY <1>2 DEF LocalStep, vaultVars
<1>4. ASSUME Finish(p, "error"), cli[p].phase # "idle"
      PROVE  /\ cli' \in [Procs -> Command]
             /\ \A q \in Procs \ {p} : cli'[q] = cli[q]
             /\ Knows(p)'
  BY <1>1, <1>3, <1>4, FinishSteps DEF Knows, Results
<1>5. CASE StartExecute(p)
  <2>1. PICK id \in bundles :
          cli' = [cli EXCEPT ![p] = [Idle EXCEPT !.id = id, !.phase = "check",
                                                 !.execute = TRUE]]
    BY <1>5 DEF StartExecute
  <2> DEFINE c == [Idle EXCEPT !.id = id, !.phase = "check", !.execute = TRUE]
  <2>2. id \in Ids /\ id \in 0..MaxCommands
    BY <1>1 DEF TypeOK, Ids
  <2>3. c \in Command
    BY <2>2, IdleType, Zenon DEF Command, Phases
  <2>4. c.id = id /\ c.phase = "check" /\ c.execute /\ c.result = "none"
    BY DEF Idle
  <2>5. cli' = [cli EXCEPT ![p] = c]
    BY <2>1
  <2> HIDE DEF c
  <2> QED BY <1>1, <1>2, <2>2, <2>3, <2>4, <2>5, Replaces DEF Knows
<1>6. CASE NotLinked(p)
  BY <1>2, <1>4, <1>6 DEF NotLinked, At
<1>7. ASSUME NEW phase \in {"check", "allow", "post"}, NEW left \in 0..Attempts,
             Continues(p, phase, left), cli[p].phase \in {"connect", "check"},
             phase = "allow" => ~cli[p].execute,
             phase = "post" => left > 0 /\ allow[cli[p].id] > 0
      PROVE  /\ cli' \in [Procs -> Command]
             /\ \A q \in Procs \ {p} : cli'[q] = cli[q]
             /\ Knows(p)'
  <2>1. phase \in Phases
    BY DEF Phases
  <2>2. /\ cli' \in [Procs -> Command]
        /\ \A q \in Procs \ {p} : cli'[q] = cli[q]
        /\ cli'[p].phase = phase /\ cli'[p].left = left
        /\ cli'[p].id = cli[p].id /\ cli'[p].timeout = cli[p].timeout
        /\ cli'[p].execute = cli[p].execute /\ cli'[p].result = cli[p].result
    BY <1>1, <1>7, <2>1, ContinueSteps
  <2> QED BY <1>1, <1>3, <1>7, <2>2 DEF Knows
<1>8. cli[p].left \in 0..Attempts /\ Attempts \in 0..Attempts /\ Attempts > 0
  BY <1>1 DEF Command, SecretsCommandsAssumption
<1>9. CASE Connect(p)
  <2>1. (Finish(p, "error") \/ Continues(p, "check", cli[p].left))
        /\ cli[p].phase = "connect"
    BY <1>1, <1>9, GoesOn DEF Connect, At
  <2> QED BY <1>2, <1>4, <1>7, <1>8, <2>1
<1>10. CASE Check(p)
  <2>1. /\ cli[p].phase = "check"
        /\ \/ Finish(p, "error")
           \/ Allowlisted(RequestOf(p)) /\ Continues(p, "post", Attempts)
           \/ ~cli[p].execute /\ Continues(p, "allow", cli[p].left)
    BY <1>1, <1>10, GoesOn DEF Check, At, AfterCheck, Continues
  <2>2. Allowlisted(RequestOf(p)) => allow[cli[p].id] > 0
    <3>1. cli[p].id \in Ids
      BY <1>1, <2>1 DEF Knows
    <3> QED BY <1>1, <3>1 DEF Allowlisted, RequestOf, TypeOK
  <2> QED BY <1>2, <1>4, <1>7, <1>8, <2>1, <2>2
<1>11. CASE Interrupt(p)
  BY <1>2, <1>4, <1>11 DEF Interrupt
<1> QED BY <1>5, <1>6, <1>9, <1>10, <1>11
LEMMA AllowStep ==
  ASSUME SecretsCommandsAssumption, SecretsInv, NEW p \in Procs, Allow(p)
  PROVE  /\ Grows /\ WorldTypes' /\ ChainInv'
         /\ cli' \in [Procs -> Command]
         /\ \A q \in Procs \ {p} : cli'[q] = cli[q]
         /\ Knows(p)'
<1>1. /\ TypeOK /\ ChainInv /\ Knows(p) /\ cli[p].phase = "allow"
      /\ cli \in [Procs -> Command] /\ cli[p] \in Command
  BY DEF SecretsInv, TypeOK, CommandInv, Allow, At
<1>2. AllowTx(p) \in Transaction /\ AllowTx(p).until > 0
      /\ AllowTx(p).id = cli[p].id /\ cli[p].id \in Ids
  BY <1>1, TxType
<1>3. PICK r \in TxResults(Type, SkipConfirmation, Accepts(AllowTx(p)), TRUE) :
        /\ IF Landed(r) THEN Land(AllowTx(p)) ELSE UNCHANGED allow
        /\ late' = IF r = "timedOut" THEN late \cup {AllowTx(p)} ELSE late
        /\ IF ~Allowed(r) THEN Finish(p, "error")
           ELSE cli' = [cli EXCEPT ![p].left = Attempts,
                  ![p].phase = IF r = "prepared" THEN "saveBundle" ELSE "post"]
  BY DEF Allow
<1>4. UNCHANGED <<clock, seen, vaultVars, requests, bundles, prepared>>
  BY DEF Allow
<1>5. /\ allow' \in [Ids -> Nat]
      /\ \A id \in Ids : allow[id] > 0 => allow'[id] > 0
      /\ Landed(r) => allow'[cli[p].id] > 0
  <2>1. CASE Landed(r)
    BY <1>1, <1>2, <1>3, <2>1, LandSteps
  <2>2. CASE ~Landed(r)
    BY <1>1, <1>3, <2>2 DEF TypeOK
  <2> QED BY <2>1, <2>2
<1>6. Grows /\ WorldTypes' /\ ChainInv'
  BY <1>1, <1>2, <1>3, <1>4, <1>5
     DEF Grows, WorldTypes, TypeOK, ChainInv, PreparedHasBundle, vaultVars
<1>7. CASE Finish(p, "error")
  BY <1>1, <1>2, <1>4, <1>6, <1>7, FinishSteps DEF Knows, Results, vaultVars
<1>8. CASE ~Finish(p, "error")
  <2>1. Allowed(r)
    BY <1>3, <1>8
  <2>2. PICK phase \in {"saveBundle", "post"} :
          /\ phase = "post" => Landed(r)
          /\ Continues(p, phase, Attempts)
    <3>1. CASE r = "prepared"
      BY <1>3, <2>1, <3>1 DEF Continues
    <3>2. CASE r # "prepared"
      <4>1. Landed(r)
        BY <2>1, <3>2 DEF Allowed, Succeeded, Landed
      <4> QED BY <1>3, <2>1, <3>2, <4>1 DEF Continues
    <3> QED BY <3>1, <3>2
  <2>3. phase \in Phases /\ Attempts \in 0..Attempts /\ Attempts > 0
    BY DEF Phases, SecretsCommandsAssumption
  <2>4. /\ cli' \in [Procs -> Command]
        /\ \A q \in Procs \ {p} : cli'[q] = cli[q]
        /\ cli'[p].phase = phase /\ cli'[p].left = Attempts
        /\ cli'[p].id = cli[p].id /\ cli'[p].timeout = cli[p].timeout
        /\ cli'[p].execute = cli[p].execute /\ cli'[p].result = cli[p].result
    BY <1>1, <2>2, <2>3, ContinueSteps
  <2> QED BY <1>1, <1>2, <1>5, <1>6, <2>2, <2>3, <2>4 DEF Knows, Grows
<1> QED BY <1>7, <1>8

LEMMA BundleStep ==
  ASSUME SecretsCommandsAssumption, SecretsInv, NEW p \in Procs,
         SaveBundle(p) \/ HandOut(p)
  PROVE  /\ Grows /\ WorldTypes' /\ ChainInv'
         /\ cli' \in [Procs -> Command]
         /\ \A q \in Procs \ {p} : cli'[q] = cli[q]
         /\ Knows(p)'
<1>1. /\ TypeOK /\ ChainInv /\ Knows(p)
      /\ cli[p].phase \in {"saveBundle", "handOut"}
      /\ cli \in [Procs -> Command] /\ cli[p] \in Command
  BY DEF SecretsInv, TypeOK, CommandInv, SaveBundle, HandOut, At
<1>2. cli[p].id \in Ids /\ ~cli[p].execute /\ cli[p].timeout > 0
  BY <1>1 DEF Knows
<1>3. UNCHANGED <<clock, allow, seen, executed, vault, requests, late>>
  BY DEF SaveBundle, HandOut, vaultVars
<1>4. ASSUME NEW r \in {"error", "prepared"}, Finish(p, r), Grows
      PROVE  /\ cli' \in [Procs -> Command]
             /\ \A q \in Procs \ {p} : cli'[q] = cli[q]
             /\ Knows(p)'
  <2>1. r \in Results
    BY DEF Results
  <2> QED BY <1>1, <1>2, <1>4, <2>1, FinishSteps DEF Knows
<1>5. CASE SaveBundle(p)
  <2>1. /\ UNCHANGED prepared
        /\ \/ Finish(p, "error") /\ UNCHANGED bundles
           \/ Goto(p, "handOut") /\ bundles' = bundles \cup {cli[p].id}
    BY <1>5 DEF SaveBundle, RequestOf
  <2>2. Grows /\ WorldTypes' /\ ChainInv'
    BY <1>1, <1>2, <1>3, <2>1
       DEF Grows, WorldTypes, TypeOK, ChainInv, PreparedHasBundle
  <2>3. CASE Finish(p, "error")
    BY <1>4, <2>2, <2>3
  <2>4. CASE Goto(p, "handOut") /\ bundles' = bundles \cup {cli[p].id}
    <3>1. Continues(p, "handOut", cli[p].left) /\ cli[p].left \in 0..Attempts
          /\ "handOut" \in Phases
      BY <1>1, <2>4, GoesOn DEF Command, Phases
    <3>2. /\ cli' \in [Procs -> Command]
          /\ \A q \in Procs \ {p} : cli'[q] = cli[q]
          /\ cli'[p].phase = "handOut"
          /\ cli'[p].id = cli[p].id /\ cli'[p].timeout = cli[p].timeout
          /\ cli'[p].execute = cli[p].execute /\ cli'[p].result = cli[p].result
      BY <1>1, <3>1, ContinueSteps
    <3> QED BY <1>1, <1>2, <1>3, <2>2, <2>4, <3>2 DEF Knows
  <2> QED BY <2>1, <2>2, <2>3, <2>4
<1>6. CASE HandOut(p)
  <2>1. UNCHANGED bundles /\ cli[p].id \in bundles /\ cli[p].phase = "handOut"
    BY <1>1, <1>6 DEF HandOut, Knows, At
  <2>2. AllowTx(p) \in Transaction /\ AllowTx(p).until > 0
        /\ AllowTx(p).id = cli[p].id
    BY <1>1, <2>1, TxType
  <2>3. /\ prepared' \in {prepared, prepared \cup {AllowTx(p)}}
        /\ \E r \in {"error", "prepared"} : Finish(p, r)
    BY <1>6 DEF HandOut
  <2>4. Grows /\ WorldTypes' /\ ChainInv'
    BY <1>1, <1>3, <2>1, <2>2, <2>3
       DEF Grows, WorldTypes, TypeOK, ChainInv, PreparedHasBundle
  <2> QED BY <1>4, <2>3, <2>4
<1> QED BY <1>5, <1>6

\* The vault keeps its types and remembers what it executed.
LEMMA ExecuteSteps ==
  ASSUME SecretsCommandsAssumption, TypeOK, NEW id \in Ids, Execute(id)
  PROVE  /\ vault' \in [Keys -> 0..MaxCommands]
         /\ executed' = executed \cup {id}
<1>1. id \in 0..MaxCommands /\ 0 \in 0..MaxCommands
  BY DEF Ids, SecretsCommandsAssumption
<1> QED BY <1>1 DEF Execute, TypeOK

LEMMA PostStep ==
  ASSUME SecretsCommandsAssumption, SecretsInv, NEW p \in Procs, Post(p)
  PROVE  /\ Grows /\ WorldTypes' /\ ChainInv'
         /\ cli' \in [Procs -> Command]
         /\ \A q \in Procs \ {p} : cli'[q] = cli[q]
         /\ Knows(p)'
<1>1. /\ TypeOK /\ ChainInv /\ Knows(p) /\ cli[p].phase = "post"
      /\ cli \in [Procs -> Command] /\ cli[p] \in Command
  BY DEF SecretsInv, TypeOK, CommandInv, Post, At
<1>2. cli[p].id \in Ids /\ cli[p].left > 0 /\ cli[p].left \in 0..Attempts
      /\ allow[cli[p].id] > 0
  BY <1>1 DEF Knows, Command
<1>3. UNCHANGED <<clock, allow, seen, requests, bundles, late, prepared>>
  BY DEF Post
<1>4. /\ vault' \in [Keys -> 0..MaxCommands]
      /\ executed' \in {executed, executed \cup {cli[p].id}}
  <2>1. Execute(cli[p].id) \/ UNCHANGED vaultVars
    BY DEF Post, RequestOf
  <2>2. CASE Execute(cli[p].id)
    BY <1>1, <1>2, <2>2, ExecuteSteps
  <2>3. CASE UNCHANGED vaultVars
    BY <1>1, <2>3 DEF vaultVars, TypeOK
  <2> QED BY <2>1, <2>2, <2>3
<1>5. Grows /\ WorldTypes' /\ ChainInv'
  BY <1>1, <1>2, <1>3, <1>4
     DEF Grows, WorldTypes, TypeOK, ChainInv, PreparedHasBundle
<1>6. \/ Retry(p)
      \/ Finish(p, "error")
      \/ Finish(p, "ok") /\ cli[p].id \in executed'
  <2>1. CASE Retry(p) \/ Finish(p, "error")
    BY <2>1
  <2>2. CASE ~(Retry(p) \/ Finish(p, "error"))
    <3>1. Execute(cli[p].id) /\ Answered(p)
      BY <2>2 DEF Post, Refused, RequestOf
    <3> QED BY <1>1, <1>2, <2>2, <3>1, ExecuteSteps DEF Answered
  <2> QED BY <2>1, <2>2
<1>7. ASSUME NEW r \in {"error", "ok"}, Finish(p, r),
             r = "ok" => cli[p].id \in executed'
      PROVE  /\ cli' \in [Procs -> Command]
             /\ \A q \in Procs \ {p} : cli'[q] = cli[q]
             /\ Knows(p)'
  <2>1. r \in Results
    BY DEF Results
  <2> QED BY <1>1, <1>2, <1>7, <2>1, FinishSteps DEF Knows
<1>8. CASE Retry(p) /\ cli[p].left # 1
  <2>1. PICK left \in 0..Attempts : left = cli[p].left - 1 /\ left > 0
    <3>1. Attempts \in Nat
      BY DEF SecretsCommandsAssumption
    <3> QED BY <1>2, <1>8, <3>1
  <2>2. Continues(p, "post", left) /\ "post" \in Phases
    BY <1>1, <1>8, <2>1, GoesOn DEF Phases
  <2>3. /\ cli' \in [Procs -> Command]
        /\ \A q \in Procs \ {p} : cli'[q] = cli[q]
        /\ cli'[p].phase = "post" /\ cli'[p].left = left
        /\ cli'[p].id = cli[p].id /\ cli'[p].timeout = cli[p].timeout
        /\ cli'[p].execute = cli[p].execute /\ cli'[p].result = cli[p].result
    BY <1>1, <2>2, ContinueSteps
  <2> QED BY <1>1, <1>2, <1>3, <1>5, <2>1, <2>3 DEF Knows, Grows
<1>9. CASE Retry(p) /\ cli[p].left = 1
  BY <1>5, <1>7, <1>9 DEF Retry
<1> QED BY <1>5, <1>6, <1>7, <1>8, <1>9

\* The clock, the gateway and the transactions nobody waits for.
LEMMA OutsideStep ==
  ASSUME SecretsCommandsAssumption, SecretsInv,
         Tick \/ GatewaySync \/ MineLate \/ SubmitPrepared
  PROVE  Grows /\ WorldTypes' /\ ChainInv' /\ UNCHANGED cli
<1>1. TypeOK /\ ChainInv
  BY DEF SecretsInv
<1>2. CASE Tick
  <2>1. clock' \in 0..MaxClock
    BY <1>1, <1>2 DEF Tick, TypeOK, SecretsCommandsAssumption
  <2> QED BY <1>1, <1>2, <2>1 DEF Tick, TypeOK, ChainInv, PreparedHasBundle,
                                  Grows, WorldTypes, vaultVars
<1>3. CASE GatewaySync
  BY <1>1, <1>3 DEF GatewaySync, TypeOK, ChainInv, PreparedHasBundle,
                    Grows, WorldTypes, vaultVars
<1>4. ASSUME NEW tx \in late \cup prepared, Land(tx) \/ UNCHANGED allow,
             UNCHANGED <<clock, seen, vaultVars, requests, bundles, cli>>,
             late' \subseteq late, prepared' \subseteq prepared
      PROVE  Grows /\ WorldTypes' /\ ChainInv' /\ UNCHANGED cli
  <2>1. tx \in Transaction /\ tx.until > 0
    BY <1>1 DEF TypeOK, ChainInv
  <2>2. /\ allow' \in [Ids -> Nat]
        /\ \A id \in Ids : allow[id] > 0 => allow'[id] > 0
    BY <1>1, <1>4, <2>1, LandSteps DEF TypeOK
  <2> QED BY <1>1, <1>4, <2>2 DEF TypeOK, ChainInv, PreparedHasBundle,
                                  Grows, WorldTypes, vaultVars
<1>5. CASE MineLate
  BY <1>4, <1>5 DEF MineLate
<1>6. CASE SubmitPrepared
  BY <1>4, <1>6 DEF SubmitPrepared
<1> QED BY <1>2, <1>3, <1>5, <1>6
-----------------------------------------------------------------------------
(* The theorems *)

LEMMA InitInv == ASSUME SecretsCommandsAssumption, Init PROVE SecretsInv
<1>1. MaxClock \in Nat /\ MaxCommands \in Nat
  BY DEF SecretsCommandsAssumption
<1>2. NoRequest \in Request
  BY DEF NoRequest, Request
<1>3. TypeOK
  BY <1>1, <1>2, IdleType DEF Init, TypeOK
<1>4. CommandInv /\ ChainInv
  BY DEF Init, Idle, CommandInv, Knows, ChainInv, PreparedHasBundle
<1> QED BY <1>3, <1>4 DEF SecretsInv

LEMMA StepInv ==
  ASSUME SecretsCommandsAssumption, SecretsInv, [Next]_vars
  PROVE  SecretsInv'
<1>1. TypeOK /\ CommandInv /\ ChainInv /\ cli \in [Procs -> Command]
  BY DEF SecretsInv, TypeOK
<1>2. ASSUME NEW p \in Procs, cli' \in [Procs -> Command], Knows(p)',
             \A q \in Procs \ {p} : cli'[q] = cli[q],
             Grows, WorldTypes', ChainInv'
      PROVE  SecretsInv'
  <2>1. \A q \in Procs \ {p} : Knows(q)'
    BY <1>1, <1>2, OthersKnow DEF CommandInv
  <2> QED BY <1>2, <2>1 DEF SecretsInv, CommandInv, TypeOK, WorldTypes
<1>3. ASSUME Grows, WorldTypes', ChainInv', UNCHANGED cli
      PROVE  SecretsInv'
  <2>1. \A q \in Procs : Knows(q)'
    BY <1>1, <1>3, OthersKnow DEF CommandInv
  <2> QED BY <1>1, <1>3, <2>1 DEF SecretsInv, CommandInv, TypeOK, WorldTypes
<1>4. ASSUME NEW p \in Procs, NEW op \in Ops, NEW keys \in SUBSET Keys,
             NEW t \in Timeouts, Start(p, op, keys, t)
      PROVE  SecretsInv'
  BY <1>2, <1>4, StartStep
<1>5. ASSUME NEW p \in Procs, StartExecute(p) \/ Step(p) \/ Interrupt(p)
      PROVE  SecretsInv'
  <2>1. CASE Allow(p)
    BY <1>2, <2>1, AllowStep
  <2>2. CASE SaveBundle(p) \/ HandOut(p)
    BY <1>2, <2>2, BundleStep
  <2>3. CASE Post(p)
    BY <1>2, <2>3, PostStep
  <2>4. CASE \/ StartExecute(p) \/ NotLinked(p) \/ Connect(p) \/ Check(p)
             \/ Interrupt(p)
    BY <1>1, <1>2, <2>4, OwnLocalStep, LocalSteps
  <2> QED BY <1>5, <2>1, <2>2, <2>3, <2>4 DEF Step
<1>6. CASE Tick \/ GatewaySync \/ MineLate \/ SubmitPrepared
  BY <1>3, <1>6, OutsideStep
<1>7. CASE UNCHANGED vars
  BY <1>1, <1>3, <1>7
     DEF vars, vaultVars, TypeOK, ChainInv, PreparedHasBundle, Grows, WorldTypes
<1> QED BY <1>4, <1>5, <1>6, <1>7 DEF Next

LEMMA InvProperties ==
  SecretsInv => /\ TypeOK /\ PostedWasAllowlisted /\ PreparedHasBundle
                /\ SuccessMeansExecuted
  BY DEF SecretsInv, CommandInv, ChainInv, Knows, PostedWasAllowlisted,
         SuccessMeansExecuted, RequestOf, At

\* A request is posted only after its digest was put on the allowlist, a
\* prepared transaction has its bundle, and a success was executed.
THEOREM SecretsAreSound ==
  ASSUME SecretsCommandsAssumption
  PROVE  Spec => [](/\ TypeOK /\ PostedWasAllowlisted /\ PreparedHasBundle
                    /\ SuccessMeansExecuted)
<1>1. Init => SecretsInv
  BY InitInv
<1>2. SecretsInv /\ [Next]_vars => SecretsInv'
  BY StepInv
<1> QED BY <1>1, <1>2, InvProperties, PTL DEF Spec
===============================================================================
