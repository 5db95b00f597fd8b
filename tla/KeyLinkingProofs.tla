--------------------------- MODULE KeyLinkingProofs ---------------------------
(***************************************************************************)
(* Proofs about KeyLinking, for any number of processes, accounts and      *)
(* transactions, for every transaction type and with and without --yes.    *)
(* CommandInv is what is known at each step of one command; ChainInv is    *)
(* what the contract, the service and the transactions on their way know.  *)
(* A step of the chain keeps the former because its counters only grow     *)
(* (ChainMoves).                                                           *)
(***************************************************************************)
EXTENDS KeyLinking, TLAPS

-----------------------------------------------------------------------------
(* The inductive invariant *)

\* What is known at each step of p's command.
Knows(p) ==
  LET c == cli[p]
  IN /\ c.phase # "idle" => c.account \in Accounts
     /\ c.phase \in {"label", "linkCheck", "ownership", "askBackend", "wait"} =>
          c.op # "unlink"
     /\ c.phase \in {"initiate", "verify", "submit"} /\ c.op = "unlink" =>
          c.agreed \/ SkipConfirmation
     /\ c.phase = "wait" => c.left > 0
     /\ c.result = "passed" => c.account \in everLinked
     /\ c.phase = "submit" =>
          /\ c.checked[1] <= links /\ c.checked[2] <= clock
          /\ c.checked = <<links, clock>> => Accepts(Tx(p))

CommandInv == \A p \in Procs : Knows(p)

ChainInv ==
  /\ \A a \in {linkedTo, verified} : a # NoAccount => a \in everLinked
  /\ \A tx \in late \cup prepared : tx.op = "unlink" => tx.agreed

LinkInv == TypeOK /\ CommandInv /\ ChainInv
-----------------------------------------------------------------------------
(* Commands as records *)

\* A command whose record is replaced leaves those of the others.
LEMMA Replaces ==
  ASSUME cli \in [Procs -> Command], NEW p \in Procs, NEW c \in Command,
         cli' = [cli EXCEPT ![p] = c]
  PROVE  /\ cli' \in [Procs -> Command]
         /\ cli'[p] = c
         /\ \A q \in Procs \ {p} : cli'[q] = cli[q]
  OBVIOUS

LEMMA IdleType == ASSUME KeyLinkingAssumption PROVE Idle \in Command
  BY DEF KeyLinkingAssumption, Idle, Command, Phases, Results

LEMMA GotoSteps ==
  ASSUME cli \in [Procs -> Command], NEW p \in Procs, NEW phase \in Phases,
         Goto(p, phase)
  PROVE  /\ cli' \in [Procs -> Command]
         /\ \A q \in Procs \ {p} : cli'[q] = cli[q]
         /\ cli'[p].phase = phase
         /\ cli'[p].op = cli[p].op /\ cli'[p].account = cli[p].account
         /\ cli'[p].result = cli[p].result /\ cli'[p].agreed = cli[p].agreed
<1> DEFINE c == [cli[p] EXCEPT !.phase = phase]
<1>1. cli[p] \in Command
  OBVIOUS
<1>2. c \in Command
  BY <1>1, Zenon DEF Command
<1>3. /\ c.phase = phase /\ c.op = cli[p].op /\ c.account = cli[p].account
      /\ c.result = cli[p].result /\ c.agreed = cli[p].agreed
  BY <1>1 DEF Command
<1>4. cli' = [cli EXCEPT ![p] = c]
  BY DEF Goto
<1> HIDE DEF c
<1> QED BY <1>2, <1>3, <1>4, Replaces

LEMMA FinishSteps ==
  ASSUME cli \in [Procs -> Command], NEW p \in Procs, NEW r \in Results,
         Finish(p, r)
  PROVE  /\ cli' \in [Procs -> Command]
         /\ \A q \in Procs \ {p} : cli'[q] = cli[q]
         /\ cli'[p].phase = "done" /\ cli'[p].result = r
         /\ cli'[p].account = cli[p].account
<1> DEFINE c == [cli[p] EXCEPT !.phase = "done", !.result = r]
<1>1. cli[p] \in Command
  OBVIOUS
<1>2. c \in Command
  BY <1>1, Zenon DEF Command, Phases
<1>3. c.phase = "done" /\ c.result = r /\ c.account = cli[p].account
  BY <1>1 DEF Command
<1>4. cli' = [cli EXCEPT ![p] = c]
  BY DEF Finish
<1> HIDE DEF c
<1> QED BY <1>2, <1>3, <1>4, Replaces

\* The transaction of a command that is about to send one.
LEMMA TxType ==
  ASSUME KeyLinkingAssumption, TypeOK, NEW p \in Procs, cli[p].account \in Accounts
  PROVE  Tx(p) \in Transaction /\ (Tx(p).op = "unlink" <=> cli[p].op = "unlink")
         /\ Tx(p).agreed = (cli[p].agreed \/ SkipConfirmation)
<1>1. cli[p] \in Command
  BY DEF TypeOK
<1> QED BY <1>1 DEF Tx, Transaction, Command, KeyLinkingAssumption
-----------------------------------------------------------------------------
(* The chain *)

\* What every step leaves of the chain: nobody is unlinked from the history,
\* and the link only changes when a transaction is counted.
ChainMoves ==
  /\ everLinked \subseteq everLinked' /\ links <= links' /\ clock <= clock'
  /\ links' = links => linkedTo' = linkedTo

\* The types of all variables but the commands.
ChainTypes ==
  /\ {linkedTo, verified} \subseteq Accounts \cup {NoAccount}
  /\ clock \in 0..MaxClock /\ links \in 0..MaxLinks
  /\ everLinked \subseteq Accounts
  /\ started \in 0..MaxCommands
  /\ late \cup prepared \subseteq Transaction

LEMMA LandSteps ==
  ASSUME KeyLinkingAssumption, TypeOK, ChainInv, NEW tx \in Transaction, Land(tx),
         tx.op = "unlink" => tx.agreed, UNCHANGED <<clock, verified>>
  PROVE  /\ ChainMoves
         /\ links' \in 0..MaxLinks /\ everLinked' \subseteq Accounts
         /\ linkedTo' \in Accounts \cup {NoAccount}
         /\ \A a \in {linkedTo', verified'} : a # NoAccount => a \in everLinked'
         /\ UnlinkWasAgreed
<1>1. tx.op \in {"link", "unlink"} /\ tx.account \in Accounts
  BY DEF Transaction
<1>2. linkedTo' = (IF tx.op = "link" THEN tx.account ELSE NoAccount)
      /\ links' = links + 1 /\ links < MaxLinks /\ last' = tx
      /\ everLinked' = everLinked \cup ({linkedTo'} \ {NoAccount})
  BY DEF Land
<1>3. linkedTo' = NoAccount => tx.agreed
  BY <1>1, <1>2 DEF KeyLinkingAssumption
<1> QED BY <1>1, <1>2, <1>3
       DEF ChainMoves, ChainInv, TypeOK, UnlinkWasAgreed, KeyLinkingAssumption

\* A step of the chain takes nothing from what a command knows.
LEMMA OthersKnow ==
  ASSUME TypeOK, TypeOK', NEW q \in Procs, Knows(q), cli'[q] = cli[q], ChainMoves
  PROVE  Knows(q)'
<1>1. cli[q] \in Command
  BY DEF TypeOK
<1>2. cli[q].checked[1] \in Nat /\ cli[q].checked[2] \in Nat
      /\ cli[q].checked = <<cli[q].checked[1], cli[q].checked[2]>>
  BY <1>1 DEF Command
<1>3. links \in Nat /\ clock \in Nat /\ links' \in Nat /\ clock' \in Nat
  BY DEF TypeOK
<1>4. Tx(q)' = Tx(q)
  BY DEF Tx
<1>5. ASSUME cli[q].phase = "submit"
      PROVE  /\ cli[q].checked[1] <= links' /\ cli[q].checked[2] <= clock'
             /\ cli[q].checked = <<links', clock'>> => Accepts(Tx(q))'
  <2>1. cli[q].checked[1] <= links /\ cli[q].checked[2] <= clock
    BY <1>5 DEF Knows
  <2>2. cli[q].checked[1] <= links' /\ cli[q].checked[2] <= clock'
    BY <1>2, <1>3, <2>1 DEF ChainMoves
  <2>3. ASSUME cli[q].checked = <<links', clock'>>
        PROVE  Accepts(Tx(q))'
    <3>1. cli[q].checked[1] = links' /\ cli[q].checked[2] = clock'
      BY <2>3
    <3>2. links' = links /\ clock' = clock
      BY <1>2, <1>3, <2>1, <3>1 DEF ChainMoves
    <3>3. Accepts(Tx(q))
      BY <1>5, <2>3, <3>2 DEF Knows
    <3> QED BY <1>4, <3>2, <3>3 DEF Accepts, Linked, ChainMoves
  <2> QED BY <2>2, <2>3
<1> QED BY <1>5 DEF Knows, ChainMoves
-----------------------------------------------------------------------------
(* The commands *)

LEMMA LocalSteps ==
  ASSUME TypeOK, ChainInv, LocalStep
  PROVE  ChainMoves /\ ChainTypes' /\ ChainInv' /\ UnlinkWasAgreed
  BY DEF LocalStep, TypeOK, ChainInv, ChainMoves, ChainTypes, UnlinkWasAgreed,
         Linked, chainVars, outVars

\* What a command that linked, or found the key linked, knows after that.
LEMMA AfterLinkSteps ==
  ASSUME KeyLinkingAssumption, TypeOK, NEW p \in Procs, Knows(p), AfterLink(p),
         cli[p].phase # "idle", everLinked \subseteq everLinked'
  PROVE  /\ cli' \in [Procs -> Command]
         /\ \A q \in Procs \ {p} : cli'[q] = cli[q]
         /\ Knows(p)'
<1>1. cli \in [Procs -> Command] /\ cli[p] \in Command
      /\ cli[p].account \in Accounts
  BY DEF TypeOK, Knows
<1>2. CASE \E r \in {"ok", "halted"} : Finish(p, r)
  <2>1. PICK r \in {"ok", "halted"} : Finish(p, r)
    BY <1>2
  <2>2. r \in Results
    BY DEF Results
  <2> QED BY <1>1, <2>1, <2>2, FinishSteps DEF Knows
<1>3. CASE cli[p].op = "deploy"
           /\ cli' = [cli EXCEPT ![p].phase = "wait", ![p].left = MaxAttempts]
  <2> DEFINE c == [cli[p] EXCEPT !.phase = "wait", !.left = MaxAttempts]
  <2>1. MaxAttempts \in 0..MaxAttempts /\ MaxAttempts > 0
    BY DEF KeyLinkingAssumption
  <2>2. c \in Command
    BY <1>1, <2>1, Zenon DEF Command, Phases
  <2>3. /\ c.phase = "wait" /\ c.left = MaxAttempts /\ c.op = "deploy"
        /\ c.account = cli[p].account /\ c.result = cli[p].result
    BY <1>1, <1>3 DEF Command
  <2>4. cli' = [cli EXCEPT ![p] = c]
    BY <1>3
  <2> HIDE DEF c
  <2>5. /\ cli' \in [Procs -> Command] /\ cli'[p] = c
        /\ \A q \in Procs \ {p} : cli'[q] = cli[q]
    BY <1>1, <2>2, <2>4, Replaces
  <2> QED BY <1>1, <2>1, <2>3, <2>5 DEF Knows
<1> QED BY <1>2, <1>3 DEF AfterLink

LEMMA OwnLocalStep ==
  ASSUME KeyLinkingAssumption, LinkInv, NEW p \in Procs,
         \/ Connect(p) \/ CallFails(p) \/ Ownership(p) \/ AskBackend(p)
         \/ LinkCheck(p) \/ UnlinkCheck(p) \/ Confirm(p) \/ Initiate(p)
         \/ VerifyProof(p) \/ Poll(p)
  PROVE  /\ LocalStep
         /\ cli' \in [Procs -> Command]
         /\ \A q \in Procs \ {p} : cli'[q] = cli[q]
         /\ Knows(p)'
<1>1. /\ TypeOK /\ ChainInv /\ Knows(p)
      /\ cli \in [Procs -> Command] /\ cli[p] \in Command
  BY DEF LinkInv, TypeOK, CommandInv
<1>2. LocalStep
  BY DEF Connect, CallFails, Ownership, AskBackend, LinkCheck, UnlinkCheck,
         Confirm, Initiate, VerifyProof, Poll
<1>3. everLinked' = everLinked /\ links' = links /\ clock' = clock
      /\ linkedTo' = linkedTo
  BY <1>2 DEF LocalStep, chainVars
<1>4. ASSUME NEW r \in Results, Finish(p, r), cli[p].phase # "idle",
             r = "passed" => verified = cli[p].account
      PROVE  /\ cli' \in [Procs -> Command]
             /\ \A q \in Procs \ {p} : cli'[q] = cli[q]
             /\ Knows(p)'
  <2>1. /\ cli' \in [Procs -> Command]
        /\ \A q \in Procs \ {p} : cli'[q] = cli[q]
        /\ cli'[p].phase = "done" /\ cli'[p].result = r
        /\ cli'[p].account = cli[p].account
    BY <1>1, <1>4, FinishSteps
  <2>2. cli[p].account \in Accounts
    BY <1>1, <1>4 DEF Knows
  <2>3. r = "passed" => cli[p].account \in everLinked
    BY <1>1, <1>4, <2>2 DEF ChainInv, KeyLinkingAssumption
  <2> QED BY <1>3, <2>1, <2>2, <2>3 DEF Knows
<1>5. ASSUME NEW phase \in Phases, Goto(p, phase), cli[p].phase # "idle",
             phase \notin {"wait", "submit"},
             phase \in {"label", "linkCheck", "ownership", "askBackend"} =>
               cli[p].op # "unlink",
             phase \in {"initiate", "verify"} /\ cli[p].op = "unlink" =>
               cli[p].agreed \/ SkipConfirmation
      PROVE  /\ cli' \in [Procs -> Command]
             /\ \A q \in Procs \ {p} : cli'[q] = cli[q]
             /\ Knows(p)'
  <2>1. /\ cli' \in [Procs -> Command]
        /\ \A q \in Procs \ {p} : cli'[q] = cli[q]
        /\ cli'[p].phase = phase
        /\ cli'[p].op = cli[p].op /\ cli'[p].account = cli[p].account
        /\ cli'[p].result = cli[p].result /\ cli'[p].agreed = cli[p].agreed
    BY <1>1, <1>5, GotoSteps
  <2> QED BY <1>1, <1>3, <1>5, <2>1 DEF Knows
<1>6. CASE Connect(p)
  <2>1. /\ cli[p].phase \in {"connect", "label"}
        /\ cli[p].phase = "label" => cli[p].op # "unlink"
    BY <1>1, <1>6 DEF Connect, Knows
  <2>2. CASE Finish(p, "error")
    BY <1>2, <1>4, <2>1, <2>2 DEF Results
  <2>3. CASE ~Finish(p, "error")
    <3>1. \/ Goto(p, "linkCheck") /\ cli[p].phase = "label"
          \/ Goto(p, "ownership") /\ cli[p].op = "deploy"
          \/ Goto(p, "unlinkCheck")
      BY <1>6, <2>3 DEF Connect, At
    <3>2. {"linkCheck", "ownership", "unlinkCheck"} \subseteq Phases
      BY DEF Phases
    <3> QED BY <1>2, <1>5, <2>1, <3>1, <3>2
  <2> QED BY <2>2, <2>3
<1>7. CASE CallFails(p)
  BY <1>2, <1>4, <1>7 DEF CallFails, Results
<1>8. CASE Ownership(p)
  <2>1. (Goto(p, "askBackend") \/ Goto(p, "label")) /\ cli[p].phase = "ownership"
        /\ cli[p].op # "unlink"
    BY <1>1, <1>8 DEF Ownership, At, Knows
  <2>2. {"askBackend", "label"} \subseteq Phases
    BY DEF Phases
  <2> QED BY <1>2, <1>5, <2>1, <2>2
<1>9. CASE AskBackend(p)
  <2>1. /\ cli[p].phase = "askBackend"
        /\ \/ Finish(p, "passed") /\ verified = cli[p].account
           \/ Finish(p, "otherAccount")
    BY <1>9 DEF AskBackend, At, VerifiedFor
  <2> QED BY <1>2, <1>4, <2>1 DEF Results
<1>10. CASE LinkCheck(p)
  <2>1. (AfterLink(p) \/ Goto(p, "initiate")) /\ cli[p].phase = "linkCheck"
        /\ cli[p].op # "unlink"
    BY <1>1, <1>10 DEF LinkCheck, At, Knows
  <2>2. "initiate" \in Phases
    BY DEF Phases
  <2> QED BY <1>1, <1>2, <1>3, <1>5, <2>1, <2>2, AfterLinkSteps
<1>11. CASE UnlinkCheck(p)
  <2>1. /\ cli[p].phase = "unlinkCheck"
        /\ \/ Finish(p, "nothing") \/ Goto(p, "confirm")
           \/ Goto(p, "initiate") /\ SkipConfirmation
    BY <1>11 DEF UnlinkCheck, At
  <2>2. {"initiate", "confirm"} \subseteq Phases
    BY DEF Phases
  <2> QED BY <1>2, <1>4, <1>5, <2>1, <2>2 DEF Results
<1>12. CASE Confirm(p)
  <2>1. CASE Finish(p, "error")
    BY <1>2, <1>4, <1>12, <2>1 DEF Confirm, At, Results
  <2>2. CASE cli' = [cli EXCEPT ![p].phase = "initiate", ![p].agreed = TRUE]
    <3> DEFINE c == [cli[p] EXCEPT !.phase = "initiate", !.agreed = TRUE]
    <3>1. c \in Command
      BY <1>1, Zenon DEF Command, Phases
    <3>2. /\ c.phase = "initiate" /\ c.agreed = TRUE
          /\ c.account = cli[p].account /\ c.result = cli[p].result
      BY <1>1 DEF Command
    <3>3. cli' = [cli EXCEPT ![p] = c]
      BY <2>2
    <3> HIDE DEF c
    <3> QED BY <1>1, <1>2, <1>3, <1>12, <3>1, <3>2, <3>3, Replaces
           DEF Knows, Confirm, At
  <2> QED BY <1>12, <2>1, <2>2 DEF Confirm
<1>13. CASE Initiate(p)
  <2> DEFINE c == [cli[p] EXCEPT !.phase = "verify", !.until = clock + Validity]
  <2>1. clock + Validity \in 0..(MaxClock + Validity)
    BY <1>1 DEF TypeOK, KeyLinkingAssumption
  <2>2. c \in Command
    BY <1>1, <2>1, Zenon DEF Command, Phases
  <2>3. /\ c.phase = "verify" /\ c.op = cli[p].op /\ c.agreed = cli[p].agreed
        /\ c.account = cli[p].account /\ c.result = cli[p].result
    BY <1>1 DEF Command
  <2>4. cli' = [cli EXCEPT ![p] = c] /\ cli[p].phase = "initiate"
    BY <1>13 DEF Initiate, At
  <2> HIDE DEF c
  <2> QED BY <1>1, <1>2, <1>3, <2>2, <2>3, <2>4, Replaces DEF Knows
<1>14. CASE VerifyProof(p)
  <2>1. cli[p].phase = "verify"
    BY <1>14 DEF VerifyProof, At
  <2>2. CASE Finish(p, "error")
    BY <1>2, <1>4, <2>1, <2>2 DEF Results
  <2>3. CASE Accepts(Tx(p)) /\ cli' = [cli EXCEPT ![p].phase = "submit",
                                               ![p].checked = <<links, clock>>]
    <3> DEFINE c == [cli[p] EXCEPT !.phase = "submit", !.checked = <<links, clock>>]
    <3>1. <<links, clock>> \in (0..MaxLinks) \X (0..MaxClock)
      BY <1>1 DEF TypeOK
    <3>2. c \in Command
      BY <1>1, <3>1, Zenon DEF Command, Phases
    <3>3. /\ c.phase = "submit" /\ c.op = cli[p].op /\ c.agreed = cli[p].agreed
          /\ c.account = cli[p].account /\ c.result = cli[p].result
          /\ c.until = cli[p].until /\ c.checked = <<links, clock>>
      BY <1>1 DEF Command
    <3>4. cli' = [cli EXCEPT ![p] = c]
      BY <2>3
    <3> HIDE DEF c
    <3>5. /\ cli' \in [Procs -> Command] /\ cli'[p] = c
          /\ \A q \in Procs \ {p} : cli'[q] = cli[q]
      BY <1>1, <3>2, <3>4, Replaces
    <3>6. Accepts(Tx(p))'
      <4>1. Tx(p)' = Tx(p)
        BY <3>3, <3>5 DEF Tx
      <4> QED BY <1>3, <2>3, <4>1 DEF Accepts, Linked
    <3>7. /\ c.checked[1] <= links /\ c.checked[2] <= clock
      <4>1. links \in Nat /\ clock \in Nat
        BY <1>1 DEF TypeOK
      <4> QED BY <3>3, <4>1
    <3>8. /\ c.phase # "idle" /\ c.account \in Accounts
          /\ c.op = "unlink" => c.agreed \/ SkipConfirmation
          /\ c.result = "passed" => c.account \in everLinked'
      BY <1>1, <1>3, <2>1, <3>3 DEF Knows
    <3>9. Knows(p)'
      BY <1>3, <3>3, <3>5, <3>6, <3>7, <3>8 DEF Knows
    <3> QED BY <1>2, <3>5, <3>9
  <2> QED BY <1>14, <2>2, <2>3 DEF VerifyProof, ProofHolds
<1>15. CASE Poll(p)
  <2>1. cli[p].phase = "wait" /\ cli[p].left > 0 /\ cli[p].left \in 0..MaxAttempts
        /\ cli[p].op # "unlink" /\ cli[p].account \in Accounts
    BY <1>1, <1>15 DEF Poll, At, Knows, Command
  <2>2. CASE VerifiedFor(cli[p].account) /\ Finish(p, "passed")
    BY <1>2, <1>4, <2>1, <2>2 DEF VerifiedFor, Results
  <2>3. CASE Finish(p, "error")
    BY <1>2, <1>4, <2>1, <2>3 DEF Results
  <2>4. CASE cli[p].left # 1 /\ cli' = [cli EXCEPT ![p].left = cli[p].left - 1]
    <3> DEFINE c == [cli[p] EXCEPT !.left = cli[p].left - 1]
    <3>1. cli[p].left - 1 \in 0..MaxAttempts /\ cli[p].left - 1 > 0
      BY <2>1, <2>4 DEF KeyLinkingAssumption
    <3>2. c \in Command
      BY <1>1, <3>1, Zenon DEF Command
    <3>3. /\ c.phase = cli[p].phase /\ c.op = cli[p].op
          /\ c.account = cli[p].account /\ c.result = cli[p].result
          /\ c.left = cli[p].left - 1
      BY <1>1 DEF Command
    <3>4. cli' = [cli EXCEPT ![p] = c]
      BY <2>4
    <3> HIDE DEF c
    <3>5. /\ cli' \in [Procs -> Command] /\ cli'[p] = c
          /\ \A q \in Procs \ {p} : cli'[q] = cli[q]
      BY <1>1, <3>2, <3>4, Replaces
    <3> QED BY <1>1, <1>2, <1>3, <2>1, <3>1, <3>3, <3>5 DEF Knows
  <2> QED BY <1>15, <2>2, <2>3, <2>4 DEF Poll, Another
<1> QED BY <1>6, <1>7, <1>8, <1>9, <1>10, <1>11, <1>12, <1>13, <1>14, <1>15

LEMMA SubmitStep ==
  ASSUME KeyLinkingAssumption, LinkInv, NEW p \in Procs, Submit(p)
  PROVE  /\ ChainMoves /\ ChainTypes' /\ ChainInv' /\ UnlinkWasAgreed
         /\ cli' \in [Procs -> Command]
         /\ \A q \in Procs \ {p} : cli'[q] = cli[q]
         /\ Knows(p)'
<1>1. /\ TypeOK /\ ChainInv /\ Knows(p) /\ cli[p].phase = "submit"
      /\ cli \in [Procs -> Command] /\ cli[p].account \in Accounts
  BY DEF LinkInv, TypeOK, CommandInv, Submit, At, Knows
<1>2. Tx(p) \in Transaction /\ (Tx(p).op = "unlink" => Tx(p).agreed)
  BY <1>1, TxType DEF Knows
<1>3. PICK r \in TxResults(Type, SkipConfirmation, Accepts(Tx(p)), TRUE) :
        /\ IF Landed(r) THEN Land(Tx(p)) ELSE UNCHANGED chainVars
        /\ late' = IF r = "timedOut" THEN late \cup {Tx(p)} ELSE late
        /\ IF Succeeded(r)
           THEN \/ /\ prepared' = prepared \cup
                                    IF r = "prepared" THEN {Tx(p)} ELSE {}
                   /\ AfterLink(p)
                \/ r = "prepared" /\ Finish(p, "error") /\ UNCHANGED prepared
           ELSE Finish(p, "error") /\ UNCHANGED prepared
  BY DEF Submit
<1>4. UNCHANGED <<verified, clock, started>>
  BY DEF Submit
<1>5. /\ late' \cup prepared' \subseteq Transaction
      /\ \A tx \in late' \cup prepared' : tx.op = "unlink" => tx.agreed
  BY <1>1, <1>2, <1>3 DEF TypeOK, ChainInv
<1>6. /\ ChainMoves /\ UnlinkWasAgreed
      /\ links' \in 0..MaxLinks /\ everLinked' \subseteq Accounts
      /\ linkedTo' \in Accounts \cup {NoAccount}
      /\ \A a \in {linkedTo', verified'} : a # NoAccount => a \in everLinked'
  <2>1. CASE Land(Tx(p))
    BY <1>1, <1>2, <1>4, <2>1, LandSteps
  <2>2. CASE UNCHANGED chainVars
    BY <1>1, <1>4, <2>2
       DEF chainVars, ChainMoves, UnlinkWasAgreed, TypeOK, ChainInv, Linked
  <2> QED BY <1>3, <2>1, <2>2
<1>7. /\ cli' \in [Procs -> Command]
      /\ \A q \in Procs \ {p} : cli'[q] = cli[q]
      /\ Knows(p)'
  <2>1. CASE Finish(p, "error")
    BY <1>1, <2>1, FinishSteps DEF Knows, Results
  <2>2. CASE AfterLink(p)
    BY <1>1, <1>6, <2>2, AfterLinkSteps DEF ChainMoves
  <2> QED BY <1>3, <2>1, <2>2
<1> QED BY <1>1, <1>4, <1>5, <1>6, <1>7 DEF ChainTypes, ChainInv, TypeOK
-----------------------------------------------------------------------------
(* The theorems *)

LEMMA InitInv == ASSUME KeyLinkingAssumption, Init PROVE LinkInv
<1>1. TypeOK
  BY IdleType DEF KeyLinkingAssumption, Init, TypeOK
<1>2. CommandInv /\ ChainInv
  BY DEF Init, Idle, CommandInv, Knows, ChainInv
<1> QED BY <1>1, <1>2 DEF LinkInv

LEMMA StartStep ==
  ASSUME KeyLinkingAssumption, LinkInv, NEW p \in Procs, NEW a \in Accounts,
         StartLink(p, a) \/ StartUnlink(p, a) \/ StartDeploy(p, a)
  PROVE  /\ ChainMoves /\ ChainTypes' /\ ChainInv' /\ UnlinkWasAgreed
         /\ cli' \in [Procs -> Command]
         /\ \A q \in Procs \ {p} : cli'[q] = cli[q]
         /\ Knows(p)'
<1>1. PICK op \in {"link", "unlink", "deploy"}, phase \in {"label", "connect"} :
        (phase = "label" => op = "link") /\ Start(p, op, phase, a)
  BY DEF StartLink, StartUnlink, StartDeploy
<1> DEFINE c == [Idle EXCEPT !.op = op, !.phase = phase, !.account = a]
<1>2. c \in Command
  BY IdleType, Zenon DEF Command, Phases
<1>3. c.phase = phase /\ c.op = op /\ c.account = a /\ c.result = "none"
  BY DEF Idle
<1>4. cli' = [cli EXCEPT ![p] = c]
  BY <1>1 DEF Start
<1> HIDE DEF c
<1>5. cli \in [Procs -> Command]
  BY DEF LinkInv, TypeOK
<1>6. UNCHANGED <<chainVars, verified, clock, outVars>>
      /\ started' \in 0..MaxCommands
  BY <1>1 DEF Start, LinkInv, TypeOK, KeyLinkingAssumption
<1>7. ChainMoves /\ ChainTypes' /\ ChainInv' /\ UnlinkWasAgreed
  BY <1>6 DEF LinkInv, TypeOK, ChainInv, ChainMoves, ChainTypes,
              UnlinkWasAgreed, Linked, chainVars, outVars
<1> QED BY <1>1, <1>2, <1>3, <1>4, <1>5, <1>7, Replaces DEF Knows

\* The service, the clock and the transactions nobody waits for.
LEMMA OutsideStep ==
  ASSUME KeyLinkingAssumption, LinkInv,
         BackendSync \/ Tick \/ MineLate \/ SubmitPrepared
  PROVE  ChainMoves /\ ChainTypes' /\ ChainInv' /\ UnlinkWasAgreed
         /\ UNCHANGED cli
<1>1. TypeOK /\ ChainInv
  BY DEF LinkInv
<1>2. CASE BackendSync
  BY <1>1, <1>2 DEF BackendSync, TypeOK, ChainInv, ChainMoves, ChainTypes,
                    UnlinkWasAgreed, Linked, chainVars, outVars
<1>3. CASE Tick
  BY <1>1, <1>3 DEF Tick, TypeOK, ChainInv, ChainMoves, ChainTypes,
                    UnlinkWasAgreed, Linked, chainVars, outVars,
                    KeyLinkingAssumption
<1>4. ASSUME NEW tx \in late \cup prepared,
             Land(tx) \/ UNCHANGED chainVars,
             UNCHANGED <<verified, clock, cli, started>>,
             late' \subseteq late, prepared' \subseteq prepared
      PROVE  ChainMoves /\ ChainTypes' /\ ChainInv' /\ UnlinkWasAgreed
             /\ UNCHANGED cli
  <2>1. tx \in Transaction /\ (tx.op = "unlink" => tx.agreed)
    BY <1>1 DEF TypeOK, ChainInv
  <2>2. /\ late' \cup prepared' \subseteq Transaction
        /\ \A t \in late' \cup prepared' : t.op = "unlink" => t.agreed
    BY <1>1, <1>4 DEF TypeOK, ChainInv
  <2>3. CASE Land(tx)
    BY <1>1, <1>4, <2>1, <2>2, <2>3, LandSteps DEF TypeOK, ChainTypes, ChainInv
  <2>4. CASE UNCHANGED chainVars
    BY <1>1, <1>4, <2>2, <2>4 DEF TypeOK, ChainInv, ChainMoves, ChainTypes,
                              UnlinkWasAgreed, Linked, chainVars
  <2> QED BY <1>4, <2>3, <2>4
<1>5. CASE MineLate
  BY <1>4, <1>5 DEF MineLate
<1>6. CASE SubmitPrepared
  BY <1>4, <1>6 DEF SubmitPrepared
<1> QED BY <1>2, <1>3, <1>5, <1>6

LEMMA StepInv ==
  ASSUME KeyLinkingAssumption, LinkInv, [Next]_vars
  PROVE  LinkInv' /\ UnlinkWasAgreed
<1>1. TypeOK /\ CommandInv /\ ChainInv /\ cli \in [Procs -> Command]
  BY DEF LinkInv, TypeOK
<1>2. ASSUME NEW p \in Procs, cli' \in [Procs -> Command], Knows(p)',
             \A q \in Procs \ {p} : cli'[q] = cli[q],
             ChainMoves, ChainTypes', ChainInv', UnlinkWasAgreed
      PROVE  LinkInv' /\ UnlinkWasAgreed
  <2>1. TypeOK'
    BY <1>2 DEF TypeOK, ChainTypes
  <2>2. \A q \in Procs \ {p} : Knows(q)'
    BY <1>1, <1>2, <2>1, OthersKnow DEF CommandInv
  <2> QED BY <1>2, <2>1, <2>2 DEF LinkInv, CommandInv
<1>3. ASSUME ChainMoves, ChainTypes', ChainInv', UnlinkWasAgreed, UNCHANGED cli
      PROVE  LinkInv' /\ UnlinkWasAgreed
  <2>1. TypeOK'
    BY <1>1, <1>3 DEF TypeOK, ChainTypes
  <2>2. \A q \in Procs : Knows(q)'
    BY <1>1, <1>3, <2>1, OthersKnow DEF CommandInv
  <2> QED BY <1>3, <2>1, <2>2 DEF LinkInv, CommandInv
<1>4. ASSUME NEW p \in Procs, NEW a \in Accounts,
             StartLink(p, a) \/ StartUnlink(p, a) \/ StartDeploy(p, a)
      PROVE  LinkInv' /\ UnlinkWasAgreed
  BY <1>2, <1>4, StartStep
<1>5. ASSUME NEW p \in Procs, Submit(p)
      PROVE  LinkInv' /\ UnlinkWasAgreed
  BY <1>2, <1>5, SubmitStep
<1>6. ASSUME NEW p \in Procs, Step(p), ~Submit(p)
      PROVE  LinkInv' /\ UnlinkWasAgreed
  <2>1. /\ LocalStep /\ cli' \in [Procs -> Command] /\ Knows(p)'
        /\ \A q \in Procs \ {p} : cli'[q] = cli[q]
    BY <1>6, OwnLocalStep DEF Step
  <2> QED BY <1>1, <1>2, <2>1, LocalSteps
<1>7. CASE BackendSync \/ Tick \/ MineLate \/ SubmitPrepared
  BY <1>3, <1>7, OutsideStep
<1>8. CASE UNCHANGED vars
  <2>1. ChainMoves /\ ChainTypes' /\ ChainInv' /\ UnlinkWasAgreed
        /\ UNCHANGED cli
    BY <1>1, <1>8 DEF vars, TypeOK, ChainInv, ChainMoves, ChainTypes,
                      UnlinkWasAgreed, Linked, chainVars, outVars
  <2> QED BY <1>3, <2>1
<1> QED BY <1>4, <1>5, <1>6, <1>7, <1>8 DEF Next

LEMMA InvProperties ==
  LinkInv => TypeOK /\ PassedWasLinked /\ CheckedIsAccepted
<1>1. LinkInv => PassedWasLinked
  BY DEF LinkInv, CommandInv, Knows, PassedWasLinked
<1>2. LinkInv => CheckedIsAccepted
  BY DEF LinkInv, CommandInv, Knows, CheckedIsAccepted, At
<1> QED BY <1>1, <1>2 DEF LinkInv

LEMMA Invariant == ASSUME KeyLinkingAssumption PROVE Spec => []LinkInv
<1>1. Init => LinkInv
  BY InitInv
<1>2. LinkInv /\ [Next]_vars => LinkInv'
  BY StepInv
<1> QED BY <1>1, <1>2, PTL DEF Spec

\* A deploy gets past the ownership phase only for an account the key was
\* linked to, and what a command checked against the contract is accepted
\* unless the clock moved or a transaction landed since.
THEOREM OwnershipIsSound ==
  ASSUME KeyLinkingAssumption
  PROVE  Spec => [](TypeOK /\ PassedWasLinked /\ CheckedIsAccepted)
  BY Invariant, InvProperties, PTL

\* A key is unlinked only by a transaction whose user agreed to it.
THEOREM UnlinksAreAgreed ==
  ASSUME KeyLinkingAssumption
  PROVE  Spec => [][UnlinkWasAgreed]_vars
<1>1. LinkInv /\ [Next]_vars => [UnlinkWasAgreed]_vars
  BY StepInv
<1> QED BY <1>1, Invariant, PTL DEF Spec
===============================================================================
