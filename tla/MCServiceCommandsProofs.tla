------------------------ MODULE MCServiceCommandsProofs -----------------------
(***************************************************************************)
(* The properties of the commands that wait for a service, as their run    *)
(* checks them, proved from those of the groups.  The tool runs one group  *)
(* for the whole of a behaviour, and a step of the tool is a step of that  *)
(* group.  The groups that link keys and keep secrets run with several     *)
(* flags: each is proved about in a module of its own, for all of them.    *)
(* The groups that build workflows, log in and simulate run in one way,    *)
(* and their inductive invariants are stated and proved here.              *)
(***************************************************************************)
EXTENDS MCServiceCommands, Sequences, TLAPS, FiniteSetTheorems, WellFoundedInduction

-----------------------------------------------------------------------------
(* Steps of the tool *)

\* One group of commands runs for the whole of a behaviour.
LEMMA ConfigStays == [Next]_vars => config' = config
  BY DEF Next, Others, vars

LEMMA BuildSteps ==
  ASSUME On("build"), [Next]_vars PROVE [Build!Next]_(Build!vars)
  BY DEF On, Next, vars, buildVars, Build!vars, Build!files
LEMMA LinkSteps ==
  ASSUME On("link"), [Next]_vars PROVE [Link!Next]_(Link!vars)
  BY DEF On, Next, vars, linkVars, Link!vars, Link!chainVars, Link!outVars
LEMMA LinkMsigSteps ==
  ASSUME On("linkMsig"), [Next]_vars PROVE [LinkMsig!Next]_(LinkMsig!vars)
  BY DEF On, Next, vars, linkVars, LinkMsig!vars, LinkMsig!chainVars,
         LinkMsig!outVars
LEMMA SecretsSteps ==
  ASSUME On("secrets"), [Next]_vars PROVE [Secrets!Next]_(Secrets!vars)
  BY DEF On, Next, vars, secretsVars, Secrets!vars, Secrets!vaultVars
LEMMA SecretsMsigSteps ==
  ASSUME On("secretsMsig"), [Next]_vars
  PROVE  [SecretsMsig!Next]_(SecretsMsig!vars)
  BY DEF On, Next, vars, secretsVars, SecretsMsig!vars, SecretsMsig!vaultVars
-----------------------------------------------------------------------------
(* Induction on the natural numbers, over sets *)

\* A set of natural numbers has an element below which none of its elements is.
LEMMA MinimalOf ==
  ASSUME NEW R, IsWellFoundedOn(R, Nat), NEW T, T \subseteq Nat, T # {}
  PROVE  \E m \in T : \A k \in T : ~(<<k, m>> \in R)
  BY WFMin, ZenonT(60)

LEMMA LeastOf ==
  ASSUME NEW R, IsWellFoundedOn(R, Nat),
         \A a, b \in Nat : a < b => <<a, b>> \in R,
         NEW T, T \subseteq Nat, T # {}
  PROVE  \E m \in T : \A k \in T : m <= k
<1>1. PICK x \in T : \A y \in T : ~(<<y, x>> \in R)
  BY MinimalOf, ZenonT(60)
<1>2. \A y \in T : ~(y < x)
  BY <1>1
<1>3. \A y \in T : x <= y
  BY <1>2
<1> QED BY <1>3

LEMMA LeastNumber ==
  ASSUME NEW T, T \subseteq Nat, T # {}
  PROVE  \E m \in T : \A k \in T : m <= k
<1>1. IsWellFoundedOn(OpToRel(<, Nat), Nat)
  BY NatLessThanWellFounded
<1>2. \A a, b \in Nat : a < b => <<a, b>> \in OpToRel(<, Nat)
  BY DEF OpToRel
<1> QED BY <1>1, <1>2, LeastOf

\* A set with 0 and the successors of its numbers holds all of them.
LEMMA AllNumbers ==
  ASSUME NEW S, 0 \in S, \A n \in Nat : n \in S => n + 1 \in S
  PROVE  \A n \in Nat : n \in S
<1>1. SUFFICES ASSUME Nat \ S # {} PROVE FALSE
  OBVIOUS
<1>2. PICK m \in Nat \ S : \A k \in Nat \ S : m <= k
  BY <1>1, LeastNumber
<1>3. m - 1 \in Nat /\ (m - 1) + 1 = m
  BY <1>2
<1>4. m - 1 \in S
  BY <1>2, <1>3
<1> QED BY <1>2, <1>3, <1>4
-----------------------------------------------------------------------------
(* Building and uploading a workflow *)

\* A deploy that went on without its history: what Touch leaves of c.
SameButShared(c, d) ==
  /\ d.phase = c.phase /\ d.built = c.built /\ d.packed = c.packed
  /\ d.id = c.id /\ d.kind = c.kind /\ d.left = c.left
  /\ c.shared => d.shared

\* None is not a version.
LEMMA NoneIsNoVersion ==
  ASSUME Build!WorkflowBuildAssumption PROVE Build!None \notin Build!Versions
  BY DEF Build!WorkflowBuildAssumption, Build!None, Build!Versions

LEMMA IdleType == ASSUME Build!WorkflowBuildAssumption PROVE Build!Idle \in Build!Process
  BY
     DEF Build!WorkflowBuildAssumption, Build!Idle, Build!Process,
         Build!Phases, Build!FileContents, Build!Results

\* Touch gives p its new record and marks whoever builds at the same time.
LEMMA TouchSteps ==
  ASSUME proc \in [Procs -> Build!Process], NEW p \in Procs, NEW new \in Build!Process,
         Build!Touch(p, new)
  PROVE  /\ proc' \in [Procs -> Build!Process]
         /\ SameButShared(new, proc'[p])
         /\ \A q \in Procs \ {p} :
              /\ SameButShared(proc[q], proc'[q])
              /\ proc[q].phase \in Build!Building => proc'[q].shared
<1> DEFINE busy == {q \in Procs \ {p} : proc[q].phase \in Build!Building}
<1> DEFINE own == [new EXCEPT !.shared = new.shared \/ busy # {}]
<1> DEFINE others(q) ==
      [proc[q] EXCEPT !.shared = proc[q].shared \/ q \in busy]
<1>1. proc' = [q \in Procs |-> IF q = p THEN own ELSE others(q)]
  BY DEF Build!Touch
<1>2. own \in Build!Process
  BY Zenon DEF Build!Process
<1>3. \A q \in Procs : others(q) \in Build!Process
  <2> TAKE q \in Procs
  <2>1. proc[q] \in Build!Process
    OBVIOUS
  <2> QED BY <2>1, Zenon DEF Build!Process
<1>4. SameButShared(new, own)
  BY SMT DEF SameButShared, Build!Process
<1>5. \A q \in Procs \ {p} :
        /\ SameButShared(proc[q], others(q))
        /\ proc[q].phase \in Build!Building => others(q).shared
  <2> TAKE q \in Procs \ {p}
  <2>1. PICK c : c = proc[q] /\ c \in Build!Process
    OBVIOUS
  <2>2. PICK b \in BOOLEAN : b = (c.shared \/ q \in busy)
    BY <2>1 DEF Build!Process
  <2>3. /\ SameButShared(c, [c EXCEPT !.shared = b])
        /\ [c EXCEPT !.shared = b].shared = b
    BY <2>1, <2>2, SMT DEF SameButShared, Build!Process
  <2>4. others(q) = [c EXCEPT !.shared = b]
    BY <2>1, <2>2
  <2>5. proc[q].phase \in Build!Building => b
    BY <2>2
  <2> QED BY <2>1, <2>3, <2>4, <2>5
<1> HIDE DEF own, others
<1> QED BY <1>1, <1>2, <1>3, <1>4, <1>5
Uploads == {"postUrl", "post", "getUrl"}

\* What storage holds at each step of p's upload.
UploadKnows(p) ==
  LET id == proc[p].id
      kind == proc[p].kind
  IN /\ proc[p].phase \in Uploads \cup {"check", "upsert"} => id \in Build!Versions
     /\ proc[p].phase \in Uploads =>
          /\ proc[p].left > 0 /\ kind \in Build!Kinds
          /\ kind = "CONFIG" => <<"BINARY", id, id>> \in stored
     /\ Build!At(p, "getUrl") => <<kind, id, id>> \in stored
     /\ Build!At(p, "upsert") => \A k \in Build!Kinds : <<k, id, id>> \in stored

UploadInv ==
  /\ Build!TypeOK
  /\ Build!StoredMatchesId
  /\ Build!RegisteredHasArtifacts
  /\ \A p \in Procs : UploadKnows(p)

\* What the shared files hold at each step of a build nobody disturbed; the
\* id comes after it.
UndisturbedBuild(p) ==
  /\ proc[p].phase \in Build!Building \cup {"build"} => proc[p].id = Build!None
  /\ ~proc[p].shared =>
       /\ Build!At(p, "readTmp") => tmp = proc[p].built
       /\ Build!At(p, "writeOut") => proc[p].packed = proc[p].built
       /\ Build!At(p, "removeTmp") => out = proc[p].built
       /\ Build!At(p, "readOut") => out = proc[p].built
       /\ proc[p].id # Build!None => proc[p].id = proc[p].built

SoloInv == Build!TypeOK /\ \A p \in Procs : UndisturbedBuild(p)
LEMMA InitUpload == ASSUME Build!WorkflowBuildAssumption, Build!Init PROVE UploadInv
<1>1. Build!TypeOK
  BY IdleType
     DEF Build!WorkflowBuildAssumption, Build!Init, Build!TypeOK,
         Build!Versions, Build!None, Build!FileContents
<1>2. \A p \in Procs : UploadKnows(p)
  BY DEF Build!Init, Build!Idle, UploadKnows, Uploads, Build!At
<1> QED BY <1>1, <1>2
   DEF UploadInv, Build!Init, Build!StoredMatchesId,
       Build!RegisteredHasArtifacts

LEMMA InitSolo == ASSUME Build!WorkflowBuildAssumption, Build!Init PROVE SoloInv
<1>1. \A p \in Procs : UndisturbedBuild(p)
  BY DEF Build!Init, Build!Idle, UndisturbedBuild, Build!At
<1> QED BY <1>1, InitUpload DEF SoloInv, UploadInv
(* What the steps of one deploy do to the records *)

\* A deploy whose record is replaced leaves those of the others.
LEMMA Replaces ==
  ASSUME proc \in [Procs -> Build!Process], NEW p \in Procs, NEW c \in Build!Process,
         proc' = [proc EXCEPT ![p] = c]
  PROVE  /\ proc' \in [Procs -> Build!Process]
         /\ \A q \in Procs \ {p} : SameButShared(proc[q], proc'[q])
  BY DEF SameButShared

LEMMA FinishSteps ==
  ASSUME proc \in [Procs -> Build!Process], NEW p \in Procs, NEW r \in Build!Results,
         Build!Finish(p, r)
  PROVE  /\ proc' \in [Procs -> Build!Process]
         /\ \A q \in Procs \ {p} : SameButShared(proc[q], proc'[q])
         /\ proc'[p].phase = "done" /\ proc'[p].id = proc[p].id
         /\ proc'[p].built = proc[p].built /\ proc'[p].shared = proc[p].shared
<1>1. [proc[p] EXCEPT !.phase = "done", !.result = r] \in Build!Process
  <2>1. proc[p] \in Build!Process
    OBVIOUS
  <2> QED BY <2>1, Zenon DEF Build!Process, Build!Phases
<1>2. proc'[p].phase = "done" /\ proc'[p].id = proc[p].id
      /\ proc'[p].built = proc[p].built /\ proc'[p].shared = proc[p].shared
  BY SMT DEF Build!Finish
<1> QED BY <1>1, <1>2, Replaces DEF Build!Finish

\* The steps of an upload count attempts and choose the next call.
Calls(p, phase, kind, left) ==
  proc' = [proc EXCEPT ![p].phase = phase, ![p].kind = kind, ![p].left = left]

LEMMA UploadSteps ==
  ASSUME Build!WorkflowBuildAssumption,
         proc \in [Procs -> Build!Process], NEW p \in Procs, NEW phase \in Build!Phases,
         NEW kind \in {"BINARY", "CONFIG"}, NEW left \in 0..Attempts,
         Calls(p, phase, kind, left)
  PROVE  /\ proc' \in [Procs -> Build!Process]
         /\ \A q \in Procs \ {p} : SameButShared(proc[q], proc'[q])
         /\ proc'[p].phase = phase /\ proc'[p].kind = kind
         /\ proc'[p].left = left /\ proc'[p].id = proc[p].id
         /\ proc'[p].built = proc[p].built /\ proc'[p].shared = proc[p].shared
<1> USE DEF Calls
<1> DEFINE c == [proc[p] EXCEPT !.phase = phase, !.kind = kind, !.left = left]
<1>1. c \in Build!Process /\ proc' = [proc EXCEPT ![p] = c]
  <2>1. proc[p] \in Build!Process
    OBVIOUS
  <2> QED BY <2>1, Zenon DEF Build!Process
<1>2. /\ proc'[p].phase = phase /\ proc'[p].kind = kind
      /\ proc'[p].left = left /\ proc'[p].id = proc[p].id
      /\ proc'[p].built = proc[p].built /\ proc'[p].shared = proc[p].shared
  BY SMT
<1> HIDE DEF c
<1> QED BY <1>1, <1>2, Replaces

\* NextCall, Retry and Goto are such steps.
LEMMA CallsAreUploadSteps ==
  ASSUME proc \in [Procs -> Build!Process], NEW p \in Procs, NEW phase
  PROVE  /\ Build!NextCall(p, phase) => Calls(p, phase, proc[p].kind, Attempts)
         /\ Build!Goto(p, phase) => Calls(p, phase, proc[p].kind, proc[p].left)
         /\ proc[p].left # 1 /\ Build!Retry(p) =>
              Calls(p, proc[p].phase, proc[p].kind, proc[p].left - 1)
  BY DEF Build!NextCall, Build!Goto, Build!Retry, Calls
(* Every deploy keeps the types, and no step of one changes another's record *)

LEMMA StepProcess ==
  ASSUME Build!WorkflowBuildAssumption, UploadInv, NEW p \in Procs,
         Build!Start(p) \/ Build!Deploy(p) \/ Build!Interrupt(p)
  PROVE  /\ Build!TypeOK'
         /\ \A q \in Procs \ {p} : SameButShared(proc[q], proc'[q])
<1> USE DEF UploadInv, Build!TypeOK, Build!files
<1>1. CASE Build!Start(p)
  <2> DEFINE c == [Build!Idle EXCEPT !.phase = "build"]
  <2>1. c \in Build!Process
    <3>1. Build!Idle \in Build!Process
      BY IdleType
    <3> QED BY <3>1, Zenon DEF Build!Process, Build!Phases
  <2>2. proc' = [proc EXCEPT ![p] = c]
    BY <1>1 DEF Build!Start
  <2>3. runs' \in 0..MaxRuns
    BY <1>1 DEF Build!Start, Build!WorkflowBuildAssumption
  <2> HIDE DEF c
  <2> QED BY <1>1, <2>1, <2>2, <2>3, Replaces DEF Build!Start
<1>2. CASE Build!BuildFails(p)
  BY <1>2, FinishSteps DEF Build!BuildFails, Build!Results
<1>3. CASE Build!Build(p)
  <2>1. [proc[p] EXCEPT !.phase = "readTmp", !.built = source] \in Build!Process
    <3>1. proc[p] \in Build!Process /\ source \in Build!FileContents
      BY DEF Build!FileContents
    <3> QED BY <3>1, Zenon DEF Build!Process, Build!Phases, Build!Building
  <2> QED BY <1>3, <2>1, TouchSteps DEF Build!Build, Build!FileContents
<1>4. CASE Build!ReadTmp(p)
  <2>1. [proc[p] EXCEPT !.phase = "writeOut", !.packed = tmp] \in Build!Process
    <3>1. proc[p] \in Build!Process
      OBVIOUS
    <3> QED BY <3>1, Zenon DEF Build!Process, Build!Phases, Build!Building
  <2> QED BY <1>4, <2>1, TouchSteps, FinishSteps
     DEF Build!ReadTmp, Build!Results
<1>5. CASE Build!WriteOut(p)
  <2>1. proc[p] \in Build!Process /\ proc[p].packed \in Build!FileContents
    BY DEF Build!Process
  <2>2. [proc[p] EXCEPT !.phase = "removeTmp"] \in Build!Process
    BY <2>1, Zenon DEF Build!Process, Build!Phases, Build!Building
  <2> QED BY <1>5, <2>1, <2>2, TouchSteps, FinishSteps
     DEF Build!WriteOut, Build!Results
<1>6. CASE Build!RemoveTmp(p)
  <2>1. [proc[p] EXCEPT !.phase = "readOut"] \in Build!Process
    <3>1. proc[p] \in Build!Process
      OBVIOUS
    <3> QED BY <3>1, Zenon DEF Build!Process, Build!Phases, Build!Building
  <2> QED BY <1>6, <2>1, TouchSteps, FinishSteps
     DEF Build!RemoveTmp, Build!Results, Build!FileContents
<1>7. CASE Build!ReadOut(p)
  <2>1. [proc[p] EXCEPT !.phase = "check", !.id = out] \in Build!Process
    <3>1. proc[p] \in Build!Process
      OBVIOUS
    <3> QED BY <3>1, Zenon DEF Build!Process, Build!Phases
  <2> QED BY <1>7, <2>1, TouchSteps, FinishSteps
     DEF Build!ReadOut, Build!Results
<1> USE DEF Build!Phases, Build!Results, Build!WorkflowBuildAssumption
<1>8. CASE Build!Check(p)
  <2>1. Build!Finish(p, "error") \/ Calls(p, "postUrl", "BINARY", Attempts)
    BY <1>8 DEF Build!Check, Calls
  <2>2. Attempts \in 0..Attempts
    OBVIOUS
  <2>3. proc' \in [Procs -> Build!Process]
        /\ \A q \in Procs \ {p} : SameButShared(proc[q], proc'[q])
    BY <2>1, <2>2, UploadSteps, FinishSteps
  <2> QED BY <1>8, <2>3 DEF Build!Check
<1>9. proc[p].kind \in {"BINARY", "CONFIG"} /\ proc[p].left \in 0..Attempts
      /\ proc[p].phase \in Build!Phases
  BY DEF Build!Process
<1>10. ASSUME proc[p].phase \in Uploads
       PROVE  /\ proc[p].left > 0 /\ proc[p].kind \in Build!Kinds
              /\ proc[p].id \in Build!Versions
  BY <1>10 DEF UploadKnows
<1>11. ASSUME proc[p].phase \in Uploads, Build!Retry(p)
       PROVE  /\ proc' \in [Procs -> Build!Process]
              /\ \A q \in Procs \ {p} : SameButShared(proc[q], proc'[q])
  <2>1. CASE proc[p].left = 1
    BY <1>11, <2>1, FinishSteps DEF Build!Retry
  <2>2. CASE proc[p].left # 1
    <3>1. PICK n \in 0..Attempts : n = proc[p].left - 1
      BY <1>9, <1>10, <1>11, <2>2
    <3>2. Calls(p, proc[p].phase, proc[p].kind, n)
      BY <1>11, <2>2, <3>1, CallsAreUploadSteps
    <3> HIDE DEF Build!Phases, UploadInv, Build!TypeOK, Build!WorkflowBuildAssumption
    <3> QED BY <1>9, <3>2, UploadSteps DEF UploadInv, Build!TypeOK
  <2> QED BY <2>1, <2>2
<1>12. ASSUME NEW phase \in Build!Phases, Build!NextCall(p, phase) \/ Build!Goto(p, phase)
       PROVE  /\ proc' \in [Procs -> Build!Process]
              /\ \A q \in Procs \ {p} : SameButShared(proc[q], proc'[q])
  BY <1>9, <1>12, CallsAreUploadSteps, UploadSteps
<1>13. CASE Build!PostUrl(p)
  BY <1>13, <1>11, <1>12 DEF Build!PostUrl, Uploads, Build!At
<1>14. CASE Build!Post(p)
  <2>1. Build!Store(p) => stored' \subseteq Build!Kinds \X Build!Versions \X Build!Versions
    BY <1>14, <1>10
       DEF Build!Store, Build!Uploaded, Build!Post, Uploads, Build!At
  <2> QED BY <1>14, <1>11, <1>12, <2>1 DEF Build!Post, Uploads, Build!At
<1>15. CASE Build!GetUrl(p)
  <2>1. ASSUME Build!AfterUpload(p)
        PROVE  /\ proc' \in [Procs -> Build!Process]
               /\ \A q \in Procs \ {p} : SameButShared(proc[q], proc'[q])
    <3>1. \/ Build!Goto(p, "upsert")
          \/ Calls(p, "postUrl", "CONFIG", Attempts)
      BY <2>1 DEF Build!AfterUpload, Calls
    <3> QED BY <3>1, <1>12, UploadSteps
  <2> QED BY <1>15, <1>11, <2>1 DEF Build!GetUrl, Uploads, Build!At
<1>16. CASE Build!Upsert(p)
  <2>1. proc[p].id \in Build!Versions
    BY <1>16 DEF Build!Upsert, Build!At, UploadKnows
  <2> QED BY <1>16, <2>1, FinishSteps DEF Build!Upsert
<1>17. CASE Build!Interrupt(p)
  BY <1>17, FinishSteps DEF Build!Interrupt
<1> QED BY <1>1, <1>2, <1>3, <1>4, <1>5, <1>6, <1>7, <1>8, <1>13, <1>14, <1>15,
           <1>16, <1>17 DEF Build!Deploy
(* Storage *)

\* What storage holds for q stays there while others go on.
LEMMA OthersKeepUploading ==
  ASSUME NEW q \in Procs, UploadKnows(q), stored \subseteq stored',
         SameButShared(proc[q], proc'[q])
  PROVE  UploadKnows(q)'
  BY DEF UploadKnows, SameButShared, Build!At

LEMMA OwnUpload ==
  ASSUME Build!WorkflowBuildAssumption, UploadInv, NEW p \in Procs,
         Build!Start(p) \/ Build!Deploy(p) \/ Build!Interrupt(p)
  PROVE  /\ stored \subseteq stored' /\ Build!StoredMatchesId'
         /\ Build!RegisteredHasArtifacts'
         /\ UploadKnows(p)'
<1>1. /\ proc \in [Procs -> Build!Process] /\ proc[p] \in Build!Process
      /\ Build!StoredMatchesId /\ Build!RegisteredHasArtifacts /\ UploadKnows(p)
  BY DEF UploadInv, Build!TypeOK
<1>2. ASSUME UNCHANGED <<stored, registered>>,
             proc'[p].phase \notin Uploads \cup {"check", "upsert"}
      PROVE  /\ stored \subseteq stored' /\ Build!StoredMatchesId'
             /\ Build!RegisteredHasArtifacts'
             /\ UploadKnows(p)'
  BY <1>1, <1>2
     DEF Build!StoredMatchesId, Build!RegisteredHasArtifacts, UploadKnows,
         Uploads, Build!At
<1>3. ASSUME NEW r \in Build!Results, Build!Finish(p, r)
      PROVE  proc'[p].phase \notin Uploads \cup {"check", "upsert"}
  BY <1>1, <1>3, FinishSteps DEF Uploads
<1>4. CASE Build!Start(p)
  <2>1. proc'[p].phase = "build"
    BY <1>1, <1>4 DEF Build!Start, Build!Idle
  <2> QED BY <1>2, <1>4, <2>1 DEF Build!Start, Uploads
<1>5. CASE Build!BuildFails(p)
  BY <1>2, <1>3, <1>5 DEF Build!BuildFails, Build!Results
<1>6. ASSUME NEW new \in Build!Process, Build!Touch(p, new)
      PROVE  proc'[p].phase = new.phase /\ proc'[p].id = new.id
  BY <1>1, <1>6, TouchSteps DEF SameButShared
<1>7. CASE Build!Build(p)
  <2> DEFINE new == [proc[p] EXCEPT !.phase = "readTmp", !.built = source]
  <2>1. new \in Build!Process /\ new.phase = "readTmp"
    <3>1. source \in Build!FileContents
      BY DEF UploadInv, Build!TypeOK, Build!FileContents
    <3> QED BY <1>1, <3>1, Zenon
       DEF Build!Process, Build!Phases, Build!Building
  <2>2. Build!Touch(p, new)
    BY <1>7 DEF Build!Build
  <2> HIDE DEF new
  <2> QED BY <1>2, <1>6, <1>7, <2>1, <2>2 DEF Build!Build, Uploads, Build!files
<1>8. CASE Build!ReadTmp(p)
  <2> DEFINE new == [proc[p] EXCEPT !.phase = "writeOut", !.packed = tmp]
  <2>1. new \in Build!Process /\ new.phase = "writeOut"
    <3>1. tmp \in Build!FileContents
      BY DEF UploadInv, Build!TypeOK
    <3> QED BY <1>1, <3>1, Zenon
       DEF Build!Process, Build!Phases, Build!Building
  <2>2. Build!Touch(p, new) \/ Build!Finish(p, "error")
    BY <1>8 DEF Build!ReadTmp
  <2> HIDE DEF new
  <2> QED BY <1>2, <1>3, <1>6, <1>8, <2>1, <2>2
         DEF Build!ReadTmp, Uploads, Build!Results, Build!files
<1>9. CASE Build!WriteOut(p)
  <2> DEFINE new == [proc[p] EXCEPT !.phase = "removeTmp"]
  <2>1. new \in Build!Process /\ new.phase = "removeTmp"
    BY <1>1, Zenon DEF Build!Process, Build!Phases, Build!Building
  <2>2. Build!Touch(p, new) \/ Build!Finish(p, "error")
    BY <1>9 DEF Build!WriteOut
  <2> HIDE DEF new
  <2> QED BY <1>2, <1>3, <1>6, <1>9, <2>1, <2>2
     DEF Build!WriteOut, Uploads, Build!Results
<1>10. CASE Build!RemoveTmp(p)
  <2> DEFINE new == [proc[p] EXCEPT !.phase = "readOut"]
  <2>1. new \in Build!Process /\ new.phase = "readOut"
    BY <1>1, Zenon DEF Build!Process, Build!Phases, Build!Building
  <2>2. Build!Touch(p, new) \/ Build!Finish(p, "error")
    BY <1>10 DEF Build!RemoveTmp
  <2> HIDE DEF new
  <2> QED BY <1>2, <1>3, <1>6, <1>10, <2>1, <2>2
     DEF Build!RemoveTmp, Uploads, Build!Results
<1>11. CASE Build!ReadOut(p)
  <2> DEFINE new == [proc[p] EXCEPT !.phase = "check", !.id = out]
  <2>1. out \in Build!FileContents
    BY DEF UploadInv, Build!TypeOK
  <2>2. new \in Build!Process /\ new.phase = "check" /\ new.id = out
    BY <1>1, <2>1, Zenon DEF Build!Process, Build!Phases
  <2>3. (out # Build!None /\ Build!Touch(p, new)) \/ Build!Finish(p, "error")
    BY <1>11 DEF Build!ReadOut
  <2> HIDE DEF new
  <2>4. CASE out # Build!None /\ Build!Touch(p, new)
    BY <1>1, <1>6, <1>11, <2>1, <2>2, <2>4
       DEF Build!ReadOut, Uploads, UploadKnows, Build!At, Build!FileContents,
           Build!files, Build!StoredMatchesId, Build!RegisteredHasArtifacts
  <2> QED BY <1>2, <1>3, <1>11, <2>3, <2>4
     DEF Build!ReadOut, Build!Results, Build!files
<1>12. /\ proc[p].kind \in {"BINARY", "CONFIG"} /\ proc[p].left \in 0..Attempts
       /\ proc[p].phase \in Build!Phases
       /\ Attempts \in 0..Attempts /\ Attempts > 0
  BY <1>1 DEF Build!Process, Build!WorkflowBuildAssumption
<1>13. ASSUME proc[p].phase \in Uploads, Build!Retry(p)
       PROVE  \/ proc'[p].phase \notin Uploads \cup {"check", "upsert"}
              \/ /\ proc'[p].phase = proc[p].phase /\ proc'[p].left > 0
                 /\ proc'[p].kind = proc[p].kind /\ proc'[p].id = proc[p].id
  <2>1. CASE proc[p].left = 1
    BY <1>3, <1>13, <2>1 DEF Build!Retry, Build!Results
  <2>2. CASE proc[p].left # 1
    <3>1. PICK n \in 0..Attempts : n = proc[p].left - 1 /\ n > 0
      BY <1>1, <1>12, <1>13, <2>2 DEF UploadKnows
    <3>2. Calls(p, proc[p].phase, proc[p].kind, n)
      BY <1>1, <1>13, <2>2, <3>1, CallsAreUploadSteps
    <3> QED BY <1>1, <1>12, <3>1, <3>2, UploadSteps
  <2> QED BY <2>1, <2>2
<1>14. ASSUME NEW phase \in Build!Phases, Build!NextCall(p, phase)
       PROVE  /\ proc'[p].phase = phase /\ proc'[p].left > 0
              /\ proc'[p].kind = proc[p].kind /\ proc'[p].id = proc[p].id
  BY <1>1, <1>12, <1>14, CallsAreUploadSteps, UploadSteps
<1>15. CASE Build!Check(p)
  <2>1. CASE Build!Finish(p, "error")
    BY <1>2, <1>3, <1>15, <2>1 DEF Build!Check, Build!Results
  <2>2. CASE Calls(p, "postUrl", "BINARY", Attempts)
    <3>1. /\ proc'[p].phase = "postUrl" /\ proc'[p].kind = "BINARY"
          /\ proc'[p].left = Attempts /\ proc'[p].id = proc[p].id
      BY <1>1, <1>12, <2>2, UploadSteps DEF Build!Phases
    <3> QED BY <1>1, <1>12, <1>15, <3>1
       DEF Build!Check, UploadKnows, Uploads, Build!At, Build!Kinds,
           Build!files, Build!StoredMatchesId, Build!RegisteredHasArtifacts
  <2> QED BY <1>15, <2>1, <2>2 DEF Build!Check, Calls
<1>16. CASE Build!PostUrl(p)
  <2>1. UNCHANGED <<stored, registered>> /\ Build!At(p, "postUrl")
        /\ proc[p].phase \in Uploads
    BY <1>16 DEF Build!PostUrl, Uploads, Build!At
  <2>2. CASE Build!Retry(p)
    BY <1>1, <1>2, <1>13, <2>1, <2>2
       DEF UploadKnows, Uploads, Build!At, Build!StoredMatchesId,
           Build!RegisteredHasArtifacts
  <2>3. CASE Build!NextCall(p, IF Build!Exists(p) THEN "getUrl" ELSE "post")
    <3>1. Build!Exists(p) => <<proc[p].kind, proc[p].id, proc[p].id>> \in stored
      BY <1>1 DEF Build!Exists, Build!StoredMatchesId
    <3>2. CASE Build!Exists(p)
      <4>1. Build!NextCall(p, "getUrl")
        BY <2>3, <3>2
      <4> QED BY <1>1, <1>14, <2>1, <3>1, <3>2, <4>1
         DEF UploadKnows, Uploads, Build!Phases, Build!At,
             Build!StoredMatchesId, Build!RegisteredHasArtifacts
    <3>3. CASE ~Build!Exists(p)
      <4>1. Build!NextCall(p, "post")
        BY <2>3, <3>3
      <4> QED BY <1>1, <1>14, <2>1, <4>1
         DEF UploadKnows, Uploads, Build!Phases, Build!At,
             Build!StoredMatchesId, Build!RegisteredHasArtifacts
    <3> QED BY <3>2, <3>3
  <2> QED BY <1>16, <2>2, <2>3 DEF Build!PostUrl
<1>17. CASE Build!Post(p)
  <2>1. /\ UNCHANGED registered /\ Build!At(p, "post") /\ proc[p].phase \in Uploads
        /\ proc[p].kind \in Build!Kinds /\ proc[p].id \in Build!Versions
    BY <1>1, <1>17 DEF Build!Post, Uploads, UploadKnows, Build!At
  <2>2. Build!Store(p) \/ UNCHANGED stored
    BY <1>17 DEF Build!Post
  <2>3. /\ stored \subseteq stored' /\ Build!StoredMatchesId'
        /\ Build!Store(p) => <<proc[p].kind, proc[p].id, proc[p].id>> \in stored'
    BY <1>1, <2>2 DEF Build!Store, Build!Uploaded, Build!StoredMatchesId
  <2>4. CASE Build!Retry(p)
    BY <1>1, <1>13, <2>1, <2>3, <2>4
       DEF UploadKnows, Uploads, Build!At, Build!RegisteredHasArtifacts
  <2>5. CASE Build!Store(p) /\ Build!NextCall(p, "getUrl")
    BY <1>1, <1>14, <2>1, <2>3, <2>5
       DEF UploadKnows, Uploads, Build!Phases, Build!At,
           Build!RegisteredHasArtifacts
  <2> QED BY <1>17, <2>4, <2>5 DEF Build!Post
<1>18. CASE Build!GetUrl(p)
  <2>1. /\ UNCHANGED <<stored, registered>> /\ Build!At(p, "getUrl")
        /\ proc[p].phase \in Uploads
        /\ proc[p].kind \in Build!Kinds /\ proc[p].id \in Build!Versions
    BY <1>1, <1>18 DEF Build!GetUrl, Uploads, UploadKnows, Build!At
  <2>2. CASE Build!Retry(p)
    BY <1>1, <1>13, <2>1, <2>2
       DEF UploadKnows, Uploads, Build!At, Build!StoredMatchesId,
           Build!RegisteredHasArtifacts
  <2>3. CASE proc[p].kind = "BINARY" /\ HasConfig /\ Build!AfterUpload(p)
    <3>1. Calls(p, "postUrl", "CONFIG", Attempts)
      BY <2>3 DEF Build!AfterUpload, Calls
    <3>2. /\ proc'[p].phase = "postUrl" /\ proc'[p].kind = "CONFIG"
          /\ proc'[p].left = Attempts /\ proc'[p].id = proc[p].id
      BY <1>1, <1>12, <3>1, UploadSteps DEF Build!Phases
    <3> QED BY <1>1, <1>12, <2>1, <2>3, <3>2
       DEF UploadKnows, Uploads, Build!At, Build!Kinds, Build!StoredMatchesId,
           Build!RegisteredHasArtifacts
  <2>4. CASE ~(proc[p].kind = "BINARY" /\ HasConfig) /\ Build!AfterUpload(p)
    <3>1. Build!Goto(p, "upsert")
      BY <2>4 DEF Build!AfterUpload
    <3>2. proc'[p].phase = "upsert" /\ proc'[p].id = proc[p].id
      BY <1>1, <1>12, <3>1, CallsAreUploadSteps, UploadSteps DEF Build!Phases
    <3>3. \A k \in Build!Kinds : <<k, proc[p].id, proc[p].id>> \in stored
      BY <1>1, <2>1, <2>4 DEF UploadKnows, Uploads, Build!At, Build!Kinds
    <3> QED BY <1>1, <2>1, <3>2, <3>3
       DEF UploadKnows, Uploads, Build!At, Build!StoredMatchesId,
           Build!RegisteredHasArtifacts
  <2> QED BY <1>18, <2>2, <2>3, <2>4 DEF Build!GetUrl
<1>19. CASE Build!Upsert(p)
  <2>1. \E r \in Build!Results : Build!Finish(p, r)
    BY <1>19 DEF Build!Upsert, Build!Results
  <2>2. proc'[p].phase \notin Uploads \cup {"check", "upsert"}
    BY <1>3, <2>1
  <2>3. \A k \in Build!Kinds : <<k, proc[p].id, proc[p].id>> \in stored
    BY <1>1, <1>19 DEF Build!Upsert, UploadKnows, Build!At
  <2>4. UNCHANGED stored
        /\ (registered' = registered \cup {proc[p].id} \/ UNCHANGED registered)
    BY <1>19 DEF Build!Upsert
  <2> QED BY <1>1, <2>2, <2>3, <2>4
     DEF UploadKnows, Uploads, Build!At, Build!StoredMatchesId,
         Build!RegisteredHasArtifacts
<1>20. CASE Build!Interrupt(p)
  BY <1>2, <1>3, <1>20 DEF Build!Interrupt, Build!Results
<1> QED BY <1>4, <1>5, <1>7, <1>8, <1>9, <1>10, <1>11, <1>15, <1>16, <1>17,
           <1>18, <1>19, <1>20 DEF Build!Deploy
(* The shared Build!files *)

\* Whoever is left out of a file step, or is marked by it, keeps what it knows.
LEMMA OthersKeepAlone ==
  ASSUME NEW q \in Procs, UndisturbedBuild(q), SameButShared(proc[q], proc'[q]),
         UNCHANGED <<tmp, out>> \/ (proc[q].phase \in Build!Building => proc'[q].shared)
  PROVE  UndisturbedBuild(q)'
  BY DEF UndisturbedBuild, SameButShared, Build!At, Build!Building

LEMMA OwnBuild ==
  ASSUME Build!WorkflowBuildAssumption, UploadInv, SoloInv, NEW p \in Procs,
         Build!Start(p) \/ Build!Deploy(p) \/ Build!Interrupt(p)
  PROVE  /\ UndisturbedBuild(p)'
         /\ \/ UNCHANGED <<tmp, out>>
            \/ \A q \in Procs \ {p} :
                 proc[q].phase \in Build!Building => proc'[q].shared
<1>1. /\ proc \in [Procs -> Build!Process] /\ proc[p] \in Build!Process /\ UndisturbedBuild(p)
      /\ source \in Build!FileContents /\ tmp \in Build!FileContents
           /\ out \in Build!FileContents
  BY DEF SoloInv, Build!TypeOK, Build!FileContents
<1>2. ASSUME NEW r \in Build!Results, Build!Finish(p, r)
      PROVE  UndisturbedBuild(p)'
  BY <1>1, <1>2, FinishSteps DEF UndisturbedBuild, Build!At, Build!Building
<1>3. ASSUME NEW new \in Build!Process, Build!Touch(p, new)
      PROVE  /\ SameButShared(new, proc'[p])
             /\ \A q \in Procs \ {p} :
                  proc[q].phase \in Build!Building => proc'[q].shared
  BY <1>1, <1>3, TouchSteps
<1>4. CASE Build!Start(p)
  <2>1. proc'[p].phase = "build" /\ proc'[p].id = Build!None
    BY <1>1, <1>4 DEF Build!Start, Build!Idle
  <2> QED BY <1>4, <2>1
     DEF Build!Start, UndisturbedBuild, Build!At, Build!Building, Build!files
<1>5. CASE Build!BuildFails(p)
  BY <1>2, <1>5 DEF Build!BuildFails, Build!Results, Build!files
<1>6. CASE Build!Build(p)
  <2> DEFINE new == [proc[p] EXCEPT !.phase = "readTmp", !.built = source]
  <2>1. new \in Build!Process
    BY <1>1, Zenon DEF Build!Process, Build!Phases, Build!Building
  <2>2. /\ new.phase = "readTmp" /\ new.built = source
        /\ new.id = proc[p].id /\ proc[p].id = Build!None
    BY <1>1, <1>6 DEF Build!Build, Build!At, UndisturbedBuild, Build!Process
  <2>3. Build!Touch(p, new)
    BY <1>6 DEF Build!Build
  <2> HIDE DEF new
  <2> QED BY <1>3, <1>6, <2>1, <2>2, <2>3
     DEF Build!Build, UndisturbedBuild, SameButShared, Build!At, Build!Building
<1>7. CASE Build!ReadTmp(p)
  <2> DEFINE new == [proc[p] EXCEPT !.phase = "writeOut", !.packed = tmp]
  <2>1. new \in Build!Process
    BY <1>1, Zenon DEF Build!Process, Build!Phases, Build!Building
  <2>2. /\ new.phase = "writeOut" /\ new.built = proc[p].built
        /\ new.packed = tmp /\ new.shared = proc[p].shared
        /\ new.id = proc[p].id /\ proc[p].id = Build!None
    BY <1>1, <1>7
       DEF Build!ReadTmp, Build!At, UndisturbedBuild, Build!Process,
           Build!Building
  <2>3. Build!Touch(p, new) \/ Build!Finish(p, "error")
    BY <1>7 DEF Build!ReadTmp
  <2> HIDE DEF new
  <2> QED BY <1>1, <1>2, <1>3, <1>7, <2>1, <2>2, <2>3
     DEF Build!ReadTmp, UndisturbedBuild, SameButShared, Build!At,
         Build!Building, Build!files, Build!Results
<1>8. CASE Build!WriteOut(p)
  <2> DEFINE new == [proc[p] EXCEPT !.phase = "removeTmp"]
  <2>1. new \in Build!Process
    BY <1>1, Zenon DEF Build!Process, Build!Phases, Build!Building
  <2>2. /\ new.phase = "removeTmp" /\ new.built = proc[p].built
        /\ new.shared = proc[p].shared
        /\ new.id = proc[p].id /\ proc[p].id = Build!None
    BY <1>1, <1>8
       DEF Build!WriteOut, Build!At, UndisturbedBuild, Build!Process,
           Build!Building
  <2>3. \/ out' = proc[p].packed /\ Build!Touch(p, new)
        \/ UNCHANGED out /\ Build!Finish(p, "error")
    BY <1>8 DEF Build!WriteOut
  <2> HIDE DEF new
  <2> QED BY <1>1, <1>2, <1>3, <1>8, <2>1, <2>2, <2>3
     DEF Build!WriteOut, UndisturbedBuild, SameButShared, Build!At,
         Build!Building, Build!Results
<1>9. CASE Build!RemoveTmp(p)
  <2> DEFINE new == [proc[p] EXCEPT !.phase = "readOut"]
  <2>1. new \in Build!Process
    BY <1>1, Zenon DEF Build!Process, Build!Phases, Build!Building
  <2>2. /\ new.phase = "readOut" /\ new.built = proc[p].built
        /\ new.shared = proc[p].shared
        /\ new.id = proc[p].id /\ proc[p].id = Build!None
    BY <1>1, <1>9
       DEF Build!RemoveTmp, Build!At, UndisturbedBuild, Build!Process,
           Build!Building
  <2>3. \/ Build!Touch(p, new)
        \/ tmp = Build!None /\ Build!Finish(p, "error")
    BY <1>9 DEF Build!RemoveTmp
  <2> HIDE DEF new
  <2> QED BY <1>1, <1>2, <1>3, <1>9, <2>1, <2>2, <2>3
     DEF Build!RemoveTmp, UndisturbedBuild, SameButShared, Build!At,
         Build!Building, Build!Results
<1>10. CASE Build!ReadOut(p)
  <2> DEFINE new == [proc[p] EXCEPT !.phase = "check", !.id = out]
  <2>1. new \in Build!Process
    BY <1>1, Zenon DEF Build!Process, Build!Phases
  <2>2. /\ new.phase = "check" /\ new.built = proc[p].built
        /\ new.shared = proc[p].shared /\ new.id = out
    BY <1>1 DEF Build!Process
  <2>3. Build!Touch(p, new) \/ Build!Finish(p, "error")
    BY <1>10 DEF Build!ReadOut
  <2> HIDE DEF new
  <2> QED BY <1>1, <1>2, <1>3, <1>10, <2>1, <2>2, <2>3
     DEF Build!ReadOut, UndisturbedBuild, SameButShared, Build!At,
         Build!Building, Build!Results, Build!files
<1>11. ASSUME proc'[p].phase \notin Build!Building \cup {"build"},
              proc'[p].id = proc[p].id, proc'[p].built = proc[p].built,
              proc'[p].shared = proc[p].shared
       PROVE  UndisturbedBuild(p)'
  BY <1>1, <1>11 DEF UndisturbedBuild, Build!At, Build!Building
<1>12. /\ proc[p].kind \in {"BINARY", "CONFIG"} /\ proc[p].left \in 0..Attempts
       /\ proc[p].phase \in Build!Phases /\ Attempts \in 0..Attempts
  BY <1>1 DEF Build!Process, Build!WorkflowBuildAssumption
<1>13. ASSUME NEW phase \in Build!Phases \ (Build!Building \cup {"build"}),
              \E kind \in {"BINARY", "CONFIG"}, left \in 0..Attempts :
                Calls(p, phase, kind, left)
       PROVE  UndisturbedBuild(p)'
  BY <1>1, <1>11, <1>13, UploadSteps
<1>14. ASSUME proc[p].phase \in Uploads, Build!Retry(p)
       PROVE  UndisturbedBuild(p)'
  <2>1. CASE proc[p].left = 1
    BY <1>2, <1>14, <2>1 DEF Build!Retry, Build!Results
  <2>2. CASE proc[p].left # 1
    <3> UploadKnows(p)
      BY DEF UploadInv
    <3>1. PICK n \in 0..Attempts : n = proc[p].left - 1
      BY <1>12, <1>14, <2>2 DEF UploadKnows
    <3>2. Calls(p, proc[p].phase, proc[p].kind, n)
      BY <1>1, <1>14, <2>2, <3>1, CallsAreUploadSteps
    <3>3. proc[p].phase \in Build!Phases \ (Build!Building \cup {"build"})
      BY <1>12, <1>14 DEF Uploads, Build!Building
    <3> QED BY <1>12, <1>13, <3>2, <3>3
  <2> QED BY <2>1, <2>2
<1>15. ASSUME NEW phase \in {"post", "getUrl", "upsert"},
              Build!NextCall(p, phase) \/ Build!Goto(p, phase)
       PROVE  UndisturbedBuild(p)'
  <2>1. phase \in Build!Phases \ (Build!Building \cup {"build"})
    BY DEF Build!Phases, Build!Building
  <2> QED BY <1>1, <1>12, <1>13, <1>15, <2>1, CallsAreUploadSteps
<1>16. "postUrl" \in Build!Phases \ (Build!Building \cup {"build"})
  BY DEF Build!Phases, Build!Building
<1>17. CASE Build!Check(p)
  <2>1. Build!Finish(p, "error") \/ Calls(p, "postUrl", "BINARY", Attempts)
    BY <1>17 DEF Build!Check, Calls
  <2>2. UndisturbedBuild(p)'
    BY <1>2, <1>12, <1>13, <1>16, <2>1 DEF Build!Results
  <2> QED BY <1>17, <2>2 DEF Build!Check, Build!files
<1>18. CASE Build!PostUrl(p)
  BY <1>14, <1>15, <1>18 DEF Build!PostUrl, Uploads, Build!At, Build!files
<1>19. CASE Build!Post(p)
  BY <1>14, <1>15, <1>19 DEF Build!Post, Uploads, Build!At, Build!files
<1>20. CASE Build!GetUrl(p)
  <2>1. \/ Build!Retry(p) \/ Build!Goto(p, "upsert")
        \/ Calls(p, "postUrl", "CONFIG", Attempts)
    BY <1>20 DEF Build!GetUrl, Build!AfterUpload, Calls
  <2>2. UndisturbedBuild(p)'
    BY <1>12, <1>13, <1>14, <1>15, <1>16, <1>20, <2>1
       DEF Build!GetUrl, Uploads, Build!At
  <2> QED BY <1>20, <2>2 DEF Build!GetUrl, Build!files
<1>21. CASE Build!Upsert(p)
  BY <1>2, <1>21 DEF Build!Upsert, Build!Results, Build!files
<1>22. CASE Build!Interrupt(p)
  BY <1>2, <1>22 DEF Build!Interrupt, Build!Results, Build!files
<1> QED BY <1>4, <1>5, <1>6, <1>7, <1>8, <1>9, <1>10, <1>17, <1>18, <1>19,
           <1>20, <1>21, <1>22 DEF Build!Deploy
LEMMA StepInvs ==
  ASSUME Build!WorkflowBuildAssumption, UploadInv, SoloInv, [Build!Next]_(Build!vars)
  PROVE  UploadInv' /\ SoloInv'
<1>1. CASE Build!Edit
  <2>1. source' \in Build!Versions
    BY <1>1
       DEF Build!Edit, UploadInv, Build!TypeOK, Build!Versions,
           Build!WorkflowBuildAssumption
  <2> QED BY <1>1, <2>1
     DEF Build!Edit, UploadInv, SoloInv, Build!TypeOK, UploadKnows,
         UndisturbedBuild, Build!At, Build!StoredMatchesId,
         Build!RegisteredHasArtifacts
<1>2. ASSUME NEW p \in Procs, Build!Start(p) \/ Build!Deploy(p) \/ Build!Interrupt(p)
      PROVE  UploadInv' /\ SoloInv'
  <2>1. /\ Build!TypeOK'
        /\ \A q \in Procs \ {p} : SameButShared(proc[q], proc'[q])
    BY <1>2, StepProcess
  <2>2. /\ stored \subseteq stored' /\ Build!StoredMatchesId' /\ UploadKnows(p)'
        /\ Build!RegisteredHasArtifacts'
    BY <1>2, OwnUpload
  <2>3. \A q \in Procs : UploadKnows(q)'
    BY <2>1, <2>2, OthersKeepUploading DEF UploadInv
  <2>4. \A q \in Procs : UndisturbedBuild(q)'
    BY <1>2, <2>1, OwnBuild, OthersKeepAlone DEF SoloInv
  <2> QED BY <2>1, <2>2, <2>3, <2>4 DEF UploadInv, SoloInv
<1>3. CASE UNCHANGED Build!vars
  BY <1>3
     DEF Build!vars, Build!files, UploadInv, SoloInv, Build!TypeOK,
         UploadKnows, UndisturbedBuild, Build!At, Build!StoredMatchesId,
         Build!RegisteredHasArtifacts
<1> QED BY <1>1, <1>2, <1>3 DEF Build!Next

BuildInv == On("build") => UploadInv /\ SoloInv

LEMMA BuildInvariant == Spec => []BuildInv
<1>1. Build!WorkflowBuildAssumption
  BY ServiceCommandsAssumption DEF ServiceCommandsAssumption
<1>2. Init => BuildInv
  BY <1>1, InitUpload, InitSolo DEF Init, BuildInv
<1>3. BuildInv /\ [Next]_vars => BuildInv'
  <2>1. SUFFICES ASSUME BuildInv, [Next]_vars, On("build")'
                 PROVE  (UploadInv /\ SoloInv)'
    BY DEF BuildInv
  <2>2. On("build")
    BY <2>1, ConfigStays DEF On
  <2>3. [Build!Next]_(Build!vars)
    BY <2>1, <2>2, BuildSteps
  <2> QED BY <1>1, <2>1, <2>2, <2>3, StepInvs DEF BuildInv
<1> QED BY <1>2, <1>3, PTL DEF Spec

\* Whatever a deploy registers is in storage under its id with all its
\* artifacts, and what is in storage is what its id was computed from.
THEOREM DeploysStoreFirst == Spec => []RegisteredIsStored
<1>1. BuildInv => RegisteredIsStored
  BY DEF BuildInv, UploadInv, RegisteredIsStored
<1> QED BY <1>1, BuildInvariant, PTL

\* A deploy that had the folder to itself registers what it compiled.
THEOREM DeploysAreFresh == Spec => []SoloDeployIsFresh
<1>1. BuildInv => SoloDeployIsFresh
  BY DEF BuildInv, SoloInv, UndisturbedBuild, SoloDeployIsFresh,
         Build!SoloDeployIsFresh
<1> QED BY <1>1, BuildInvariant, PTL
-----------------------------------------------------------------------------
(* Logging in *)

TabPage == [at : {"blank", "authorize", "callback", "page"} \cup LogIn!Handling,
         url : 0..MaxRounds, kind : {"none", "code", "org", "error"}]

\* The tab the user has, and where its flow stands.
FlowInv(t) ==
  /\ {lastPKCEVerifier, lastState, rounds, codeCh, code} \subseteq 0..MaxRounds
  /\ tab \in [Tabs -> TabPage]
  /\ main \in {"start", "pkce"} =>
       rounds = 0 /\ lastPKCEVerifier = LogIn!None /\ lastState = LogIn!None
  /\ rounds = 0 => tab[t] = LogIn!Blank
  /\ IF tab[t].at = "restart" THEN tab[t].url = lastPKCEVerifier
     ELSE lastState = lastPKCEVerifier
  /\ tab[t].at \in {"renew", "restart"} => tab[t].kind = "org"
  /\ tab[t].at = "send" =>
       tab[t].kind = "code" /\ tab[t].url = lastState /\ lastState # LogIn!None

\* A code that was sent ends the flow of the tab.
CodeInv(t) ==
  /\ codeCh # LogIn!None \/ code # LogIn!None =>
       tab[t].kind = "code" /\ tab[t].at \in {"callback", "send", "page"}
  /\ codeCh # LogIn!None => codeCh = lastPKCEVerifier
  /\ code # LogIn!None => code = lastPKCEVerifier
  /\ main = "exchange" => code # LogIn!None

LoginInv(t) == FlowInv(t) /\ CodeInv(t)

LEMMA PageOfTab ==
  ASSUME NEW t, Tabs = {t}, FlowInv(t)
  PROVE  /\ tab[t] \in TabPage
         /\ \A page : LogIn!Show(t, page) => tab'[t] = page
         /\ \A page \in TabPage : LogIn!Show(t, page) => tab' \in [Tabs -> TabPage]
  BY DEF FlowInv, LogIn!Show

LEMMA CommandKeepsLogin ==
  ASSUME LogIn!LoginAssumption, NEW t, Tabs = {t}, LoginInv(t), LogIn!Command
  PROVE  LoginInv(t)'
<1>1. CASE LogIn!OpenBrowser
  <2>1. rounds = 0 /\ tab[t] = LogIn!Blank /\ UNCHANGED <<tab, codeCh, code>>
    BY <1>1 DEF LogIn!OpenBrowser, LoginInv, FlowInv
  <2>2. tab[t].at = "blank" /\ codeCh = LogIn!None /\ code = LogIn!None
    BY <2>1 DEF LogIn!Blank, LoginInv, CodeInv
  <2> QED BY <1>1, <2>1, <2>2
     DEF LogIn!OpenBrowser, LoginInv, FlowInv, CodeInv, LogIn!LoginAssumption,
         LogIn!None
<1>2. CASE LogIn!Receive
  BY <1>2
     DEF LogIn!Receive, LogIn!flow, LoginInv, FlowInv, CodeInv, LogIn!None,
         LogIn!LoginAssumption
<1>3. CASE LogIn!Setup \/ LogIn!Timeout \/ LogIn!StopListening \/ LogIn!ExchangeCode \/ LogIn!Save
  <2>1. UNCHANGED <<LogIn!flow, codeCh, code, tab>>
    BY <1>3
       DEF LogIn!Setup, LogIn!Timeout, LogIn!StopListening, LogIn!ExchangeCode,
           LogIn!Save
  <2>2. main' \notin {"start", "exchange"} /\ (main' = "pkce" => main = "start")
    BY <1>3
       DEF LogIn!Setup, LogIn!Timeout, LogIn!StopListening, LogIn!ExchangeCode,
           LogIn!Save
  <2> QED BY <2>1, <2>2 DEF LogIn!flow, LoginInv, FlowInv, CodeInv
<1>4. CASE LogIn!Drain
  BY <1>4 DEF LogIn!Drain, LogIn!flow, LoginInv, FlowInv, CodeInv
<1> QED BY <1>1, <1>2, <1>3, <1>4 DEF LogIn!Command

\* A step of the browser leaves the flow alone.
LEMMA BrowserKeepsLogin ==
  ASSUME LogIn!LoginAssumption, NEW t, Tabs = {t}, LoginInv(t),
         LogIn!Visit(t) \/ LogIn!Back(t) \/ LogIn!Authorize(t) \/ LogIn!Reload(t)
  PROVE  LoginInv(t)'
<1>1. UNCHANGED <<main, LogIn!flow, codeCh, code>>
  BY
     DEF LogIn!Visit, LogIn!Back, LogIn!Authorize, LogIn!Reload,
         LogIn!BrowserStep
<1>2. /\ tab[t] \in TabPage /\ tab \in [Tabs -> TabPage] /\ rounds \in 0..MaxRounds
      /\ rounds = 0 => tab[t].at = "blank"
  BY PageOfTab DEF LoginInv, FlowInv, LogIn!Blank
<1>3. CASE LogIn!Visit(t)
  <2> DEFINE page == [at |-> "authorize", url |-> 1, kind |-> "none"]
  <2>1. page \in TabPage /\ tab[t].at = "blank" /\ rounds >= 1 /\ LogIn!Show(t, page)
    BY <1>2, <1>3 DEF LogIn!Visit, TabPage, LogIn!Blank, LogIn!LoginAssumption
  <2>2. page.at = "authorize"
    OBVIOUS
  <2> HIDE DEF page
  <2> QED BY <1>1, <1>2, <2>1, <2>2, PageOfTab
     DEF LoginInv, FlowInv, CodeInv, LogIn!flow
<1>4. CASE LogIn!Back(t)
  <2>1. PICK r \in 1..(tab[t].url - 1) : LogIn!Show(t, [tab[t] EXCEPT !.url = r])
    BY <1>4 DEF LogIn!Back
  <2>2. tab[t].at = "authorize" /\ r \in 0..MaxRounds
    BY <1>2, <1>4, <2>1 DEF LogIn!Back, TabPage, LogIn!LoginAssumption
  <2> DEFINE page == [tab[t] EXCEPT !.url = r]
  <2>3. page \in TabPage
    BY <1>2, <2>2, Zenon DEF TabPage
  <2>4. page.at = "authorize" /\ LogIn!Show(t, page)
    BY <1>2, <2>1, <2>2 DEF TabPage
  <2> HIDE DEF page
  <2> QED BY <1>1, <1>2, <2>2, <2>3, <2>4, PageOfTab
     DEF LoginInv, FlowInv, CodeInv, LogIn!flow
<1>5. CASE LogIn!Authorize(t)
  <2>1. PICK kind \in {"code", "org", "error"} :
          LogIn!Show(t, [tab[t] EXCEPT !.at = "callback", !.kind = kind])
    BY <1>5 DEF LogIn!Authorize
  <2> DEFINE page == [tab[t] EXCEPT !.at = "callback", !.kind = kind]
  <2>2. tab[t].at = "authorize"
    BY <1>5 DEF LogIn!Authorize
  <2>3. page \in TabPage
    BY <1>2, <2>1, Zenon DEF TabPage
  <2>4. page.at = "callback" /\ LogIn!Show(t, page)
    BY <1>2, <2>1 DEF TabPage
  <2> HIDE DEF page
  <2> QED BY <1>1, <1>2, <2>2, <2>3, <2>4, PageOfTab
     DEF LoginInv, FlowInv, CodeInv, LogIn!flow
<1>6. CASE LogIn!Reload(t)
  <2> DEFINE page == [tab[t] EXCEPT !.at = "callback"]
  <2>1. tab[t].at = "page" /\ tab[t].kind = "code"
    BY <1>6 DEF LogIn!Reload
  <2>2. page \in TabPage
    BY <1>2, Zenon DEF TabPage
  <2>3. page.at = "callback" /\ page.kind = tab[t].kind /\ LogIn!Show(t, page)
    BY <1>2, <1>6 DEF TabPage, LogIn!Reload
  <2> HIDE DEF page
  <2> QED BY <1>1, <1>2, <2>1, <2>2, <2>3, PageOfTab
     DEF LoginInv, FlowInv, CodeInv, LogIn!flow
<1> QED BY <1>3, <1>4, <1>5, <1>6

LEMMA HandlerKeepsLogin ==
  ASSUME LogIn!LoginAssumption, NEW t, Tabs = {t}, LoginInv(t), LogIn!Handler(t)
  PROVE  LoginInv(t)'
<1>1. UNCHANGED <<main, code>>
  BY
     DEF LogIn!Handler, LogIn!Callback, LogIn!Renew, LogIn!Restart, LogIn!Send,
         LogIn!HandlerStep
<1>2. /\ tab[t] \in TabPage /\ tab \in [Tabs -> TabPage] /\ rounds \in 0..MaxRounds
      /\ {lastPKCEVerifier, lastState} \subseteq 0..MaxRounds
      /\ rounds = 0 => tab[t].at = "blank"
      /\ tab[t].url \in 0..MaxRounds
  BY PageOfTab DEF LoginInv, FlowInv, LogIn!Blank, TabPage
<1>3. CASE LogIn!Callback(t)
  <2> DEFINE page == [tab[t] EXCEPT !.at = LogIn!Outcome(t)]
  <2>1. LogIn!Outcome(t) \in {"renew", "send", "page"} /\ tab[t].at = "callback"
    BY <1>3 DEF LogIn!Callback, LogIn!Outcome
  <2>2. page \in TabPage
    BY <1>2, <2>1, Zenon DEF TabPage, LogIn!Handling
  <2>3. /\ page.at = LogIn!Outcome(t) /\ page.kind = tab[t].kind /\ page.url = tab[t].url
        /\ LogIn!Show(t, page) /\ UNCHANGED <<LogIn!flow, codeCh>>
    BY <1>2, <1>3 DEF TabPage, LogIn!Callback
  <2>4. /\ LogIn!Outcome(t) = "renew" => tab[t].kind = "org"
        /\ LogIn!Outcome(t) = "send" => /\ tab[t].kind = "code" /\ tab[t].url = lastState
                                  /\ lastState # LogIn!None
    BY DEF LogIn!Outcome, LogIn!GoodState
  <2> HIDE DEF page
  <2> QED BY <1>1, <1>2, <2>1, <2>2, <2>3, <2>4, PageOfTab
     DEF LoginInv, FlowInv, CodeInv, LogIn!flow
<1>4. CASE LogIn!Renew(t)
  <2> DEFINE page == [tab[t] EXCEPT !.at = "restart", !.url = rounds']
  <2>1. /\ tab[t].at = "renew" /\ tab[t].kind = "org"
        /\ rounds' = rounds + 1 /\ rounds' \in 0..MaxRounds /\ rounds' # 0
    BY <1>2, <1>4 DEF LogIn!Renew, LogIn!LoginAssumption, LoginInv, FlowInv
  <2>2. page \in TabPage
    BY <1>2, <2>1, Zenon DEF TabPage, LogIn!Handling
  <2>3. /\ page.at = "restart" /\ page.kind = "org" /\ page.url = rounds'
        /\ LogIn!Show(t, page) /\ lastPKCEVerifier' = rounds'
        /\ UNCHANGED <<lastState, codeCh>>
    BY <1>2, <1>4, <2>1 DEF TabPage, LogIn!Renew
  <2>4. codeCh = LogIn!None /\ code = LogIn!None /\ main \notin {"start", "pkce"}
    BY <1>2, <2>1 DEF LoginInv, CodeInv, FlowInv
  <2> HIDE DEF page
  <2> QED BY <1>1, <1>2, <2>1, <2>2, <2>3, <2>4, PageOfTab
     DEF LoginInv, FlowInv, CodeInv
<1>5. CASE LogIn!Restart(t)
  <2> DEFINE page == [tab[t] EXCEPT !.at = "authorize", !.kind = "none"]
  <2>1. /\ tab[t].at = "restart" /\ tab[t].kind = "org"
        /\ tab[t].url = lastPKCEVerifier
    BY <1>2, <1>5 DEF LogIn!Restart, LoginInv, FlowInv
  <2>2. page \in TabPage
    BY <1>2, <2>1, Zenon DEF TabPage, LogIn!Handling
  <2>3. /\ page.at = "authorize" /\ LogIn!Show(t, page) /\ lastState' = lastPKCEVerifier
        /\ UNCHANGED <<lastPKCEVerifier, rounds, codeCh>>
    BY <1>2, <1>5, <2>1 DEF TabPage, LogIn!Restart
  <2>4. codeCh = LogIn!None /\ code = LogIn!None /\ main \notin {"start", "pkce"} /\ rounds # 0
    BY <1>2, <2>1 DEF LoginInv, CodeInv, FlowInv
  <2> HIDE DEF page
  <2> QED BY <1>1, <1>2, <2>1, <2>2, <2>3, <2>4, PageOfTab
     DEF LoginInv, FlowInv, CodeInv
<1>6. CASE LogIn!Send(t)
  <2> DEFINE page == [tab[t] EXCEPT !.at = "page"]
  <2>1. /\ tab[t].at = "send" /\ tab[t].kind = "code"
        /\ tab[t].url = lastState /\ lastState = lastPKCEVerifier
    BY <1>2, <1>6 DEF LogIn!Send, LoginInv, FlowInv
  <2>2. page \in TabPage
    BY <1>2, <2>1, Zenon DEF TabPage
  <2>3. /\ page.at = "page" /\ page.kind = "code" /\ LogIn!Show(t, page)
        /\ codeCh' = lastPKCEVerifier /\ UNCHANGED LogIn!flow
    BY <1>2, <1>6, <2>1 DEF TabPage, LogIn!Send
  <2> HIDE DEF page
  <2> QED BY <1>1, <1>2, <2>1, <2>2, <2>3, PageOfTab
     DEF LoginInv, FlowInv, CodeInv, LogIn!flow
<1> QED BY <1>3, <1>4, <1>5, <1>6 DEF LogIn!Handler

LEMMA LoginStep ==
  ASSUME LogIn!LoginAssumption, NEW t, Tabs = {t}, LoginInv(t), [LogIn!Next]_(LogIn!vars)
  PROVE  LoginInv(t)'
<1>1. CASE UNCHANGED LogIn!vars
  BY <1>1 DEF LogIn!vars, LogIn!flow, LoginInv, FlowInv, CodeInv
<1>2. CASE \E u \in Tabs :
           LogIn!Handler(u) \/ LogIn!Visit(u) \/ LogIn!Back(u) \/ LogIn!Authorize(u) \/ LogIn!Reload(u)
  BY <1>2, HandlerKeepsLogin, BrowserKeepsLogin
<1> QED BY <1>1, <1>2, CommandKeepsLogin DEF LogIn!Next

LEMMA LoginStarts ==
  ASSUME LogIn!LoginAssumption, NEW t, Tabs = {t}, LogIn!Init
  PROVE  LoginInv(t)
<1>1. LogIn!Blank \in TabPage /\ LogIn!Blank.at = "blank" /\ 0 \in 0..MaxRounds
  BY DEF LogIn!Blank, TabPage, LogIn!None, LogIn!LoginAssumption
<1> QED BY <1>1 DEF LogIn!Init, LoginInv, FlowInv, CodeInv, LogIn!None

LEMMA LoginShows ==
  ASSUME NEW t, LoginInv(t) PROVE LogIn!CodeMeetsVerifier
  BY DEF LoginInv, CodeInv, LogIn!CodeMeetsVerifier

LoginToolInv(t) == On("login") => LoginInv(t)

LEMMA LoginSteps ==
  ASSUME On("login"), [Next]_vars PROVE [LogIn!Next]_(LogIn!vars)
  BY DEF On, Next, vars, loginVars, LogIn!vars, LogIn!flow

\* In a login with one tab, the code that is exchanged goes with the verifier.
THEOREM CodesMeetVerifiers ==
  ASSUME NEW t, Tabs = {t} PROVE Spec => []CodeMeetsVerifier
<1>1. LogIn!LoginAssumption
  BY ServiceCommandsAssumption DEF ServiceCommandsAssumption
<1>2. Init => LoginToolInv(t)
  BY <1>1, LoginStarts DEF Init, LoginToolInv
<1>3. LoginToolInv(t) /\ [Next]_vars => LoginToolInv(t)'
  BY <1>1, ConfigStays, LoginSteps, LoginStep DEF LoginToolInv, On
<1>4. LoginToolInv(t) => CodeMeetsVerifier
  BY LoginShows DEF LoginToolInv, CodeMeetsVerifier
<1> QED BY <1>2, <1>3, <1>4, PTL DEF Spec

\* The tabs whose handler has passed the check of the retries and has not
\* counted its own.
Renewing == {t \in Tabs : tab[t].at \in {"renew", "restart"}}

\* The types of a login in a browser with any number of tabs.  The handlers
\* check the count of retries before they raise it: at most all of them are
\* past the check with the last retry still to come.
LoginTypes ==
  /\ main \in LogIn!Mains /\ listening \in BOOLEAN
  /\ rounds \in 0..MaxRounds /\ lastPKCEVerifier = rounds
  /\ {lastState, codeCh, code} \subseteq 0..MaxRounds /\ lastState <= rounds
  /\ main \in {"start", "pkce"} => rounds = 0
  /\ retryCount \in Nat /\ reloads \in 0..MaxReloads
  /\ tab \in [Tabs -> TabPage] /\ \A t \in Tabs : tab[t].url <= rounds
  /\ rounds = 0 => \A t \in Tabs : tab[t].at = "blank"
  /\ retryCount + Cardinality(Renewing) <= MaxRetries + Cardinality(Tabs) - 1

\* What the module says with its own copy of Cardinality.
LEMMA TabsFinite ==
  ASSUME LogIn!LoginAssumption
  PROVE  /\ IsFiniteSet(Tabs) /\ Cardinality(Tabs) \in Nat \ {0}
         /\ LogIn!Cardinality(Tabs) = Cardinality(Tabs)
         /\ {MaxRetries, MaxReloads} \subseteq Nat /\ MaxRounds \in Nat \ {0}
<1>1. \A S : LogIn!IsFiniteSet(S) <=> IsFiniteSet(S)
  BY DEF LogIn!IsFiniteSet, IsFiniteSet
<1>2. \A S : LogIn!Cardinality(S) = Cardinality(S)
  BY DEF LogIn!Cardinality, Cardinality
<1>3. IsFiniteSet(Tabs) /\ Tabs # {}
  BY <1>1 DEF LogIn!LoginAssumption
<1>4. Cardinality(Tabs) \in Nat /\ Cardinality(Tabs) # 0
  BY <1>3, FS_CardinalityType, FS_EmptySet
<1> QED BY <1>2, <1>3, <1>4 DEF LogIn!LoginAssumption

\* How the tabs that renew change when tab t shows another page.
LEMMA ShowCounts ==
  ASSUME LogIn!LoginAssumption, LoginTypes, NEW t \in Tabs, NEW page \in TabPage,
         LogIn!Show(t, page)
  PROVE  /\ tab' \in [Tabs -> TabPage] /\ tab'[t] = page
         /\ \A u \in Tabs \ {t} : tab'[u] = tab[u]
         /\ Cardinality(Renewing)' \in 0..Cardinality(Tabs)
         /\ (page.at \in {"renew", "restart"} <=> t \in Renewing) =>
              Cardinality(Renewing)' = Cardinality(Renewing)
         /\ page.at \notin {"renew", "restart"} /\ t \in Renewing =>
              Cardinality(Renewing)' = Cardinality(Renewing) - 1
         /\ Cardinality(Renewing) \in 0..Cardinality(Tabs)
<1>1. /\ tab' = [tab EXCEPT ![t] = page] /\ tab \in [Tabs -> TabPage]
  BY DEF LogIn!Show, LoginTypes
<1>2. /\ tab' \in [Tabs -> TabPage] /\ tab'[t] = page
      /\ \A u \in Tabs \ {t} : tab'[u] = tab[u]
  BY <1>1
<1>3. /\ Renewing \in SUBSET Tabs /\ Renewing' \in SUBSET Tabs
      /\ t \in Renewing' <=> page.at \in {"renew", "restart"}
      /\ \A u \in Tabs \ {t} : u \in Renewing' <=> u \in Renewing
  BY <1>2 DEF Renewing
<1>4. IsFiniteSet(Tabs) /\ IsFiniteSet(Renewing) /\ IsFiniteSet(Renewing')
  BY <1>3, TabsFinite, FS_Subset
<1>5. /\ Cardinality(Renewing) \in Nat /\ Cardinality(Renewing) <= Cardinality(Tabs)
      /\ Cardinality(Renewing') \in Nat /\ Cardinality(Renewing') <= Cardinality(Tabs)
      /\ Cardinality(Tabs) \in Nat
  BY <1>3, <1>4, FS_Subset, FS_CardinalityType
<1>6. (page.at \in {"renew", "restart"} <=> t \in Renewing) => Renewing' = Renewing
  BY <1>3
<1>7. ASSUME page.at \notin {"renew", "restart"}, t \in Renewing
      PROVE  Cardinality(Renewing') = Cardinality(Renewing) - 1
  <2>1. Renewing' = Renewing \ {t}
    BY <1>3, <1>7
  <2>2. Cardinality(Renewing \ {t}) = Cardinality(Renewing) - 1
    BY <1>4, <1>7, FS_RemoveElement
  <2> QED BY <2>1, <2>2
<1>8. (Cardinality(Renewing))' = Cardinality(Renewing')
  BY Zenon
<1>9. /\ Cardinality(Renewing') \in 0..Cardinality(Tabs)
      /\ Cardinality(Renewing) \in 0..Cardinality(Tabs)
  BY <1>5
<1> QED BY <1>2, <1>6, <1>7, <1>8, <1>9, Zenon

LEMMA CommandKeepsTypes ==
  ASSUME LogIn!LoginAssumption, LoginTypes, LogIn!Command PROVE LoginTypes'
<1>1. UNCHANGED <<retryCount, tab, reloads>>
  BY DEF LogIn!Command, LogIn!Setup, LogIn!OpenBrowser, LogIn!Receive,
         LogIn!Timeout, LogIn!StopListening, LogIn!Drain, LogIn!ExchangeCode,
         LogIn!Save, LogIn!flow
<1>2. Renewing' = Renewing
  BY <1>1 DEF Renewing
<1>3. /\ rounds' \in 0..MaxRounds /\ lastPKCEVerifier' = rounds'
      /\ {lastState', codeCh', code'} \subseteq 0..MaxRounds
      /\ lastState' <= rounds' /\ rounds <= rounds'
      /\ main' \in {"start", "pkce"} => rounds' = 0
      /\ main' \in LogIn!Mains
  <2> USE DEF LoginTypes, LogIn!flow, LogIn!Mains, LogIn!None
  <2>1. CASE LogIn!Setup
    BY <2>1 DEF LogIn!Setup
  <2>2. CASE LogIn!OpenBrowser
    BY <2>2, TabsFinite DEF LogIn!OpenBrowser
  <2>3. CASE LogIn!Receive
    BY <2>3, TabsFinite DEF LogIn!Receive
  <2>4. CASE LogIn!Timeout
    BY <2>4 DEF LogIn!Timeout
  <2>5. CASE LogIn!StopListening
    BY <2>5 DEF LogIn!StopListening
  <2>6. CASE LogIn!Drain
    BY <2>6 DEF LogIn!Drain
  <2>7. CASE LogIn!ExchangeCode
    BY <2>7 DEF LogIn!ExchangeCode
  <2>8. CASE LogIn!Save
    BY <2>8 DEF LogIn!Save
  <2> QED
    BY <2>1, <2>2, <2>3, <2>4, <2>5, <2>6, <2>7, <2>8 DEF LogIn!Command
<1>4. /\ \A t \in Tabs : tab[t].url <= rounds'
      /\ rounds' = 0 => \A t \in Tabs : tab[t].at = "blank"
  BY <1>3 DEF LoginTypes, TabPage
<1>5. listening' \in BOOLEAN
  BY Zenon DEF LogIn!Command, LogIn!Setup, LogIn!OpenBrowser, LogIn!Receive,
         LogIn!Timeout, LogIn!StopListening, LogIn!Drain, LogIn!ExchangeCode,
         LogIn!Save, LoginTypes
<1> QED BY <1>1, <1>2, <1>3, <1>4, <1>5 DEF LoginTypes

\* A step of tab t that gives it a page, and leaves the verifiers alone.
LEMMA PageKeepsTypes ==
  ASSUME LogIn!LoginAssumption, LoginTypes, NEW t \in Tabs, NEW page \in TabPage,
         LogIn!Show(t, page), page.url <= rounds, rounds # 0,
         page.at \in {"renew", "restart"} <=> t \in Renewing,
         UNCHANGED <<main, listening, LogIn!flow, code>>,
         codeCh' \in 0..MaxRounds, reloads' \in 0..MaxReloads
  PROVE  LoginTypes'
<1>1. /\ tab' \in [Tabs -> TabPage] /\ tab'[t] = page
      /\ \A u \in Tabs \ {t} : tab'[u] = tab[u]
      /\ Cardinality(Renewing)' = Cardinality(Renewing)
  BY ShowCounts
<1>2. \A u \in Tabs : tab'[u].url <= rounds
  BY <1>1 DEF LoginTypes
<1> QED BY <1>1, <1>2 DEF LoginTypes, LogIn!flow

LEMMA BrowserKeepsTypes ==
  ASSUME LogIn!LoginAssumption, LoginTypes, NEW t \in Tabs,
         LogIn!Visit(t) \/ LogIn!Back(t) \/ LogIn!Authorize(t) \/ LogIn!Reload(t)
  PROVE  LoginTypes'
<1>1. UNCHANGED <<main, listening, LogIn!flow, codeCh, code>>
  BY DEF LogIn!Visit, LogIn!Back, LogIn!Authorize, LogIn!Reload,
         LogIn!BrowserStep
<1>2. /\ tab[t] \in TabPage /\ tab[t].url <= rounds /\ rounds \in 0..MaxRounds
      /\ codeCh \in 0..MaxRounds /\ reloads \in 0..MaxReloads
      /\ MaxRounds \in Nat /\ MaxReloads \in Nat
  BY TabsFinite DEF LoginTypes
<1>0. rounds # 0
  BY DEF LogIn!Visit, LogIn!Back, LogIn!Authorize, LogIn!Reload, LoginTypes
<1>3. CASE LogIn!Visit(t)
  <2> DEFINE page == [at |-> "authorize", url |-> 1, kind |-> "none"]
  <2>1. /\ page \in TabPage /\ page.url <= rounds /\ page.at = "authorize"
        /\ tab[t].at = "blank" /\ LogIn!Show(t, page) /\ UNCHANGED reloads
    BY <1>2, <1>3 DEF LogIn!Visit, TabPage, LogIn!Blank
  <2> HIDE DEF page
  <2> QED BY <1>0, <1>1, <1>2, <2>1, PageKeepsTypes DEF Renewing
<1>4. CASE LogIn!Back(t)
  <2>1. PICK r \in 1..(tab[t].url - 1) : LogIn!Show(t, [tab[t] EXCEPT !.url = r])
    BY <1>4 DEF LogIn!Back
  <2>2. /\ tab[t].at = "authorize" /\ r \in 0..MaxRounds /\ r <= rounds
        /\ UNCHANGED reloads
    BY <1>2, <1>4, <2>1 DEF LogIn!Back, TabPage
  <2> DEFINE page == [tab[t] EXCEPT !.url = r]
  <2>3. page \in TabPage
    BY <1>2, <2>2, Zenon DEF TabPage
  <2>4. page.at = "authorize" /\ page.url <= rounds /\ LogIn!Show(t, page)
    BY <1>2, <2>1, <2>2 DEF TabPage
  <2> HIDE DEF page
  <2> QED BY <1>0, <1>1, <1>2, <2>2, <2>3, <2>4, PageKeepsTypes DEF Renewing
<1>5. CASE LogIn!Authorize(t)
  <2>1. PICK kind \in {"code", "org", "error"} :
          LogIn!Show(t, [tab[t] EXCEPT !.at = "callback", !.kind = kind])
    BY <1>5 DEF LogIn!Authorize
  <2> DEFINE page == [tab[t] EXCEPT !.at = "callback", !.kind = kind]
  <2>2. tab[t].at = "authorize" /\ UNCHANGED reloads
    BY <1>5 DEF LogIn!Authorize
  <2>3. page \in TabPage
    BY <1>2, <2>1, Zenon DEF TabPage
  <2>4. page.at = "callback" /\ page.url <= rounds /\ LogIn!Show(t, page)
    BY <1>2, <2>1 DEF TabPage
  <2> HIDE DEF page
  <2> QED BY <1>0, <1>1, <1>2, <2>2, <2>3, <2>4, PageKeepsTypes DEF Renewing
<1>6. CASE LogIn!Reload(t)
  <2> DEFINE page == [tab[t] EXCEPT !.at = "callback"]
  <2>1. tab[t].at = "page" /\ reloads' \in 0..MaxReloads
    BY <1>2, <1>6 DEF LogIn!Reload
  <2>2. page \in TabPage
    BY <1>2, Zenon DEF TabPage
  <2>3. page.at = "callback" /\ page.url <= rounds /\ LogIn!Show(t, page)
    BY <1>2, <1>6 DEF TabPage, LogIn!Reload
  <2> HIDE DEF page
  <2> QED BY <1>0, <1>1, <1>2, <2>1, <2>2, <2>3, PageKeepsTypes DEF Renewing
<1> QED BY <1>3, <1>4, <1>5, <1>6

LEMMA HandlerKeepsTypes ==
  ASSUME LogIn!LoginAssumption, LoginTypes, NEW t \in Tabs, LogIn!Handler(t)
  PROVE  LoginTypes'
<1>1. UNCHANGED <<main, listening, code, reloads>>
  BY DEF LogIn!Handler, LogIn!Callback, LogIn!Renew, LogIn!Restart, LogIn!Send,
         LogIn!HandlerStep
<1>2. /\ tab[t] \in TabPage /\ tab[t].url <= rounds /\ rounds \in 0..MaxRounds
      /\ tab[t].url \in 0..MaxRounds
      /\ codeCh \in 0..MaxRounds /\ reloads \in 0..MaxReloads
      /\ MaxRounds \in Nat /\ MaxReloads \in Nat /\ MaxRetries \in Nat
      /\ Cardinality(Tabs) \in Nat
  BY TabsFinite DEF LoginTypes, TabPage
<1>0. rounds # 0
  BY DEF LogIn!Handler, LogIn!Callback, LogIn!Renew, LogIn!Restart, LogIn!Send,
         LoginTypes
<1>3. CASE LogIn!Callback(t)
  <2> DEFINE page == [tab[t] EXCEPT !.at = LogIn!Outcome(t)]
  <2>1. LogIn!Outcome(t) \in {"renew", "send", "page"} /\ tab[t].at = "callback"
    BY <1>3 DEF LogIn!Callback, LogIn!Outcome
  <2>2. page \in TabPage
    BY <1>2, <2>1, Zenon DEF TabPage, LogIn!Handling
  <2>3. /\ page.at = LogIn!Outcome(t) /\ page.url <= rounds
        /\ LogIn!Show(t, page) /\ UNCHANGED <<LogIn!flow, codeCh>>
    BY <1>2, <1>3 DEF TabPage, LogIn!Callback
  <2> HIDE DEF page
  <2>4. CASE LogIn!Outcome(t) # "renew"
    BY <1>0, <1>1, <1>2, <2>1, <2>2, <2>3, <2>4, PageKeepsTypes DEF Renewing
  <2>5. CASE LogIn!Outcome(t) = "renew"
    <3>1. retryCount < MaxRetries
      BY <2>5 DEF LogIn!Outcome, LogIn!MayRetry
    <3>2. /\ tab' \in [Tabs -> TabPage] /\ tab'[t] = page
          /\ \A u \in Tabs \ {t} : tab'[u] = tab[u]
          /\ Cardinality(Renewing)' \in 0..Cardinality(Tabs)
      BY <2>2, <2>3, ShowCounts
    <3>3. \A u \in Tabs : tab'[u].url <= rounds
      BY <2>3, <3>2 DEF LoginTypes
    <3>4. retryCount + Cardinality(Renewing)' <= MaxRetries + Cardinality(Tabs) - 1
      BY <1>2, <3>1, <3>2 DEF LoginTypes
    <3> QED BY <1>0, <1>1, <2>3, <3>2, <3>3, <3>4 DEF LoginTypes, LogIn!flow
  <2> QED BY <2>4, <2>5
<1>4. CASE LogIn!Renew(t)
  <2> DEFINE page == [tab[t] EXCEPT !.at = "restart", !.url = rounds']
  <2>1. /\ tab[t].at = "renew" /\ rounds' = rounds + 1
        /\ rounds' \in 0..MaxRounds
    BY <1>2, <1>4 DEF LogIn!Renew
  <2>2. page \in TabPage
    BY <1>2, <2>1, Zenon DEF TabPage, LogIn!Handling
  <2>3. /\ page.at = "restart" /\ page.url = rounds'
        /\ LogIn!Show(t, page) /\ lastPKCEVerifier' = rounds'
        /\ UNCHANGED <<lastState, retryCount, codeCh>>
    BY <1>2, <1>4, <2>1 DEF TabPage, LogIn!Renew
  <2> HIDE DEF page
  <2>4. /\ tab' \in [Tabs -> TabPage] /\ tab'[t] = page
        /\ \A u \in Tabs \ {t} : tab'[u] = tab[u]
        /\ Cardinality(Renewing)' = Cardinality(Renewing)
    BY <2>1, <2>2, <2>3, ShowCounts DEF Renewing
  <2>5. \A u \in Tabs : tab'[u].url <= rounds'
    BY <1>2, <2>1, <2>3, <2>4 DEF LoginTypes, TabPage
  <2>6. t \in Renewing /\ main \notin {"start", "pkce"} /\ rounds' # 0
    BY <1>0, <1>2, <2>1 DEF Renewing, LoginTypes
  <2> QED BY <1>1, <1>2, <2>1, <2>3, <2>4, <2>5, <2>6 DEF LoginTypes
<1>5. CASE LogIn!Restart(t)
  <2> DEFINE page == [tab[t] EXCEPT !.at = "authorize", !.kind = "none"]
  <2>1. tab[t].at = "restart" /\ t \in Renewing
    BY <1>5 DEF LogIn!Restart, Renewing
  <2>2. page \in TabPage
    BY <1>2, Zenon DEF TabPage
  <2>3. /\ page.at = "authorize" /\ page.url <= rounds /\ LogIn!Show(t, page)
        /\ lastState' = tab[t].url /\ retryCount' = retryCount + 1
        /\ UNCHANGED <<lastPKCEVerifier, rounds, codeCh>>
    BY <1>2, <1>5 DEF TabPage, LogIn!Restart
  <2> HIDE DEF page
  <2>4. /\ tab' \in [Tabs -> TabPage] /\ tab'[t] = page
        /\ \A u \in Tabs \ {t} : tab'[u] = tab[u]
        /\ Cardinality(Renewing)' = Cardinality(Renewing) - 1
        /\ Cardinality(Renewing) \in 0..Cardinality(Tabs)
    BY <2>1, <2>2, <2>3, ShowCounts
  <2>5. \A u \in Tabs : tab'[u].url <= rounds
    BY <2>3, <2>4 DEF LoginTypes
  <2> QED BY <1>0, <1>1, <1>2, <2>3, <2>4, <2>5 DEF LoginTypes
<1>6. CASE LogIn!Send(t)
  <2> DEFINE page == [tab[t] EXCEPT !.at = "page"]
  <2>1. tab[t].at = "send"
    BY <1>6 DEF LogIn!Send
  <2>2. page \in TabPage
    BY <1>2, Zenon DEF TabPage
  <2>3. /\ page.at = "page" /\ page.url <= rounds /\ LogIn!Show(t, page)
        /\ codeCh' \in 0..MaxRounds /\ UNCHANGED LogIn!flow
    BY <1>2, <1>6 DEF TabPage, LogIn!Send
  <2> HIDE DEF page
  <2> QED BY <1>0, <1>1, <1>2, <2>1, <2>2, <2>3, PageKeepsTypes DEF Renewing
<1> QED BY <1>3, <1>4, <1>5, <1>6 DEF LogIn!Handler

LEMMA LoginTypesStep ==
  ASSUME LogIn!LoginAssumption, LoginTypes, [LogIn!Next]_(LogIn!vars)
  PROVE  LoginTypes'
<1>1. CASE LogIn!Command
  BY <1>1, CommandKeepsTypes
<1>2. ASSUME NEW t \in Tabs, LogIn!Handler(t) PROVE LoginTypes'
  BY <1>2, HandlerKeepsTypes
<1>3. ASSUME NEW t \in Tabs,
             LogIn!Visit(t) \/ LogIn!Back(t) \/ LogIn!Authorize(t)
             \/ LogIn!Reload(t)
      PROVE  LoginTypes'
  BY <1>3, BrowserKeepsTypes
<1>4. CASE UNCHANGED LogIn!vars
  <2>1. Renewing' = Renewing
    BY <1>4 DEF LogIn!vars, Renewing
  <2> QED BY <1>4, <2>1 DEF LogIn!vars, LogIn!flow, LoginTypes
<1> QED BY <1>1, <1>2, <1>3, <1>4 DEF LogIn!Next

LEMMA LoginTypesStart ==
  ASSUME LogIn!LoginAssumption, LogIn!Init PROVE LoginTypes
<1>1. tab = [t \in Tabs |-> LogIn!Blank] /\ LogIn!Blank \in TabPage
  BY TabsFinite DEF LogIn!Init, LogIn!Blank, LogIn!None, TabPage
<1>2. /\ tab \in [Tabs -> TabPage]
      /\ \A t \in Tabs : tab[t].url = 0 /\ tab[t].at = "blank"
  BY <1>1 DEF LogIn!Blank, LogIn!None
<1>3. Renewing = {}
  BY <1>2 DEF Renewing
<1>4. Cardinality(Renewing) = 0
  BY <1>3, FS_EmptySet
<1>5. listening \in BOOLEAN
  BY Zenon DEF LogIn!Init
<1>6. /\ main \in LogIn!Mains /\ rounds = 0 /\ lastPKCEVerifier = rounds
      /\ {lastState, codeCh, code} \subseteq {0} /\ lastState = 0
      /\ retryCount = 0 /\ reloads = 0
  BY DEF LogIn!Init, LogIn!Mains, LogIn!None
<1> QED BY <1>2, <1>4, <1>5, <1>6, TabsFinite DEF LoginTypes

LEMMA LoginTypesShow ==
  ASSUME LogIn!LoginAssumption, LoginTypes PROVE LogIn!TypeOK
<1>1. IsFiniteSet(Renewing)
  BY TabsFinite, FS_Subset DEF Renewing
<1>2. Cardinality(Renewing) \in Nat
  BY <1>1, FS_CardinalityType
<1>3. retryCount \in 0..(MaxRetries + LogIn!Cardinality(Tabs) - 1)
  BY <1>2, TabsFinite DEF LoginTypes
<1>4. {lastPKCEVerifier, lastState, rounds, codeCh, code}
        \subseteq LogIn!Rounds \cup {LogIn!None}
  BY TabsFinite DEF LoginTypes, LogIn!Rounds, LogIn!None
<1>5. \A t \in Tabs :
        /\ tab[t].at \in {"blank", "authorize", "callback", "page"}
                         \cup LogIn!Handling
        /\ tab[t].url \in 0..rounds
  BY TabsFinite DEF LoginTypes, TabPage
<1>6. /\ main \in LogIn!Mains /\ listening \in BOOLEAN
      /\ lastState <= lastPKCEVerifier /\ reloads \in 0..MaxReloads
  BY DEF LoginTypes
<1> QED BY <1>3, <1>4, <1>5, <1>6, Zenon DEF LogIn!TypeOK

LoginToolTypes == On("login") => LoginTypes

LEMMA LoginTypesInvariant == Spec => []LoginToolTypes
<1> USE ServiceCommandsAssumption
<1>1. Init => LoginToolTypes
  BY LoginTypesStart DEF Init, LoginToolTypes, ServiceCommandsAssumption
<1>2. LoginToolTypes /\ [Next]_vars => LoginToolTypes'
  <2> SUFFICES ASSUME LoginToolTypes, [Next]_vars, On("login")' PROVE LoginTypes'
    BY DEF LoginToolTypes
  <2>1. On("login")
    BY ConfigStays DEF On
  <2> QED BY <2>1, LoginSteps, LoginTypesStep
          DEF LoginToolTypes, ServiceCommandsAssumption
<1> QED BY <1>1, <1>2, PTL DEF Spec
-----------------------------------------------------------------------------
(* Simulating a workflow *)

Accumulated == [clients : SUBSET Chains,
                forwarders : [Chains -> Forwarders \cup {NoForwarder}]]

\* The chains seen so far, of which those without a forwarder of their own are
\* supported.
GoodChains ==
  {acc \in Accumulated : \A c \in acc.clients :
     acc.forwarders[c] # NoForwarder \/ c \in Supported}

\* One step of the fold over the settings es, with g for the steps before it.
Folded(rpcs, es, g, s) ==
  IF s = {} THEN [clients |-> rpcs, forwarders |-> Simulate!None]
  ELSE Simulate!AddExperimental(g[s \ {Simulate!Max(s)}], es[Simulate!Max(s)])

IsFold(rpcs, es, g, S) == g = [s \in SUBSET S |-> Folded(rpcs, es, g, s)]

LEMMA ResolvedIsFold ==
  ASSUME NEW rpcs, NEW es
  PROVE  Simulate!Resolved(rpcs, es) =
           (CHOOSE g : IsFold(rpcs, es, g, DOMAIN es))[DOMAIN es]
  BY Zenon DEF Simulate!Resolved, Simulate!FoldLeft, Simulate!MapThenFoldSet,
     IsFold, Folded

LEMMA LargestIsMax ==
  ASSUME NEW n \in Nat, NEW s \in SUBSET (1..n), n \in s
  PROVE  Simulate!Max(s) = n
<1>1. n \in s /\ \A y \in s : n >= y
  OBVIOUS
<1>2. \A x \in s : (\A y \in s : x >= y) => x = n
  BY <1>1
<1>3. Simulate!Max(s) \in s /\ \A y \in s : Simulate!Max(s) >= y
  BY <1>1, Zenon DEF Simulate!Max
<1> QED BY <1>2, <1>3

LEMMA FoldExtends ==
  ASSUME NEW rpcs, NEW es, NEW n \in Nat, NEW g, IsFold(rpcs, es, g, 1..n)
  PROVE  \E h : IsFold(rpcs, es, h, 1..(n + 1))
<1> DEFINE h == [s \in SUBSET (1..(n + 1)) |->
                  IF n + 1 \in s
                  THEN Simulate!AddExperimental(g[s \ {n + 1}], es[n + 1])
                  ELSE g[s]]
<1>1. ASSUME NEW s \in SUBSET (1..(n + 1)) PROVE h[s] = Folded(rpcs, es, h, s)
  <2>1. CASE n + 1 \in s
    <3>1. s \ {n + 1} \in SUBSET (1..(n + 1)) /\ n + 1 \notin s \ {n + 1} /\ s # {}
      BY <2>1
    <3>2. Simulate!Max(s) = n + 1
      BY <2>1, LargestIsMax
    <3>3. h[s \ {n + 1}] = g[s \ {n + 1}]
      BY <3>1, Zenon
    <3>4. h[s] = Simulate!AddExperimental(g[s \ {n + 1}], es[n + 1])
      BY <2>1, Zenon
    <3> QED BY <3>1, <3>2, <3>3, <3>4, Zenon DEF Folded
  <2>2. CASE n + 1 \notin s
    <3>1. s \in SUBSET (1..n)
      BY <2>2
    <3>2. h[s] = g[s]
      BY <2>2, Zenon
    <3>3. g[s] = Folded(rpcs, es, g, s)
      BY <3>1, Zenon DEF IsFold
    <3>4. \A x : s \ {x} \in SUBSET (1..(n + 1)) /\ n + 1 \notin s \ {x}
      BY <2>2
    <3>5. \A x : h[s \ {x}] = g[s \ {x}]
      BY <3>4, Zenon
    <3> QED BY <3>2, <3>3, <3>5, Zenon DEF Folded
  <2> QED BY <2>1, <2>2
<1>2. h = [s \in SUBSET (1..(n + 1)) |-> h[s]]
  BY Zenon
<1>3. h = [s \in SUBSET (1..(n + 1)) |-> Folded(rpcs, es, h, s)]
  <2> HIDE DEF h
  <2> QED BY <1>1, <1>2, Zenon
<1> QED BY <1>3, Zenon DEF IsFold

LEMMA FoldExists ==
  ASSUME NEW rpcs, NEW es
  PROVE  \A n \in Nat : \E g : IsFold(rpcs, es, g, 1..n)
<1> DEFINE S == {n \in Nat : \E g : IsFold(rpcs, es, g, 1..n)}
<1>1. 0 \in S
  <2> DEFINE g == [s \in {{}} |-> [clients |-> rpcs, forwarders |-> Simulate!None]]
  <2>1. SUBSET (1..0) = {{}}
    OBVIOUS
  <2>2. g = [s \in {{}} |-> Folded(rpcs, es, g, s)]
    BY Zenon DEF Folded
  <2>3. IsFold(rpcs, es, g, 1..0)
    BY <2>1, <2>2, Zenon DEF IsFold
  <2> QED BY <2>3
<1>2. ASSUME NEW n \in Nat, n \in S PROVE n + 1 \in S
  BY <1>2, FoldExtends
<1> HIDE DEF S
<1>3. \A n \in Nat : n \in S
  BY <1>1, <1>2, AllNumbers
<1> QED BY <1>3 DEF S

LEMMA AddKeepsGood ==
  ASSUME Simulate!SimulationAssumption, NEW acc \in GoodChains,
         NEW e \in Simulate!Experimental
  PROVE  Simulate!AddExperimental(acc, e) \in GoodChains
  BY DEF Simulate!SimulationAssumption, GoodChains, Accumulated,
         Simulate!Experimental, Simulate!AddExperimental

\* The settings leave each client with a forwarder or a supported chain.
LEMMA ResolvedIsGood ==
  ASSUME Simulate!SimulationAssumption, NEW rpcs \in SUBSET Supported,
         NEW n \in Nat, NEW es \in [1..n -> Simulate!Experimental]
  PROVE  Simulate!Resolved(rpcs, es) \in GoodChains
<1> DEFINE fold == CHOOSE g : IsFold(rpcs, es, g, DOMAIN es)
<1>1. DOMAIN es = 1..n
  OBVIOUS
<1>2. \E g : IsFold(rpcs, es, g, DOMAIN es)
  BY <1>1, FoldExists
<1>3. IsFold(rpcs, es, fold, DOMAIN es)
  BY <1>2, Zenon
<1>4. Simulate!Resolved(rpcs, es) = fold[1..n]
  BY <1>1, ResolvedIsFold
<1> HIDE DEF fold
<1>5. \A s \in SUBSET (1..n) : fold[s] = Folded(rpcs, es, fold, s)
  BY <1>1, <1>3, Zenon DEF IsFold
<1> DEFINE S == {k \in Nat : k <= n => fold[1..k] \in GoodChains}
<1>6. 0 \in S
  <2>1. 1..0 = {} /\ {} \in SUBSET (1..n)
    OBVIOUS
  <2>2. fold[1..0] = [clients |-> rpcs, forwarders |-> Simulate!None]
    BY <1>5, <2>1, Zenon DEF Folded
  <2> QED BY <2>2 DEF GoodChains, Accumulated, Simulate!None,
                       Simulate!SimulationAssumption
<1>7. ASSUME NEW k \in Nat, k \in S PROVE k + 1 \in S
  <2>1. SUFFICES ASSUME k + 1 <= n PROVE fold[1..(k + 1)] \in GoodChains
    OBVIOUS
  <2>2. /\ 1..(k + 1) \in SUBSET (1..n) /\ 1..(k + 1) # {}
        /\ (1..(k + 1)) \ {k + 1} = 1..k /\ k + 1 \in 1..(k + 1)
    <3>1. \A i \in 1..(k + 1) : i \in 1..n
      BY <2>1
    <3>2. \A i : i \in (1..(k + 1)) \ {k + 1} <=> i \in 1..k
      OBVIOUS
    <3>3. k + 1 \in 1..(k + 1)
      OBVIOUS
    <3>4. (1..(k + 1)) \ {k + 1} = 1..k
      BY <3>2
    <3> QED BY <3>1, <3>3, <3>4, Zenon
  <2>3. Simulate!Max(1..(k + 1)) = k + 1
    BY <2>2, LargestIsMax
  <2>4. fold[1..(k + 1)] = Simulate!AddExperimental(fold[1..k], es[k + 1])
    BY <1>5, <2>2, <2>3, Zenon DEF Folded
  <2>5. fold[1..k] \in GoodChains /\ es[k + 1] \in Simulate!Experimental
    BY <1>7, <2>1
  <2> QED BY <2>4, <2>5, AddKeepsGood
<1> HIDE DEF S
<1>8. \A k \in Nat : k \in S
  BY <1>6, <1>7, AllNumbers
<1> QED BY <1>4, <1>8 DEF S

LEMMA BoundedSeqIs ==
  ASSUME NEW S, NEW n \in Nat, NEW es \in Simulate!BoundedSeq(S, n)
  PROVE  \E m \in 0..n : es \in [1..m -> S] /\ Len(es) = m
<1>1. PICK m \in 0..n : es \in [1..m -> S]
  BY Zenon DEF Simulate!BoundedSeq, Simulate!SeqOf
<1>2. es \in Seq(S) /\ Len(es) = m
  BY <1>1
<1> QED BY <1>1, <1>2

Early == {"resolve", "validate", "compile", "initialize", "beforeStart"}
Later == {"choose", "payload", "log", "start", "uninitialized", "wait"}

SimulatedInputs ==
  [key : {"own", "default"}, broadcast : BOOLEAN, nonInteractive : BOOLEAN,
   triggerIndex : -1..MaxTriggers, verbose : BOOLEAN]

\* A transaction goes out with a key of one's own, once the inputs were
\* validated.
InputsInv ==
  /\ inputs \in SimulatedInputs
  /\ main = "resolve" => ~written
  /\ main \notin {"resolve", "validate", "error"} =>
       ~(inputs.broadcast /\ inputs.key = "default")
  /\ Simulate!WroteOnPurpose

\* The fake chains are those of the clients, none of which is left out.
ChainsInv ==
  /\ [clients |-> clients, forwarders |-> experimentalForwarders] \in GoodChains
  /\ evmChains \in [Chains -> Forwarders \cup {NoForwarder}]
  /\ main \in Later \cup {"beforeStart"} => evmChains = Simulate!FakeChains

\* The trigger that is run is one of those there are.
TriggerInv ==
  /\ subs \in Seq(Simulate!Triggers)
  /\ main \in Early => toRun = 0 /\ registration = -1
  /\ toRun \in 0..Len(subs) /\ registration \in -1..(Len(subs) - 1)
  /\ Simulate!TriggerIsRegistered

\* What is shown is decided when the workflow finishes.
ShownInv ==
  /\ failure \in BOOLEAN
  /\ engine \in {"off", "ready", "running"} => shown = "none"
  /\ Simulate!SuccessIsClean

SimulationInv ==
  Simulate!TypeOK /\ InputsInv /\ ChainsInv /\ TriggerInv /\ ShownInv

LEMMA SimulationStarts ==
  ASSUME Simulate!SimulationAssumption, Simulate!Init
  PROVE  SimulationInv
<1>1. inputs \in SimulatedInputs
  BY DEF Simulate!Init, SimulatedInputs, Simulate!SimulationAssumption
<1>2. subs \in Seq(Simulate!Triggers) /\ Len(subs) = 0
  BY DEF Simulate!Init
<1>3. ChainsInv
  BY DEF Simulate!Init, ChainsInv, GoodChains, Accumulated, Simulate!None, Later
<1>4. InputsInv
  BY <1>1 DEF Simulate!Init, InputsInv, Simulate!WroteOnPurpose
<1>5. TriggerInv
  BY <1>2 DEF Simulate!Init, TriggerInv, Simulate!TriggerIsRegistered
<1>6. ShownInv
  BY DEF Simulate!Init, ShownInv, Simulate!SuccessIsClean
<1>7. Simulate!TypeOK
  BY <1>3, <1>5
     DEF Simulate!Init, Simulate!TypeOK, ChainsInv, GoodChains, Accumulated,
         TriggerInv, Simulate!Ends
<1> QED BY <1>3, <1>4, <1>5, <1>6, <1>7 DEF SimulationInv

LEMMA ResolveKeeps ==
  ASSUME Simulate!SimulationAssumption, SimulationInv, Simulate!ResolveInputs
  PROVE  SimulationInv'
<1>1. /\ main = "resolve" /\ main' \in {"validate", "error"}
      /\ UNCHANGED <<evmChains, Simulate!choice, engine, interrupted, written,
                     Simulate!telemetry>>
  BY DEF Simulate!ResolveInputs
<1>2. /\ [clients |-> clients', forwarders |-> experimentalForwarders']
           \in GoodChains
      /\ inputs' \in SimulatedInputs
  <2>1. CASE UNCHANGED Simulate!settings
    BY <2>1 DEF Simulate!settings, SimulationInv, ChainsInv, InputsInv
  <2>2. ASSUME NEW rpcs \in SUBSET Supported,
               NEW es \in Simulate!BoundedSeq(Simulate!Experimental, MaxExperimental),
               clients' = Simulate!Resolved(rpcs, es).clients,
               experimentalForwarders' = Simulate!Resolved(rpcs, es).forwarders
        PROVE  [clients |-> clients', forwarders |-> experimentalForwarders']
                 \in GoodChains
    <3>1. PICK m \in 0..MaxExperimental : es \in [1..m -> Simulate!Experimental]
      BY BoundedSeqIs DEF Simulate!SimulationAssumption
    <3>2. m \in Nat
      BY DEF Simulate!SimulationAssumption
    <3>3. Simulate!Resolved(rpcs, es) \in GoodChains
      BY <3>1, <3>2, ResolvedIsGood
    <3> QED BY <2>2, <3>3 DEF GoodChains, Accumulated
  <2>3. ASSUME NEW key \in {"own", "default", "bad"}, NEW broadcast \in BOOLEAN,
               NEW nonInteractive \in BOOLEAN,
               NEW triggerIndex \in -1..MaxTriggers, NEW verbose \in BOOLEAN
        PROVE  [key |-> Simulate!Key(key), broadcast |-> broadcast,
                nonInteractive |-> nonInteractive,
                triggerIndex |-> triggerIndex, verbose |-> verbose]
                 \in SimulatedInputs
    BY DEF Simulate!Key, SimulatedInputs
  <2>4. PICK rpcs \in SUBSET Supported,
             es \in Simulate!BoundedSeq(Simulate!Experimental, MaxExperimental),
             key \in {"own", "default", "bad"}, broadcast \in BOOLEAN,
             nonInteractive \in BOOLEAN, triggerIndex \in -1..MaxTriggers,
             verbose \in BOOLEAN :
          LET r == Simulate!Resolved(rpcs, es) IN
          \/ /\ r.clients # {} /\ ~(key = "bad" /\ broadcast)
             /\ nonInteractive \/ triggerIndex = -1
             /\ main' = "validate"
             /\ inputs' = [key |-> Simulate!Key(key), broadcast |-> broadcast,
                           nonInteractive |-> nonInteractive,
                           triggerIndex |-> triggerIndex, verbose |-> verbose]
             /\ clients' = r.clients /\ experimentalForwarders' = r.forwarders
          \/ main' = "error" /\ UNCHANGED Simulate!settings
    BY Zenon DEF Simulate!ResolveInputs
  <2>5. CASE /\ inputs' = [key |-> Simulate!Key(key), broadcast |-> broadcast,
                           nonInteractive |-> nonInteractive,
                           triggerIndex |-> triggerIndex, verbose |-> verbose]
             /\ clients' = Simulate!Resolved(rpcs, es).clients
             /\ experimentalForwarders' = Simulate!Resolved(rpcs, es).forwarders
    <3>1. [clients |-> clients', forwarders |-> experimentalForwarders']
            \in GoodChains
      BY <2>2, <2>5
    <3>2. inputs' \in SimulatedInputs
      BY <2>3, <2>5
    <3> QED BY <3>1, <3>2
  <2> QED BY <2>1, <2>4, <2>5
<1> QED BY <1>1, <1>2
     DEF SimulationInv, Simulate!TypeOK, InputsInv, ChainsInv, TriggerInv,
         ShownInv, Simulate!WroteOnPurpose, Simulate!TriggerIsRegistered,
         Simulate!SuccessIsClean, GoodChains, Accumulated, Simulate!choice,
         Simulate!telemetry, Early, Later, Simulate!Ends

LEMMA PrepareKeeps ==
  ASSUME Simulate!SimulationAssumption, SimulationInv,
         Simulate!ValidateInputs \/ Simulate!Compile \/ Simulate!Initialize
  PROVE  SimulationInv'
<1>1. CASE Simulate!ValidateInputs \/ Simulate!Compile
  BY <1>1
     DEF Simulate!ValidateInputs, Simulate!Compile, Simulate!Step,
         Simulate!settings, SimulationInv, Simulate!TypeOK, InputsInv,
         ChainsInv, TriggerInv, ShownInv, Simulate!WroteOnPurpose,
         Simulate!TriggerIsRegistered, Simulate!SuccessIsClean,
         Simulate!choice, Simulate!telemetry, Early, Later, Simulate!Ends,
         SimulatedInputs
<1>2. CASE Simulate!Initialize
  <2>1. Simulate!FakeChains \in [Chains -> Forwarders \cup {NoForwarder}]
    BY DEF Simulate!FakeChains, Simulate!ForwarderOf, SimulationInv,
           Simulate!TypeOK, Simulate!SimulationAssumption
  <2>2. Simulate!FakeChains' = Simulate!FakeChains
    BY <1>2 DEF Simulate!Initialize, Simulate!settings, Simulate!FakeChains,
                Simulate!ForwarderOf
  <2>3. /\ main = "initialize" /\ main' \in {"exit1", "beforeStart"}
        /\ main' = "exit1" => evmChains' = evmChains
        /\ main' = "beforeStart" => evmChains' = Simulate!FakeChains
        /\ UNCHANGED <<Simulate!settings, Simulate!choice, engine, interrupted,
                       written, Simulate!telemetry>>
    BY <1>2 DEF Simulate!Initialize
  <2> QED BY <2>1, <2>2, <2>3
       DEF Simulate!settings, SimulationInv, Simulate!TypeOK, InputsInv,
           ChainsInv, TriggerInv, ShownInv, Simulate!WroteOnPurpose,
           Simulate!TriggerIsRegistered, Simulate!SuccessIsClean,
           Simulate!choice, Simulate!telemetry, Early, Later, Simulate!Ends
<1> QED BY <1>1, <1>2

\* What a step leaves of the invariant when it only chooses a trigger.
LEMMA ChoiceKeeps ==
  ASSUME SimulationInv,
         main \in {"beforeStart", "choose"},
         main' \in {"choose", "payload", "log", "start", "exit1"},
         subs' \in Seq(Simulate!Triggers),
         \/ toRun' = 0 /\ registration' = -1
         \/ toRun' \in 1..Len(subs') /\ registration' = toRun' - 1,
         UNCHANGED <<Simulate!settings, evmChains, engine, interrupted, written,
                     Simulate!telemetry>>
  PROVE  SimulationInv'
<1>1. Len(subs') \in Nat
  OBVIOUS
<1>2. Simulate!FakeChains' = Simulate!FakeChains
  BY DEF Simulate!settings, Simulate!FakeChains, Simulate!ForwarderOf
<1> QED BY <1>1, <1>2
     DEF Simulate!settings, SimulationInv, Simulate!TypeOK, InputsInv,
         ChainsInv, TriggerInv, ShownInv, Simulate!WroteOnPurpose,
         Simulate!TriggerIsRegistered, Simulate!SuccessIsClean,
         Simulate!telemetry, Early, Later, Simulate!Ends

LEMMA ChooseKeeps ==
  ASSUME Simulate!SimulationAssumption, SimulationInv,
         Simulate!BeforeStart \/ Simulate!PickTrigger
  PROVE  SimulationInv'
<1>1. ASSUME NEW ts \in Seq(Simulate!Triggers), NEW i \in 1..Len(ts),
             Simulate!Chosen(ts, i)
      PROVE  /\ main' \in {"payload", "log", "start", "exit1"}
             /\ toRun' \in 1..Len(ts) /\ registration' = toRun' - 1
  BY <1>1 DEF Simulate!Chosen, Simulate!AfterChoice
<1>2. CASE Simulate!BeforeStart
  <2>1. PICK ts \in Simulate!BoundedSeq(Simulate!Triggers, MaxTriggers) :
          /\ subs' = ts
          /\ IF Len(ts) = 0
             THEN main' = "exit1" /\ UNCHANGED <<toRun, registration>>
             ELSE IF inputs.nonInteractive
             THEN IF inputs.triggerIndex \in 0..(Len(ts) - 1)
                  THEN Simulate!Chosen(ts, inputs.triggerIndex + 1)
                  ELSE main' = "exit1" /\ UNCHANGED <<toRun, registration>>
             ELSE IF Len(ts) = 1 THEN Simulate!Chosen(ts, 1)
             ELSE main' = "choose" /\ UNCHANGED <<toRun, registration>>
    BY <1>2 DEF Simulate!BeforeStart
  <2>2. ts \in Seq(Simulate!Triggers) /\ Len(ts) \in Nat
    BY BoundedSeqIs DEF Simulate!SimulationAssumption
  <2>3. /\ main = "beforeStart" /\ toRun = 0 /\ registration = -1
        /\ UNCHANGED <<Simulate!settings, evmChains, engine, interrupted,
                       written, Simulate!telemetry>>
    BY <1>2 DEF Simulate!BeforeStart, SimulationInv, TriggerInv, Early
  <2>4. /\ Len(ts) # 0 /\ Len(ts) = 1 => 1 \in 1..Len(ts)
        /\ inputs.triggerIndex \in 0..(Len(ts) - 1) =>
             inputs.triggerIndex + 1 \in 1..Len(ts)
    BY <2>2
  <2>5. \/ /\ main' \in {"choose", "exit1"} /\ toRun' = 0 /\ registration' = -1
        \/ \E i \in 1..Len(ts) : Simulate!Chosen(ts, i)
    BY <2>1, <2>3, <2>4
  <2>6. /\ main' \in {"choose", "payload", "log", "start", "exit1"}
        /\ \/ toRun' = 0 /\ registration' = -1
           \/ toRun' \in 1..Len(ts) /\ registration' = toRun' - 1
    BY <1>1, <2>2, <2>5
  <2> QED BY <2>1, <2>2, <2>3, <2>6, ChoiceKeeps
<1>3. CASE Simulate!PickTrigger
  <2>1. subs \in Seq(Simulate!Triggers)
    BY DEF SimulationInv, TriggerInv
  <2>2. /\ main = "choose" /\ subs' = subs
        /\ UNCHANGED <<Simulate!settings, evmChains, engine, interrupted,
                       written, Simulate!telemetry>>
        /\ \E i \in 1..Len(subs) : Simulate!Chosen(subs, i)
    BY <1>3 DEF Simulate!PickTrigger
  <2>3. /\ main' \in {"choose", "payload", "log", "start", "exit1"}
        /\ toRun' \in 1..Len(subs) /\ registration' = toRun' - 1
    BY <1>1, <2>1, <2>2
  <2> QED BY <2>1, <2>2, <2>3, ChoiceKeeps
<1> QED BY <1>2, <1>3

\* The other steps leave inputs, chains and trigger as they are.
LEMMA RunKeeps ==
  ASSUME SimulationInv,
         main \notin Early \/ main' = main,
         main' \in Later => main \in Later \cup {"beforeStart"},
         main' \in Simulate!Ends \cup Later \cup {"cleanup"} \/ main' = main,
         main = "error" <=> main' = "error",
         UNCHANGED <<Simulate!settings, evmChains, Simulate!choice>>,
         written' = written \/ (inputs.broadcast /\ main \in {"wait", "cleanup"}),
         Simulate!TypeOK', ShownInv'
  PROVE  SimulationInv'
<1>1. Simulate!FakeChains' = Simulate!FakeChains
  BY DEF Simulate!settings, Simulate!FakeChains, Simulate!ForwarderOf
<1> QED BY <1>1
     DEF Simulate!settings, SimulationInv, InputsInv, SimulatedInputs,
         ChainsInv, TriggerInv, Simulate!WroteOnPurpose,
         Simulate!TriggerIsRegistered, Simulate!choice, Early, Later,
         Simulate!Ends

LEMMA CommandKeepsSimulation ==
  ASSUME SimulationInv,
         \/ Simulate!PickFails \/ Simulate!PayloadFromFlag
         \/ Simulate!LogFromFlags \/ Simulate!AskPayload \/ Simulate!AskLog
         \/ Simulate!Start \/ Simulate!FireTrigger \/ Simulate!StopWaiting
         \/ Simulate!Cleanup
  PROVE  SimulationInv'
<1>1. /\ main \notin Early /\ main # "error"
      /\ main' \in Later => main \in Later
      /\ main' \in {"exit0", "exit1", "cleanup"} \cup Later
      /\ UNCHANGED <<Simulate!settings, evmChains, Simulate!choice, written,
                     Simulate!telemetry>>
      /\ engine' = engine \/ (engine = "ready" /\ engine' = "running")
  BY DEF Simulate!PickFails, Simulate!PayloadFromFlag, Simulate!LogFromFlags,
         Simulate!AskPayload, Simulate!AskLog, Simulate!Data, Simulate!Start,
         Simulate!FireTrigger, Simulate!StopWaiting, Simulate!Cleanup,
         Simulate!Step, Simulate!EngineStep, Early, Later
<1>2. Simulate!TypeOK' /\ ShownInv'
  BY <1>1
     DEF SimulationInv, Simulate!TypeOK, ShownInv, Simulate!SuccessIsClean,
         Simulate!settings, Simulate!choice, Simulate!telemetry, Later,
         Simulate!Ends
<1> QED BY <1>1, <1>2, RunKeeps DEF Simulate!Ends, Later

LEMMA EngineKeepsSimulation ==
  ASSUME SimulationInv, Simulate!Engine \/ Simulate!Interrupt
  PROVE  SimulationInv'
<1>1. /\ main \notin Early \/ main' = main
      /\ main' = main \/ (main # "error" /\ main' = "exit1")
      /\ UNCHANGED <<Simulate!settings, evmChains, Simulate!choice>>
      /\ written' = written \/ (inputs.broadcast /\ main \in {"wait", "cleanup"})
      /\ engine' \in {"off", "ready", "running", "finished", "result", "crashed"}
  BY DEF Simulate!Engine, Simulate!OnInitialized, Simulate!ChainWrite,
         Simulate!CapabilityFinished, Simulate!WorkflowFinished,
         Simulate!OnResult, Simulate!OnExecutionError, Simulate!Interrupt,
         Simulate!EngineStep, Early, SimulationInv, Simulate!TypeOK
<1>2. ShownInv' /\ shown' \in {"none", "SUCCESS", "FAILED", "OTHER"}
  BY DEF Simulate!Engine, Simulate!OnInitialized, Simulate!ChainWrite,
         Simulate!CapabilityFinished, Simulate!WorkflowFinished,
         Simulate!mapWorkflowStatus, Simulate!EngineStatus, Simulate!OnResult,
         Simulate!OnExecutionError, Simulate!Interrupt, Simulate!telemetry,
         SimulationInv, InputsInv, SimulatedInputs, ShownInv, Simulate!TypeOK,
         Simulate!SuccessIsClean
<1>3. Simulate!TypeOK'
  BY <1>1, <1>2
     DEF SimulationInv, Simulate!TypeOK, Simulate!settings, Simulate!choice,
         Simulate!Ends
<1> QED BY <1>1, <1>2, <1>3, RunKeeps DEF Simulate!Ends, Later

LEMMA SimulationStep ==
  ASSUME Simulate!SimulationAssumption, SimulationInv,
         [Simulate!Next]_(Simulate!vars)
  PROVE  SimulationInv'
<1>1. CASE UNCHANGED Simulate!vars
  BY <1>1
     DEF Simulate!vars, Simulate!settings, Simulate!choice, Simulate!telemetry,
         SimulationInv, Simulate!TypeOK, InputsInv, ChainsInv, TriggerInv,
         ShownInv, Simulate!WroteOnPurpose, Simulate!TriggerIsRegistered,
         Simulate!SuccessIsClean, Simulate!FakeChains, Simulate!ForwarderOf
<1> QED BY <1>1, ResolveKeeps, PrepareKeeps, ChooseKeeps,
           CommandKeepsSimulation, EngineKeepsSimulation
        DEF Simulate!Next, Simulate!Command, Simulate!Answer

LEMMA SimulationShows ==
  ASSUME Simulate!SimulationAssumption, SimulationInv
  PROVE  /\ Simulate!TypeOK /\ Simulate!SuccessIsClean
         /\ Simulate!WroteOnPurpose /\ Simulate!ClientsAreChains
         /\ Simulate!TriggerIsRegistered
<1>1. Simulate!ClientsAreChains
  <2>1. ASSUME NEW c \in clients, evmChains = Simulate!FakeChains
        PROVE  evmChains[c] # NoForwarder
    BY <2>1
       DEF Simulate!FakeChains, Simulate!ForwarderOf, SimulationInv, ChainsInv,
           GoodChains, Accumulated, Simulate!SimulationAssumption
  <2> QED BY <2>1 DEF SimulationInv, ChainsInv, Simulate!ClientsAreChains, Later
<1> QED BY <1>1 DEF SimulationInv, InputsInv, TriggerInv, ShownInv

SimulationToolInv == On("simulate") => SimulationInv

LEMMA SimulateSteps ==
  ASSUME On("simulate"), [Next]_vars PROVE [Simulate!Next]_(Simulate!vars)
  BY DEF On, Next, vars, simulateVars, Simulate!vars, Simulate!settings,
         Simulate!choice, Simulate!telemetry

LEMMA SimulationInvariant == Spec => []SimulationToolInv
<1>1. Simulate!SimulationAssumption
  BY ServiceCommandsAssumption DEF ServiceCommandsAssumption
<1>2. Init => SimulationToolInv
  BY <1>1, SimulationStarts DEF Init, SimulationToolInv
<1>3. SimulationToolInv /\ [Next]_vars => SimulationToolInv'
  BY <1>1, ConfigStays, SimulateSteps, SimulationStep DEF SimulationToolInv, On
<1> QED BY <1>2, <1>3, PTL DEF Spec

\* What is simulated is what the user asked for: a transaction is sent only
\* with --broadcast and a key of one's own, every chain with a client has a
\* fake chain, whatever the settings say of it and however often, and the
\* trigger that is fired is the one that was picked.
THEOREM SimulationsAreAsAsked == Spec => []SimulatedAsAsked
<1>1. Simulate!SimulationAssumption
  BY ServiceCommandsAssumption DEF ServiceCommandsAssumption
<1>2. SimulationToolInv => SimulatedAsAsked
  BY <1>1, SimulationShows DEF SimulationToolInv, SimulatedAsAsked
<1> QED BY <1>2, SimulationInvariant, PTL
-----------------------------------------------------------------------------
(* The groups that are proved about in modules of their own *)

LinkP == INSTANCE KeyLinkingProofs WITH
  Type <- "regular", SkipConfirmation <- FALSE, Validity <- 1, MaxAttempts <- 2
LinkMsigP == INSTANCE KeyLinkingProofs WITH
  Type <- "raw", SkipConfirmation <- TRUE, Validity <- 1, MaxAttempts <- 2,
  Procs <- OneProc
SecretsP == INSTANCE SecretsCommandsProofs WITH
  Type <- "regular", SkipConfirmation <- FALSE, Timeouts <- {1, 3},
  MaxDuration <- 2, MaxItems <- 1, Attempts <- 2, MaxClock <- 1,
  MaxCommands <- MaxRequests
SecretsMsigP == INSTANCE SecretsCommandsProofs WITH
  Type <- "changeset", SkipConfirmation <- FALSE, Timeouts <- 1..2,
  MaxDuration <- 2, MaxItems <- 1, Attempts <- 2, MaxClock <- 1,
  MaxCommands <- MaxRequests, Procs <- OneProc

LEMMA LinkPIsModule ==
  /\ Link!KeyLinkingAssumption => LinkP!KeyLinkingAssumption
  /\ Link!Init => LinkP!Init
  /\ [Link!Next]_(Link!vars) => [LinkP!Next]_(LinkP!vars)
  BY DEF
     Link!KeyLinkingAssumption, LinkP!KeyLinkingAssumption, Link!Msig,
     LinkP!Msig, Link!chainVars, LinkP!chainVars, Link!outVars,
     LinkP!outVars, Link!vars, LinkP!vars, Link!Linked, LinkP!Linked,
     Link!Accepts, LinkP!Accepts, Link!Land, LinkP!Land, Link!BackendSync,
     LinkP!BackendSync, Link!Tick, LinkP!Tick, Link!MineLate, LinkP!MineLate,
     Link!SubmitPrepared, LinkP!SubmitPrepared, Link!Idle, LinkP!Idle,
     Link!At, LinkP!At, Link!Goto, LinkP!Goto, Link!Finish, LinkP!Finish,
     Link!LocalStep, LinkP!LocalStep, Link!Start, LinkP!Start,
     Link!StartLink, LinkP!StartLink, Link!StartUnlink, LinkP!StartUnlink,
     Link!StartDeploy, LinkP!StartDeploy, Link!Connect, LinkP!Connect,
     Link!CallFails, LinkP!CallFails, Link!Ownership, LinkP!Ownership,
     Link!VerifiedFor, LinkP!VerifiedFor, Link!AskBackend, LinkP!AskBackend,
     Link!AfterLink, LinkP!AfterLink, Link!LinkCheck, LinkP!LinkCheck,
     Link!UnlinkCheck, LinkP!UnlinkCheck, Link!Confirm, LinkP!Confirm,
     Link!Initiate, LinkP!Initiate, Link!Tx, LinkP!Tx, Link!ProofHolds,
     LinkP!ProofHolds, Link!VerifyProof, LinkP!VerifyProof, Link!Submit,
     LinkP!Submit, Link!Another, LinkP!Another, Link!Poll, LinkP!Poll,
     Link!Init, LinkP!Init, Link!Step, LinkP!Step, Link!Next, LinkP!Next,
     Link!TxTypes, LinkP!TxTypes, Link!ReceiptResult, LinkP!ReceiptResult,
     Link!TxResults, LinkP!TxResults, Link!Landed, LinkP!Landed,
     Link!Succeeded, LinkP!Succeeded

LEMMA LinkMsigPIsModule ==
  /\ LinkMsig!KeyLinkingAssumption => LinkMsigP!KeyLinkingAssumption
  /\ LinkMsig!Init => LinkMsigP!Init
  /\ [LinkMsig!Next]_(LinkMsig!vars) => [LinkMsigP!Next]_(LinkMsigP!vars)
  BY DEF
     LinkMsig!KeyLinkingAssumption, LinkMsigP!KeyLinkingAssumption,
     LinkMsig!Msig, LinkMsigP!Msig, LinkMsig!chainVars, LinkMsigP!chainVars,
     LinkMsig!outVars, LinkMsigP!outVars, LinkMsig!vars, LinkMsigP!vars,
     LinkMsig!Linked, LinkMsigP!Linked, LinkMsig!Accepts, LinkMsigP!Accepts,
     LinkMsig!Land, LinkMsigP!Land, LinkMsig!BackendSync,
     LinkMsigP!BackendSync, LinkMsig!Tick, LinkMsigP!Tick, LinkMsig!MineLate,
     LinkMsigP!MineLate, LinkMsig!SubmitPrepared, LinkMsigP!SubmitPrepared,
     LinkMsig!Idle, LinkMsigP!Idle, LinkMsig!At, LinkMsigP!At, LinkMsig!Goto,
     LinkMsigP!Goto, LinkMsig!Finish, LinkMsigP!Finish, LinkMsig!LocalStep,
     LinkMsigP!LocalStep, LinkMsig!Start, LinkMsigP!Start,
     LinkMsig!StartLink, LinkMsigP!StartLink, LinkMsig!StartUnlink,
     LinkMsigP!StartUnlink, LinkMsig!StartDeploy, LinkMsigP!StartDeploy,
     LinkMsig!Connect, LinkMsigP!Connect, LinkMsig!CallFails,
     LinkMsigP!CallFails, LinkMsig!Ownership, LinkMsigP!Ownership,
     LinkMsig!VerifiedFor, LinkMsigP!VerifiedFor, LinkMsig!AskBackend,
     LinkMsigP!AskBackend, LinkMsig!AfterLink, LinkMsigP!AfterLink,
     LinkMsig!LinkCheck, LinkMsigP!LinkCheck, LinkMsig!UnlinkCheck,
     LinkMsigP!UnlinkCheck, LinkMsig!Confirm, LinkMsigP!Confirm,
     LinkMsig!Initiate, LinkMsigP!Initiate, LinkMsig!Tx, LinkMsigP!Tx,
     LinkMsig!ProofHolds, LinkMsigP!ProofHolds, LinkMsig!VerifyProof,
     LinkMsigP!VerifyProof, LinkMsig!Submit, LinkMsigP!Submit,
     LinkMsig!Another, LinkMsigP!Another, LinkMsig!Poll, LinkMsigP!Poll,
     LinkMsig!Init, LinkMsigP!Init, LinkMsig!Step, LinkMsigP!Step,
     LinkMsig!Next, LinkMsigP!Next, LinkMsig!TxTypes, LinkMsigP!TxTypes,
     LinkMsig!ReceiptResult, LinkMsigP!ReceiptResult, LinkMsig!TxResults,
     LinkMsigP!TxResults, LinkMsig!Landed, LinkMsigP!Landed,
     LinkMsig!Succeeded, LinkMsigP!Succeeded

LEMMA SecretsPIsModule ==
  /\ Secrets!SecretsCommandsAssumption => SecretsP!SecretsCommandsAssumption
  /\ Secrets!Init => SecretsP!Init
  /\ [Secrets!Next]_(Secrets!vars) => [SecretsP!Next]_(SecretsP!vars)
  BY DEF
     Secrets!Cardinality, SecretsP!Cardinality,
     Secrets!SecretsCommandsAssumption, SecretsP!SecretsCommandsAssumption,
     Secrets!vaultVars, SecretsP!vaultVars, Secrets!vars, SecretsP!vars,
     Secrets!Ids, SecretsP!Ids, Secrets!Ops, SecretsP!Ops, Secrets!RequestOf,
     SecretsP!RequestOf, Secrets!Allowlisted, SecretsP!Allowlisted,
     Secrets!Accepts, SecretsP!Accepts, Secrets!Land, SecretsP!Land,
     Secrets!Tick, SecretsP!Tick, Secrets!GatewaySync, SecretsP!GatewaySync,
     Secrets!MineLate, SecretsP!MineLate, Secrets!SubmitPrepared,
     SecretsP!SubmitPrepared, Secrets!Execute, SecretsP!Execute,
     Secrets!GatewayAccepts, SecretsP!GatewayAccepts, Secrets!NoRequest,
     SecretsP!NoRequest, Secrets!Idle, SecretsP!Idle, Secrets!At,
     SecretsP!At, Secrets!Goto, SecretsP!Goto, Secrets!Finish,
     SecretsP!Finish, Secrets!LocalStep, SecretsP!LocalStep, Secrets!Unused,
     SecretsP!Unused, Secrets!NextId, SecretsP!NextId, Secrets!Free,
     SecretsP!Free, Secrets!ValidTimeout, SecretsP!ValidTimeout,
     Secrets!ValidKeys, SecretsP!ValidKeys, Secrets!Start, SecretsP!Start,
     Secrets!StartExecute, SecretsP!StartExecute, Secrets!NotLinked,
     SecretsP!NotLinked, Secrets!Connect, SecretsP!Connect,
     Secrets!AfterCheck, SecretsP!AfterCheck, Secrets!Check, SecretsP!Check,
     Secrets!AllowTx, SecretsP!AllowTx, Secrets!Allowed, SecretsP!Allowed,
     Secrets!Allow, SecretsP!Allow, Secrets!SaveBundle, SecretsP!SaveBundle,
     Secrets!HandOut, SecretsP!HandOut, Secrets!Retry, SecretsP!Retry,
     Secrets!Refused, SecretsP!Refused, Secrets!Answered, SecretsP!Answered,
     Secrets!Post, SecretsP!Post, Secrets!Interrupt, SecretsP!Interrupt,
     Secrets!Init, SecretsP!Init, Secrets!Step, SecretsP!Step, Secrets!Next,
     SecretsP!Next, Secrets!TxTypes, SecretsP!TxTypes, Secrets!ReceiptResult,
     SecretsP!ReceiptResult, Secrets!TxResults, SecretsP!TxResults,
     Secrets!Landed, SecretsP!Landed, Secrets!Succeeded, SecretsP!Succeeded

LEMMA SecretsMsigPIsModule ==
  /\ SecretsMsig!SecretsCommandsAssumption => SecretsMsigP!SecretsCommandsAssumption
  /\ SecretsMsig!Init => SecretsMsigP!Init
  /\ [SecretsMsig!Next]_(SecretsMsig!vars) => [SecretsMsigP!Next]_(SecretsMsigP!vars)
  BY DEF
     SecretsMsig!Cardinality, SecretsMsigP!Cardinality,
     SecretsMsig!SecretsCommandsAssumption,
     SecretsMsigP!SecretsCommandsAssumption, SecretsMsig!vaultVars,
     SecretsMsigP!vaultVars, SecretsMsig!vars, SecretsMsigP!vars,
     SecretsMsig!Ids, SecretsMsigP!Ids, SecretsMsig!Ops, SecretsMsigP!Ops,
     SecretsMsig!RequestOf, SecretsMsigP!RequestOf, SecretsMsig!Allowlisted,
     SecretsMsigP!Allowlisted, SecretsMsig!Accepts, SecretsMsigP!Accepts,
     SecretsMsig!Land, SecretsMsigP!Land, SecretsMsig!Tick,
     SecretsMsigP!Tick, SecretsMsig!GatewaySync, SecretsMsigP!GatewaySync,
     SecretsMsig!MineLate, SecretsMsigP!MineLate, SecretsMsig!SubmitPrepared,
     SecretsMsigP!SubmitPrepared, SecretsMsig!Execute, SecretsMsigP!Execute,
     SecretsMsig!GatewayAccepts, SecretsMsigP!GatewayAccepts,
     SecretsMsig!NoRequest, SecretsMsigP!NoRequest, SecretsMsig!Idle,
     SecretsMsigP!Idle, SecretsMsig!At, SecretsMsigP!At, SecretsMsig!Goto,
     SecretsMsigP!Goto, SecretsMsig!Finish, SecretsMsigP!Finish,
     SecretsMsig!LocalStep, SecretsMsigP!LocalStep, SecretsMsig!Unused,
     SecretsMsigP!Unused, SecretsMsig!NextId, SecretsMsigP!NextId,
     SecretsMsig!Free, SecretsMsigP!Free, SecretsMsig!ValidTimeout,
     SecretsMsigP!ValidTimeout, SecretsMsig!ValidKeys,
     SecretsMsigP!ValidKeys, SecretsMsig!Start, SecretsMsigP!Start,
     SecretsMsig!StartExecute, SecretsMsigP!StartExecute,
     SecretsMsig!NotLinked, SecretsMsigP!NotLinked, SecretsMsig!Connect,
     SecretsMsigP!Connect, SecretsMsig!AfterCheck, SecretsMsigP!AfterCheck,
     SecretsMsig!Check, SecretsMsigP!Check, SecretsMsig!AllowTx,
     SecretsMsigP!AllowTx, SecretsMsig!Allowed, SecretsMsigP!Allowed,
     SecretsMsig!Allow, SecretsMsigP!Allow, SecretsMsig!SaveBundle,
     SecretsMsigP!SaveBundle, SecretsMsig!HandOut, SecretsMsigP!HandOut,
     SecretsMsig!Retry, SecretsMsigP!Retry, SecretsMsig!Refused,
     SecretsMsigP!Refused, SecretsMsig!Answered, SecretsMsigP!Answered,
     SecretsMsig!Post, SecretsMsigP!Post, SecretsMsig!Interrupt,
     SecretsMsigP!Interrupt, SecretsMsig!Init, SecretsMsigP!Init,
     SecretsMsig!Step, SecretsMsigP!Step, SecretsMsig!Next,
     SecretsMsigP!Next, SecretsMsig!TxTypes, SecretsMsigP!TxTypes,
     SecretsMsig!ReceiptResult, SecretsMsigP!ReceiptResult,
     SecretsMsig!TxResults, SecretsMsigP!TxResults, SecretsMsig!Landed,
     SecretsMsigP!Landed, SecretsMsig!Succeeded, SecretsMsigP!Succeeded
-----------------------------------------------------------------------------
(* Linking a key *)

LinkInv ==
  /\ On("link") => LinkP!LinkInv
  /\ On("linkMsig") => LinkMsigP!LinkInv

\* The groups that link keys keep their invariant, and unlink as was agreed.
LEMMA LinkStep ==
  ASSUME LinkInv, [Next]_vars
  PROVE  /\ LinkInv'
         /\ On("link") => LinkP!UnlinkWasAgreed
         /\ On("linkMsig") => LinkMsigP!UnlinkWasAgreed
<1>1. LinkP!KeyLinkingAssumption /\ LinkMsigP!KeyLinkingAssumption
  BY ServiceCommandsAssumption, LinkPIsModule, LinkMsigPIsModule
     DEF ServiceCommandsAssumption
<1>2. On("link") => LinkP!LinkInv' /\ LinkP!UnlinkWasAgreed
  BY <1>1, LinkSteps, LinkPIsModule, LinkP!StepInv DEF LinkInv
<1>3. On("linkMsig") => LinkMsigP!LinkInv' /\ LinkMsigP!UnlinkWasAgreed
  BY <1>1, LinkMsigSteps, LinkMsigPIsModule, LinkMsigP!StepInv DEF LinkInv
<1> QED BY <1>2, <1>3, ConfigStays DEF LinkInv, On

LEMMA LinkInvariant == Spec => []LinkInv
<1>1. LinkP!KeyLinkingAssumption /\ LinkMsigP!KeyLinkingAssumption
  BY ServiceCommandsAssumption, LinkPIsModule, LinkMsigPIsModule
     DEF ServiceCommandsAssumption
<1>2. Init => LinkInv
  BY <1>1, LinkPIsModule, LinkMsigPIsModule, LinkP!InitInv, LinkMsigP!InitInv
     DEF Init, LinkInv
<1> QED BY <1>2, LinkStep, PTL DEF Spec

\* A transaction that was checked against the contract is accepted, unless
\* time passed or another one landed since.
THEOREM ChecksAreAccepted == Spec => []CheckedIsAccepted
<1>1. LinkInv => CheckedIsAccepted
  <2>1. On("link") /\ LinkInv => Link!CheckedIsAccepted
    BY LinkP!InvProperties
       DEF LinkInv, LinkP!CheckedIsAccepted, Link!CheckedIsAccepted,
           LinkP!At, Link!At, LinkP!Accepts, Link!Accepts, LinkP!Linked,
           Link!Linked, LinkP!Tx, Link!Tx
  <2>2. On("linkMsig") /\ LinkInv => LinkMsig!CheckedIsAccepted
    BY LinkMsigP!InvProperties
       DEF LinkInv, LinkMsigP!CheckedIsAccepted,
           LinkMsig!CheckedIsAccepted, LinkMsigP!At, LinkMsig!At,
           LinkMsigP!Accepts, LinkMsig!Accepts, LinkMsigP!Linked,
           LinkMsig!Linked, LinkMsigP!Tx, LinkMsig!Tx
  <2> QED BY <2>1, <2>2 DEF CheckedIsAccepted
<1> QED BY <1>1, LinkInvariant, PTL

\* A deploy gets past the ownership phase only for an account that was linked
\* on the chain, and a key is unlinked only as its user agreed to.
THEOREM OwnershipIsJustified == Spec => OwnershipJustified
<1> DEFINE Passed == /\ On("link") => Link!PassedWasLinked
                     /\ On("linkMsig") => LinkMsig!PassedWasLinked
<1>1. LinkInv => Passed
  BY LinkP!InvProperties, LinkMsigP!InvProperties
     DEF LinkInv, LinkP!PassedWasLinked, Link!PassedWasLinked,
         LinkMsigP!PassedWasLinked, LinkMsig!PassedWasLinked
<1>2. LinkInv /\ Passed' /\ [Next]_vars =>
        [/\ On("link") => Link!PassedWasLinked' /\ Link!UnlinkWasAgreed
         /\ On("linkMsig") =>
              LinkMsig!PassedWasLinked' /\ LinkMsig!UnlinkWasAgreed]_vars
  <2>1. SUFFICES ASSUME LinkInv, Passed', [Next]_vars
        PROVE  /\ On("link") => Link!PassedWasLinked' /\ Link!UnlinkWasAgreed
               /\ On("linkMsig") =>
                    LinkMsig!PassedWasLinked' /\ LinkMsig!UnlinkWasAgreed
    OBVIOUS
  <2>2. /\ On("link") => Link!PassedWasLinked'
        /\ On("linkMsig") => LinkMsig!PassedWasLinked'
    BY <2>1, ConfigStays DEF On
  <2>3. On("link") => Link!UnlinkWasAgreed
    BY <2>1, LinkStep
       DEF LinkP!UnlinkWasAgreed, Link!UnlinkWasAgreed,
           LinkP!Linked, Link!Linked
  <2>4. On("linkMsig") => LinkMsig!UnlinkWasAgreed
    BY <2>1, LinkStep
       DEF LinkMsigP!UnlinkWasAgreed, LinkMsig!UnlinkWasAgreed,
           LinkMsigP!Linked, LinkMsig!Linked
  <2> QED BY <2>2, <2>3, <2>4
<1> QED BY <1>1, <1>2, LinkInvariant, PTL DEF Spec, OwnershipJustified
-----------------------------------------------------------------------------
(* Secrets *)

SecretsInv ==
  /\ On("secrets") => SecretsP!SecretsInv
  /\ On("secretsMsig") => SecretsMsigP!SecretsInv

LEMMA SecretsInvariant == Spec => []SecretsInv
<1>1. SecretsP!SecretsCommandsAssumption /\ SecretsMsigP!SecretsCommandsAssumption
  BY ServiceCommandsAssumption, SecretsPIsModule, SecretsMsigPIsModule
     DEF ServiceCommandsAssumption
<1>2. Init => SecretsInv
  BY <1>1, SecretsPIsModule, SecretsMsigPIsModule, SecretsP!InitInv,
     SecretsMsigP!InitInv DEF Init, SecretsInv
<1>3. SecretsInv /\ [Next]_vars => SecretsInv'
  <2>1. SUFFICES ASSUME SecretsInv, [Next]_vars PROVE SecretsInv'
    OBVIOUS
  <2>2. On("secrets") => SecretsP!SecretsInv'
    BY <1>1, <2>1, SecretsSteps, SecretsPIsModule, SecretsP!StepInv
       DEF SecretsInv
  <2>3. On("secretsMsig") => SecretsMsigP!SecretsInv'
    BY <1>1, <2>1, SecretsMsigSteps, SecretsMsigPIsModule, SecretsMsigP!StepInv
       DEF SecretsInv
  <2> QED BY <2>1, <2>2, <2>3, ConfigStays DEF SecretsInv, On
<1> QED BY <1>2, <1>3, PTL DEF Spec

\* A request is posted only after its digest was put on the allowlist.
THEOREM PostsAreAllowlisted == Spec => []PostedWasAllowlisted
<1>1. SecretsInv => PostedWasAllowlisted
  <2>1. On("secrets") /\ SecretsInv => Secrets!PostedWasAllowlisted
    BY SecretsP!InvProperties
       DEF SecretsInv, SecretsP!PostedWasAllowlisted,
           Secrets!PostedWasAllowlisted, SecretsP!At, Secrets!At,
           SecretsP!RequestOf, Secrets!RequestOf
  <2>2. On("secretsMsig") /\ SecretsInv => SecretsMsig!PostedWasAllowlisted
    BY SecretsMsigP!InvProperties
       DEF SecretsInv, SecretsMsigP!PostedWasAllowlisted,
           SecretsMsig!PostedWasAllowlisted, SecretsMsigP!At, SecretsMsig!At,
           SecretsMsigP!RequestOf, SecretsMsig!RequestOf
  <2> QED BY <2>1, <2>2 DEF PostedWasAllowlisted
<1> QED BY <1>1, SecretsInvariant, PTL

\* A transaction the multisig is asked to send has its bundle on disk.
THEOREM PreparedHaveBundles == Spec => []PreparedHasBundle
<1>1. SecretsInv => PreparedHasBundle
  BY SecretsMsigP!InvProperties
     DEF SecretsInv, PreparedHasBundle, SecretsMsigP!PreparedHasBundle,
         SecretsMsig!PreparedHasBundle
<1> QED BY <1>1, SecretsInvariant, PTL
-----------------------------------------------------------------------------
(* The tool as a whole *)

LEMMA LinkPTypes == LinkP!TypeOK => Link!TypeOK
  BY Zenon DEF
     Link!Phases, LinkP!Phases, Link!Results, LinkP!Results, Link!Command,
     LinkP!Command, Link!Transaction, LinkP!Transaction, Link!TypeOK,
     LinkP!TypeOK
LEMMA LinkMsigPTypes == LinkMsigP!TypeOK => LinkMsig!TypeOK
  BY Zenon DEF
     LinkMsig!Phases, LinkMsigP!Phases, LinkMsig!Results, LinkMsigP!Results,
     LinkMsig!Command, LinkMsigP!Command, LinkMsig!Transaction,
     LinkMsigP!Transaction, LinkMsig!TypeOK, LinkMsigP!TypeOK
LEMMA SecretsPTypes == SecretsP!TypeOK => Secrets!TypeOK
  BY Zenon DEF
     Secrets!Ids, SecretsP!Ids, Secrets!Ops, SecretsP!Ops, Secrets!Phases,
     SecretsP!Phases, Secrets!Results, SecretsP!Results, Secrets!Command,
     SecretsP!Command, Secrets!Request, SecretsP!Request, Secrets!Transaction,
     SecretsP!Transaction, Secrets!TypeOK, SecretsP!TypeOK
LEMMA SecretsMsigPTypes == SecretsMsigP!TypeOK => SecretsMsig!TypeOK
  BY Zenon DEF
     SecretsMsig!Ids, SecretsMsigP!Ids, SecretsMsig!Ops, SecretsMsigP!Ops,
     SecretsMsig!Phases, SecretsMsigP!Phases, SecretsMsig!Results,
     SecretsMsigP!Results, SecretsMsig!Command, SecretsMsigP!Command,
     SecretsMsig!Request, SecretsMsigP!Request, SecretsMsig!Transaction,
     SecretsMsigP!Transaction, SecretsMsig!TypeOK, SecretsMsigP!TypeOK

\* What every group keeps to itself has the types of its module: the count of a
\* login's retries is exceeded by at most one handler per tab, and so on.
THEOREM TypesAreKept == Spec => []TypeOK
<1> DEFINE Inv == /\ BuildInv /\ LinkInv /\ SecretsInv /\ LoginToolTypes
                  /\ SimulationToolInv
<1>1. Inv => TypeOK
  <2> SUFFICES ASSUME Inv PROVE TypeOK
    OBVIOUS
  <2>1. On("link") => Link!TypeOK
    BY LinkP!InvProperties, LinkPTypes DEF LinkInv
  <2>2. On("linkMsig") => LinkMsig!TypeOK
    BY LinkMsigP!InvProperties, LinkMsigPTypes DEF LinkInv
  <2>3. On("secrets") => Secrets!TypeOK
    BY SecretsP!InvProperties, SecretsPTypes DEF SecretsInv
  <2>4. On("secretsMsig") => SecretsMsig!TypeOK
    BY SecretsMsigP!InvProperties, SecretsMsigPTypes DEF SecretsInv
  <2>5. On("build") => Build!TypeOK
    BY DEF BuildInv, UploadInv
  <2>6. /\ On("login") => LogIn!TypeOK
        /\ On("simulate") => Simulate!TypeOK
    BY ServiceCommandsAssumption, LoginTypesShow, SimulationShows
       DEF ServiceCommandsAssumption, LoginToolTypes, SimulationToolInv
  <2> QED BY <2>1, <2>2, <2>3, <2>4, <2>5, <2>6 DEF TypeOK
<1> QED BY <1>1, BuildInvariant, LinkInvariant, SecretsInvariant,
           LoginTypesInvariant, SimulationInvariant, PTL

\* A command that reports success has done what it was asked: its request was
\* executed by the vault, and a workflow that completed and is shown as a success
\* had no capability that failed.
THEOREM SuccessesAreDone == Spec => []SuccessMeansDone
<1>1. SecretsInv /\ SimulationToolInv => SuccessMeansDone
  <2> SUFFICES ASSUME SecretsInv, SimulationToolInv PROVE SuccessMeansDone
    OBVIOUS
  <2>1. On("secrets") => Secrets!SuccessMeansExecuted
    BY SecretsP!InvProperties
       DEF SecretsInv, Secrets!SuccessMeansExecuted, Secrets!RequestOf,
           SecretsP!SuccessMeansExecuted, SecretsP!RequestOf
  <2>2. On("secretsMsig") => SecretsMsig!SuccessMeansExecuted
    BY SecretsMsigP!InvProperties
       DEF SecretsInv, SecretsMsig!SuccessMeansExecuted, SecretsMsig!RequestOf,
           SecretsMsigP!SuccessMeansExecuted, SecretsMsigP!RequestOf
  <2>3. On("simulate") => Simulate!SuccessIsClean
    BY ServiceCommandsAssumption, SimulationShows
       DEF ServiceCommandsAssumption, SimulationToolInv
  <2> QED BY <2>1, <2>2, <2>3 DEF SuccessMeansDone
<1> QED BY <1>1, SecretsInvariant, SimulationInvariant, PTL
===============================================================================
