---------------------------- MODULE WorkflowBuild ----------------------------
(***************************************************************************)
(* The data path of `cre workflow deploy`: compile the workflow, read the  *)
(* result back, derive the workflow id, store the artifacts with the       *)
(* storage service and register the id.  Processes that deploy the same    *)
(* workflow folder share its source and two files with fixed names,        *)
(* tmp.wasm and the output file.  The ownership, existence and quota       *)
(* checks between build and upload are one step here that may fail         *)
(* (KeyLinking and WorkflowCommands have them).                            *)
(***************************************************************************)
EXTENDS Naturals, FiniteSets

CONSTANTS Procs,      \* processes deploying the folder
          MaxEdits,   \* bound: edits of the source, so contents are 0..MaxEdits
          HasConfig,  \* the workflow has a configuration file
          Attempts,   \* retry.Attempts of the storage client (3)
          MaxRuns     \* bound: deploys started

WorkflowBuildAssumption ==
  /\ MaxEdits \in Nat /\ MaxRuns \in Nat
  /\ HasConfig \in BOOLEAN
  /\ Attempts \in Nat \ {0}

VARIABLES source,      \* what the source folder holds, a version number
          tmp, out,    \* content of tmp.wasm and of the output file, or None
          stored,      \* artifacts of the storage service: <<kind, id, content>>
          registered,  \* ids the registry has been given
          proc,        \* each process's deploy
          runs         \* deploys started

files == <<source, tmp, out>>
vars == <<files, stored, registered, proc, runs>>

None == MaxEdits + 1
Versions == 0..MaxEdits
Kinds == {"BINARY"} \cup IF HasConfig THEN {"CONFIG"} ELSE {}

Idle == [phase |-> "idle", built |-> None, packed |-> None, id |-> None,
         kind |-> "BINARY", left |-> 0, shared |-> FALSE, result |-> "none"]

At(p, phase) == proc[p].phase = phase
Goto(p, phase) == proc' = [proc EXCEPT ![p].phase = phase]
Finish(p, r) == proc' = [proc EXCEPT ![p].phase = "done", ![p].result = r]

Building == {"readTmp", "writeOut", "removeTmp", "readOut"}

\* History: p's file step falls into the builds of other processes.
Touch(p, new) ==
  LET busy == {q \in Procs \ {p} : proc[q].phase \in Building}
  IN proc' = [q \in Procs |->
       IF q = p THEN [new EXCEPT !.shared = new.shared \/ busy # {}]
       ELSE [proc[q] EXCEPT !.shared = proc[q].shared \/ q \in busy]]
-----------------------------------------------------------------------------
(* Compile *)

Edit ==
  /\ source < MaxEdits
  /\ source' = source + 1
  /\ UNCHANGED <<tmp, out, stored, registered, proc, runs>>

\* Inputs valid or not, folder and toolchain there or not.
Start(p) ==
  /\ proc[p].phase \in {"idle", "done"}
  /\ runs < MaxRuns
  /\ runs' = runs + 1
  /\ proc' = [proc EXCEPT ![p] = [Idle EXCEPT !.phase = "build"]]
  /\ UNCHANGED <<files, stored, registered>>

\* Mutant of BuildFails: the exit code of the compiler is not looked at.
BuildIgnored(p) ==
  /\ At(p, "build")
  /\ Touch(p, [proc[p] EXCEPT !.phase = "readTmp", !.built = source])
  /\ UNCHANGED <<files, stored, registered, runs>>

BuildFails(p) ==
  /\ At(p, "build")
  /\ Finish(p, "error")
  /\ UNCHANGED <<files, stored, registered, runs>>

\* The build command writes tmp.wasm into the source folder.
Build(p) ==
  /\ At(p, "build")
  /\ tmp' = source
  /\ Touch(p, [proc[p] EXCEPT !.phase = "readTmp", !.built = source])
  /\ UNCHANGED <<source, out, stored, registered, runs>>

ReadTmp(p) ==
  /\ At(p, "readTmp")
  /\ IF tmp = None THEN Finish(p, "error")
     ELSE Touch(p, [proc[p] EXCEPT !.phase = "writeOut", !.packed = tmp])
  /\ UNCHANGED <<files, stored, registered, runs>>

\* Compressed and encoded in memory, then written.
WriteOut(p) ==
  /\ At(p, "writeOut")
  /\ \/ /\ out' = proc[p].packed
        /\ Touch(p, [proc[p] EXCEPT !.phase = "removeTmp"])
     \/ /\ UNCHANGED out
        /\ Finish(p, "error")
  /\ UNCHANGED <<source, tmp, stored, registered, runs>>

RemoveTmp(p) ==
  /\ At(p, "removeTmp")
  /\ IF tmp = None THEN Finish(p, "error")
     ELSE Touch(p, [proc[p] EXCEPT !.phase = "readOut"])
  /\ tmp' = None
  /\ UNCHANGED <<source, out, stored, registered, runs>>

\* PrepareWorkflowArtifact: the output file and the configuration are read
\* once, the id is computed from what was read.
ReadOut(p) ==
  /\ At(p, "readOut")
  /\ IF out = None THEN Finish(p, "error")
     ELSE Touch(p, [proc[p] EXCEPT !.phase = "check", !.id = out])
  /\ UNCHANGED <<files, stored, registered, runs>>

\* The registry client, the ownership, existence and quota checks.
Check(p) ==
  /\ At(p, "check")
  /\ \/ Finish(p, "error")
     \/ proc' = [proc EXCEPT ![p].phase = "postUrl", ![p].kind = "BINARY",
                             ![p].left = Attempts]
  /\ UNCHANGED <<files, stored, registered, runs>>
-----------------------------------------------------------------------------
(* Upload *)

\* Mutant of Uploaded: the output file is read again for the upload.
Reread(p) == IF out = None THEN proc[p].id ELSE out

\* The bytes of an upload are those the id was computed from.
Uploaded(p) == proc[p].id

NextCall(p, phase) == proc' = [proc EXCEPT ![p].phase = phase, ![p].left = Attempts]

\* Mutant of Retry: the count starts again.
RetryForever(p) ==
  proc' = [proc EXCEPT ![p].left = IF @ = 1 THEN Attempts ELSE @ - 1]

\* retry.Do: the last failed attempt ends the deploy.
Retry(p) ==
  IF proc[p].left = 1 THEN Finish(p, "error")
  ELSE proc' = [proc EXCEPT ![p].left = @ - 1]

Exists(p) == \E c \in Versions : <<proc[p].kind, proc[p].id, c>> \in stored

\* GeneratePostUrlForArtifact: an artifact that exists is not uploaded again.
PostUrl(p) ==
  /\ At(p, "postUrl")
  /\ \/ NextCall(p, IF Exists(p) THEN "getUrl" ELSE "post")
     \/ Retry(p)
  /\ UNCHANGED <<files, stored, registered, runs>>

Store(p) == stored' = stored \cup {<<proc[p].kind, proc[p].id, Uploaded(p)>>}

\* UploadToOrigin: stored and acknowledged, stored with the answer lost, or
\* not stored at all.
Post(p) ==
  /\ At(p, "post")
  /\ \/ Store(p) /\ NextCall(p, "getUrl")
     \/ Store(p) /\ Retry(p)
     \/ UNCHANGED stored /\ Retry(p)
  /\ UNCHANGED <<files, registered, runs>>

\* The configuration, when there is one, follows the binary.
AfterUpload(p) ==
  IF proc[p].kind = "BINARY" /\ HasConfig
  THEN proc' = [proc EXCEPT ![p].phase = "postUrl", ![p].kind = "CONFIG",
                            ![p].left = Attempts]
  ELSE Goto(p, "upsert")

GetUrl(p) ==
  /\ At(p, "getUrl")
  /\ AfterUpload(p) \/ Retry(p)
  /\ UNCHANGED <<files, stored, registered, runs>>

\* The transaction lands, or it fails.
Upsert(p) ==
  /\ At(p, "upsert")
  /\ \/ registered' = registered \cup {proc[p].id} /\ Finish(p, "ok")
     \/ UNCHANGED registered /\ Finish(p, "error")
  /\ UNCHANGED <<files, stored, runs>>

\* The user interrupts the command; its files stay as they are.
Interrupt(p) ==
  /\ proc[p].phase \notin {"idle", "done"}
  /\ Finish(p, "error")
  /\ UNCHANGED <<files, stored, registered, runs>>

Init ==
  /\ source = 0 /\ tmp = None /\ out = None
  /\ stored = {} /\ registered = {}
  /\ proc = [p \in Procs |-> Idle]
  /\ runs = 0

Deploy(p) ==
  \/ BuildFails(p) \/ Build(p) \/ ReadTmp(p) \/ WriteOut(p) \/ RemoveTmp(p)
  \/ ReadOut(p) \/ Check(p) \/ PostUrl(p) \/ Post(p) \/ GetUrl(p) \/ Upsert(p)

Next == Edit \/ \E p \in Procs : Start(p) \/ Deploy(p) \/ Interrupt(p)

\* Every call of a deploy returns: the compiler ends, and the storage client
\* and the transaction client give up after their timeouts.
Spec == Init /\ [][Next]_vars /\ \A p \in Procs : WF_vars(Deploy(p))
-----------------------------------------------------------------------------
Phases == {"idle", "build", "check", "postUrl", "post", "getUrl", "upsert",
           "done"} \cup Building

FileContents == Versions \cup {None}
Results == {"none", "ok", "error"}

Process ==
  [phase: Phases, built: FileContents, packed: FileContents, id: FileContents,
   kind: {"BINARY", "CONFIG"}, left: 0..Attempts, shared: BOOLEAN,
   result: Results]

TypeOK ==
  /\ source \in Versions /\ tmp \in FileContents /\ out \in FileContents
  /\ stored \subseteq Kinds \X Versions \X Versions
  /\ registered \subseteq Versions
  /\ runs \in 0..MaxRuns
  /\ proc \in [Procs -> Process]

\* What the storage service holds under an id is what the id was computed
\* from, whatever happens to the shared files in between (prepare.go:59).
StoredMatchesId == \A a \in stored : a[3] = a[2]

\* A registered id has all its artifacts in storage: answers may be lost,
\* attempts fail and processes die, the upsert comes last (deploy.go:250).
RegisteredHasArtifacts ==
  \A id \in registered, k \in Kinds : <<k, id, id>> \in stored

\* A deploy that had the folder to itself registers what it compiled, never
\* a file an earlier deploy left behind (compile.go:75).
SoloDeployIsFresh ==
  \A p \in Procs :
    proc[p].id # None /\ ~proc[p].shared => proc[p].id = proc[p].built
===============================================================================
