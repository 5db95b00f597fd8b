------------------------------ MODULE SelfUpdate ------------------------------
(***************************************************************************)
(* How the CLI keeps itself up to date.  Every command ends with a check   *)
(* for a newer release, which keeps what it learned in a cache file that   *)
(* all commands share; `cre update` downloads the latest release and       *)
(* renames its binary over the one it runs from.  Versions are numbers, 0  *)
(* being a development build, and time is counted in ticks.                *)
(***************************************************************************)
EXTENDS Naturals, FiniteSets

CONSTANTS Procs,         \* processes of the CLI
          cacheDuration, \* ticks an answer is good for
          FirstInstall,  \* version that is installed at first
          MaxVersion,    \* bound: releases
          MaxTime,       \* bound: ticks
          MaxRuns        \* bound: commands that are run

SelfUpdateAssumption ==
  /\ {cacheDuration, MaxVersion, MaxTime, MaxRuns} \subseteq Nat
  /\ MaxVersion >= 1 /\ FirstInstall \in 0..MaxVersion

VARIABLES clock,     \* the current tick
          latest,    \* the latest release by the end of each tick
          cache,     \* update.json
          installed, \* the binary: its version and whether it is complete
          pc, procs, \* where each process is, and its locals
          runs       \* commands run so far

vars == <<clock, latest, cache, installed, pc, procs, runs>>

\* No file, or one that does not parse: the zero state, checked long ago.
NoCache == [version |-> 0, lastCheck |-> 0, valid |-> FALSE]

NewProc(version) == [running |-> version, seen |-> NoCache, now |-> 0,
                     used |-> 0, tag |-> 0, got |-> "nothing"]
-----------------------------------------------------------------------------
(* GitHub and time. *)

Release ==
  /\ latest[clock] < MaxVersion
  /\ latest' = [t \in 0..MaxTime |-> IF t >= clock THEN latest[t] + 1
                                     ELSE latest[t]]
  /\ UNCHANGED <<clock, cache, installed, pc, procs, runs>>

Tick ==
  /\ clock < MaxTime /\ clock' = clock + 1
  /\ UNCHANGED <<latest, cache, installed, pc, procs, runs>>
-----------------------------------------------------------------------------
Goto(p, at) == pc' = [pc EXCEPT ![p] = at]
World == UNCHANGED <<clock, latest, runs>>

\* A command starts from the binary that is installed.  A development build
\* checks for nothing.
Start(p) ==
  /\ pc[p] = "idle" /\ runs < MaxRuns /\ runs' = runs + 1
  /\ procs' = [procs EXCEPT ![p] = NewProc(installed.version)]
  /\ \/ installed.version > 0 /\ Goto(p, "load")
     \/ Goto(p, "getTag")
  /\ UNCHANGED <<clock, latest, cache, installed>>

\* A command ends, or is killed.
Exit(p) ==
  /\ pc[p] # "idle" /\ Goto(p, "idle")
  /\ procs' = [procs EXCEPT ![p] = NewProc(0)]
  /\ World /\ UNCHANGED <<cache, installed>>
-----------------------------------------------------------------------------
(* CheckForUpdates. *)

loadCache(p) ==
  /\ pc[p] = "load" /\ Goto(p, "decide")
  /\ procs' = [procs EXCEPT ![p].seen = cache]
  /\ World /\ UNCHANGED <<cache, installed>>

needsCheck(c) == ~c.valid \/ clock - c.lastCheck > cacheDuration

Decide(p) ==
  /\ pc[p] = "decide"
  /\ procs' = [procs EXCEPT ![p].now = clock, ![p].used = procs[p].seen.version]
  /\ Goto(p, IF needsCheck(procs[p].seen) THEN "fetch" ELSE "report")
  /\ World /\ UNCHANGED <<cache, installed>>

\* Mutant of FetchFails: the old answer is saved as if it were a new one.
RefreshAnyway(p) ==
  /\ pc[p] = "fetch"
  /\ procs' = [procs EXCEPT ![p].tag = procs[p].seen.version]
  /\ Goto(p, "truncate")
  /\ World /\ UNCHANGED <<cache, installed>>

\* The old answer is used and the cache is left as it is.
FetchFails(p) ==
  /\ pc[p] = "fetch"
  /\ Goto(p, "stale")
  /\ World /\ UNCHANGED <<cache, installed, procs>>

Fetch(p) ==
  /\ pc[p] = "fetch"
  /\ procs' = [procs EXCEPT ![p].tag = latest[clock], ![p].used = latest[clock]]
  /\ Goto(p, "truncate")
  /\ World /\ UNCHANGED <<cache, installed>>

\* saveCache writes in place: the file is emptied and then filled.
Truncate(p) ==
  /\ pc[p] = "truncate"
  /\ \/ cache' = NoCache /\ Goto(p, "fill")
     \/ Goto(p, "report") /\ UNCHANGED cache
  /\ World /\ UNCHANGED <<installed, procs>>

\* The answer holds from before it was asked for.
Answer(p) ==
  [version |-> procs[p].tag, lastCheck |-> procs[p].now, valid |-> TRUE]

Fill(p) ==
  /\ pc[p] = "fill"
  /\ cache' = Answer(p)
  /\ Goto(p, "report")
  /\ World /\ UNCHANGED <<installed, procs>>
-----------------------------------------------------------------------------
(* cre update. *)

\* getLatestTag.  An answer without a tag is an error; the latest version needs
\* no update; versions that cannot be compared are updated.
GetTag(p) ==
  /\ pc[p] = "getTag"
  /\ procs[p].running = 0 \/ latest[clock] > procs[p].running
  /\ procs' = [procs EXCEPT ![p].tag = latest[clock]]
  /\ Goto(p, "download")
  /\ World /\ UNCHANGED <<cache, installed>>

\* downloadFile does not look at the status: it keeps what it is sent, an
\* error page included.  A body that breaks off is an error.
Download(p) ==
  /\ pc[p] = "download"
  /\ \E got \in {"archive", "page"} :
       procs' = [procs EXCEPT ![p].got = got]
  /\ Goto(p, "extract")
  /\ World /\ UNCHANGED <<cache, installed>>

\* untar or unzip, and chmod; what is not an archive fails.
Extract(p) ==
  /\ pc[p] = "extract" /\ procs[p].got = "archive"
  /\ Goto(p, "replace")
  /\ World /\ UNCHANGED <<cache, installed, procs>>

\* replaceSelf renames the new binary over the old one.
Replace(p) ==
  /\ pc[p] = "replace"
  /\ installed' = [version |-> procs[p].tag, whole |-> procs[p].got = "archive"]
  /\ Goto(p, "updated")
  /\ World /\ UNCHANGED <<cache, procs>>

Init ==
  /\ clock = 0 /\ latest = [t \in 0..MaxTime |-> 1]
  /\ cache = NoCache
  /\ installed = [version |-> FirstInstall, whole |-> TRUE]
  /\ pc = [p \in Procs |-> "idle"] /\ procs = [p \in Procs |-> NewProc(0)]
  /\ runs = 0

Next ==
  \/ Release \/ Tick
  \/ \E p \in Procs :
       \/ Start(p) \/ Exit(p) \/ loadCache(p) \/ Decide(p) \/ Fetch(p)
       \/ FetchFails(p) \/ Truncate(p) \/ Fill(p) \/ GetTag(p) \/ Download(p)
       \/ Extract(p) \/ Replace(p)

Spec == Init /\ [][Next]_vars
-----------------------------------------------------------------------------
Cache == [version : 0..MaxVersion, lastCheck : 0..MaxTime, valid : BOOLEAN]

Locals == [running : 0..MaxVersion, seen : Cache, now : 0..MaxTime,
           used : 0..MaxVersion, tag : 0..MaxVersion,
           got : {"nothing", "archive", "page"}]

Steps == {"idle", "load", "decide", "fetch", "stale", "truncate", "fill",
          "report", "getTag", "download", "extract", "replace", "updated"}

TypeOK ==
  /\ clock \in 0..MaxTime /\ runs \in 0..MaxRuns
  /\ latest \in [0..MaxTime -> 1..MaxVersion]
  /\ cache \in Cache
  /\ installed \in [version : 0..MaxVersion, whole : BOOLEAN]
  /\ pc \in [Procs -> Steps] /\ procs \in [Procs -> Locals]

\* The latest release when tick t began.
LatestBefore(t) == IF t = 0 THEN 1 ELSE latest[t - 1]

\* A check that does not fail to reach GitHub knows of every release that is
\* older than cacheDuration, although other commands overwrite the cache with
\* older answers, and empty it, at any time (update.go:168).
ChecksAreFresh ==
  \A p \in Procs :
    pc[p] = "report" =>
      procs[p].used >= LatestBefore(IF procs[p].now < cacheDuration THEN 0
                                    ELSE procs[p].now - cacheDuration)

\* The binary is a complete one, whatever was downloaded and whenever the
\* command was killed (cmd/update/update.go:354).
BinaryIsWhole == installed.whole
===============================================================================
