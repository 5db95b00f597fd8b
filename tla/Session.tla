-------------------------------- MODULE Session --------------------------------
(***************************************************************************)
(* The session of the CRE command line tool: the credentials file, and     *)
(* what every command does with it around its own work.  The root command  *)
(* loads the file and validates it with a query; every query of the        *)
(* service first renews tokens that are about to expire and saves them;    *)
(* `cre logout` revokes and deletes them; and when a command has returned, *)
(* a goroutine reports it to the same service, while Execute sleeps for    *)
(* 200 ms and then exits.  Several processes may run on one home directory.*)
(* A refresh of the service may replace the refresh token (Rotates), and   *)
(* then the replaced one is no longer accepted.                            *)
(***************************************************************************)
EXTENDS Naturals, FiniteSets

CONSTANTS Procs,      \* processes of the tool
          Rotates,    \* service: a refresh replaces the refresh token
          MaxMinted   \* bound: token sets the service hands out

SessionAssumption ==
  /\ IsFiniteSet(Procs) /\ Procs # {}
  /\ Rotates \in BOOLEAN /\ MaxMinted \in Nat \ {0}

Tokens == 1..MaxMinted
NoTokens == [access |-> 0, refresh |-> 0]
TokenSets == [access : Tokens, refresh : Tokens]

\* Files are names of inodes: a file that is open stays open when renamed.
NoInode == 0
Inodes == 1..(Cardinality(Procs) + 2)

VARIABLES file,     \* the inode of ~/.cre/cre.yaml
          tmp,      \* the inode of ~/.cre/cre.yaml.tmp
          data,     \* what each inode holds: NoTokens when truncated
          minted,   \* service: token sets handed out
          valid,    \* service: refresh tokens it accepts
          doomed,   \* history: refresh tokens revoked, or whose replacement
                    \* was lost
          overlapped, \* history: two processes have saved at once
          cli       \* what each process is doing

disk == <<file, tmp, data>>
service == <<minted, valid>>
vars == <<disk, service, doomed, overlapped, cli>>
-----------------------------------------------------------------------------
\* A process that has nothing in memory yet.
Empty(op, apiKey, phase) ==
  [op |-> op, phase |-> phase, apiKey |-> apiKey, creds |-> NoTokens,
   spent |-> 0, inode |-> NoInode, telemetry |-> FALSE]
Idle == Empty("none", FALSE, "idle")

At(p, phase) == cli[p].phase = phase
Goto(p, phase) == cli' = [cli EXCEPT ![p].phase = phase]

\* What a process that is about to exit has in memory is of no use any more.
End(p) == cli' = [cli EXCEPT ![p] = Empty("none", FALSE, "exit")]

\* The refresh token p has used up and not put a replacement on file for.
Spent(p) == {cli[p].spent} \ {0}

HasCredentials(p) == cli[p].apiKey \/ cli[p].creds # NoTokens

\* The command returns: its event is reported, unless telemetry is off or no
\* credentials were loaded (SendEvent), and the process is about to exit.
Return(p) ==
  \/ /\ HasCredentials(p) /\ cli[p].op # "login"
     /\ cli' = [cli EXCEPT ![p].op = "none", ![p].phase = "execute",
                           ![p].telemetry = TRUE, ![p].spent = 0,
                           ![p].inode = NoInode]
  \/ End(p)

\* An error of a query ends the command; telemetry swallows it.
Failed(p) ==
  /\ IF cli[p].telemetry THEN End(p) ELSE Return(p)
  /\ doomed' = doomed \cup Spent(p)

Start(p, op, apiKey) ==
  /\ At(p, "idle") /\ (op = "login" => ~apiKey)
  /\ cli' = [cli EXCEPT ![p] =
       Empty(op, apiKey, IF op = "login" THEN "exchange" ELSE "load")]
  /\ UNCHANGED <<disk, service, doomed, overlapped>>

\* credentials.New: an API key wins over the file.  Commands that skip the
\* validation (logout) go on at once.
Load(p) ==
  /\ At(p, "load")
  /\ IF ~cli[p].apiKey /\ (file = NoInode \/ data[file] = NoTokens)
     THEN End(p)
     ELSE cli' = [cli EXCEPT
            ![p].creds = IF cli[p].apiKey THEN NoTokens ELSE data[file],
            ![p].phase = IF cli[p].op = "logout" THEN "revoke" ELSE "execute"]
  /\ UNCHANGED <<disk, service, doomed, overlapped>>

\* Client.Execute and refreshTokenIfNeeded: at any moment the access token may
\* have come within bufferSeconds of its expiry, or not.
Execute(p) ==
  /\ At(p, "execute")
  /\ \/ Goto(p, "query")
     \/ ~cli[p].apiKey /\ Goto(p, "refresh")
  /\ UNCHANGED <<disk, service, doomed, overlapped>>

\* The service hands out a new access token, and a new refresh token or not.
Mint(refresh) ==
  /\ minted < MaxMinted
  /\ minted' = minted + 1
  /\ valid' = valid \cup {refresh}

\* Mutant of Renewed: the old refresh token is kept on rotation.
KeepsOld(p) ==
  [access |-> minted + 1, refresh |-> cli[p].creds.refresh]

\* RefreshToken: the old refresh token is kept when the answer has no other.
Renewed(p) ==
  [access |-> minted + 1,
   refresh |-> IF Rotates THEN minted + 1 ELSE cli[p].creds.refresh]

\* The call is refused, it is lost, its answer is lost, or it comes through.
Refresh(p) ==
  /\ At(p, "refresh")
  /\ LET old == cli[p].creds.refresh IN
     \/ Failed(p) /\ UNCHANGED service
     \/ \E answered \in BOOLEAN :
          /\ old \in valid /\ minted < MaxMinted
          /\ minted' = minted + 1
          /\ valid' = IF Rotates THEN (valid \ {old}) \cup {minted'} ELSE valid
          /\ IF answered
             THEN /\ cli' = [cli EXCEPT ![p].creds = Renewed(p),
                                        ![p].spent = IF Rotates THEN old ELSE 0,
                                        ![p].phase = "open"]
                  /\ UNCHANGED doomed
             ELSE /\ IF cli[p].telemetry THEN End(p) ELSE Return(p)
                  /\ doomed' = doomed \cup IF Rotates THEN {old} ELSE {}
  /\ UNCHANGED <<disk, overlapped>>

\* The end of Login: the code is exchanged for tokens, or the login fails.
Exchange(p) ==
  /\ At(p, "exchange")
  /\ \/ /\ Mint(minted + 1)
        /\ cli' = [cli EXCEPT
             ![p].creds = [access |-> minted', refresh |-> minted'],
             ![p].phase = "open"]
     \/ End(p) /\ UNCHANGED service
  /\ UNCHANGED <<disk, doomed, overlapped>>
-----------------------------------------------------------------------------
(* SaveCredentials: write the temporary file, rename it. *)

InUse == {file, tmp} \cup {cli[p].inode : p \in Procs}
FreeInode == CHOOSE i \in Inodes : i \notin InUse

Saving(p) == cli[p].phase \in {"fill", "rename"}

SaveFails(p) ==
  /\ cli[p].phase \in {"open", "fill"}
  /\ Failed(p)
  /\ UNCHANGED <<disk, service, overlapped>>

\* os.WriteFile opens and truncates the file, which may be somebody else's.
Open(p) ==
  /\ At(p, "open")
  /\ LET i == IF tmp = NoInode THEN FreeInode ELSE tmp IN
       /\ tmp' = i
       /\ data' = [data EXCEPT ![i] = NoTokens]
       /\ cli' = [cli EXCEPT ![p].phase = "fill", ![p].inode = i]
  /\ overlapped' = (overlapped \/ \E q \in Procs \ {p} : Saving(q))
  /\ UNCHANGED <<file, service, doomed>>

Fill(p) ==
  /\ At(p, "fill")
  /\ data' = [data EXCEPT ![cli[p].inode] = cli[p].creds]
  /\ cli' = [cli EXCEPT ![p].phase = "rename", ![p].inode = NoInode]
  /\ UNCHANGED <<file, tmp, service, doomed, overlapped>>

\* What was in a file that is replaced or removed is out of reach: no process
\* reads one it has opened before.
Unlink == data' = [i \in Inodes |-> IF i = file THEN NoTokens ELSE data[i]]

\* Whatever is under the temporary name by now becomes the file.
Rename(p) ==
  /\ At(p, "rename")
  /\ IF tmp = NoInode
     THEN Failed(p) /\ UNCHANGED disk
     ELSE /\ file' = tmp /\ tmp' = NoInode /\ Unlink
          /\ IF cli[p].op = "login" THEN End(p)
             ELSE cli' = [cli EXCEPT ![p].spent = 0, ![p].phase = "query"]
          /\ UNCHANGED doomed
  /\ UNCHANGED <<service, overlapped>>
-----------------------------------------------------------------------------
\* The query itself.  The report is the last one of a process; the validation
\* is followed by the gate of deploy and link-key (CheckIsUngatedOrganization)
\* and by the command, which may make more queries.
Query(p) ==
  /\ At(p, "query")
  /\ \/ Failed(p)
     \/ ~cli[p].telemetry /\ Goto(p, "run") /\ UNCHANGED doomed
     \/ cli[p].telemetry /\ End(p) /\ UNCHANGED doomed
  /\ UNCHANGED <<disk, service, overlapped>>

Run(p) ==
  /\ At(p, "run")
  /\ Goto(p, "execute") \/ Return(p)
  /\ UNCHANGED <<disk, service, doomed, overlapped>>

\* Mutant of Revoke: no test whether there are tokens.
RevokeNone(p) ==
  /\ At(p, "revoke") /\ Goto(p, "remove")
  /\ \/ /\ valid' = valid \ {cli[p].creds.refresh}
        /\ doomed' = doomed \cup {cli[p].creds.refresh}
     \/ UNCHANGED <<valid, doomed>>
  /\ UNCHANGED <<disk, minted, overlapped>>

\* logout: a revocation that fails is logged, and the logout goes on.
Revoke(p) ==
  /\ At(p, "revoke")
  /\ IF cli[p].apiKey
     THEN Return(p) /\ UNCHANGED <<valid, doomed>>
     ELSE /\ Goto(p, "remove")
          /\ \/ /\ valid' = valid \ {cli[p].creds.refresh}
                /\ doomed' = doomed \cup {cli[p].creds.refresh}
             \/ UNCHANGED <<valid, doomed>>
  /\ UNCHANGED <<disk, minted, overlapped>>

Remove(p) ==
  /\ At(p, "remove")
  /\ Return(p)
  /\ \/ file' = NoInode /\ Unlink /\ UNCHANGED tmp
     \/ UNCHANGED disk            \* os.Remove fails
  /\ UNCHANGED <<service, doomed, overlapped>>

\* The process ends: 200 ms after its command has returned, or killed.
Exit(p) ==
  /\ ~At(p, "idle")
  /\ cli' = [cli EXCEPT ![p] = Idle]
  /\ doomed' = doomed \cup Spent(p)
  /\ UNCHANGED <<disk, service, overlapped>>

Init ==
  /\ file = 1 /\ tmp = NoInode
  /\ data = [i \in Inodes |->
               IF i = 1 THEN [access |-> 1, refresh |-> 1] ELSE NoTokens]
  /\ minted = 1 /\ valid = {1} /\ doomed = {}
  /\ overlapped = FALSE
  /\ cli = [p \in Procs |-> Idle]

Ops == {"login", "logout", "query"}

Next ==
  \/ \E p \in Procs :
       \/ \E op \in Ops, apiKey \in BOOLEAN : Start(p, op, apiKey)
       \/ Load(p) \/ Execute(p) \/ Refresh(p) \/ Exchange(p)
       \/ SaveFails(p) \/ Open(p) \/ Fill(p) \/ Rename(p)
       \/ Query(p) \/ Run(p) \/ Revoke(p) \/ Remove(p) \/ Exit(p)

Spec == Init /\ [][Next]_vars
-----------------------------------------------------------------------------
Phases == {"idle", "load", "exchange", "execute", "refresh", "open", "fill",
           "rename", "query", "run", "revoke", "remove", "exit"}

Process ==
  [op : Ops \cup {"none"}, phase : Phases, apiKey : BOOLEAN,
   creds : TokenSets \cup {NoTokens}, spent : Tokens \cup {0},
   inode : Inodes \cup {NoInode}, telemetry : BOOLEAN]

TypeOK ==
  /\ {file, tmp} \subseteq Inodes \cup {NoInode}
  /\ data \in [Inodes -> TokenSets \cup {NoTokens}]
  /\ minted \in Tokens
  /\ valid \subseteq 1..minted
  /\ doomed \subseteq 1..minted
  /\ overlapped \in BOOLEAN
  /\ cli \in [Procs -> Process]

\* As long as no save has started while another one was under way, the
\* credentials file is never found half written: a kill in the middle of a
\* save, by os.Exit during the telemetry of root.go:57 too, leaves the old file
\* (credentials.go:90).  And the refresh token in it is one the service accepts,
\* unless it was revoked, its replacement was lost, or a process is about to
\* save the replacement (graphqlclient.go:80): no order of several processes
\* logs the user out.  Two saves at once share the temporary file, and may
\* leave an empty one.
SessionKept ==
  file # NoInode /\ ~overlapped =>
    /\ data[file] # NoTokens
    /\ data[file].refresh \in valid \cup doomed \cup UNION {Spent(p) : p \in Procs}

\* What the help of `cre logout` says: the stored credentials are deleted.
\* Once they are, only a login brings credentials back.
LogoutSticks ==
  [][file = NoInode /\ file' # NoInode =>
       \E p \in Procs : cli[p].op = "login" /\ At(p, "rename")]_vars
===============================================================================
