------------------------ MODULE MCRecordCommandsProofs ------------------------
(***************************************************************************)
(* The properties of the commands that keep records, as their run checks   *)
(* them, proved from those of the groups.  The tool runs one group for the *)
(* whole of a behaviour, and a step of the tool is a step of that group.   *)
(* The groups that register workflows run with several flags: they are     *)
(* proved about in a module of their own, for all of them.  The groups     *)
(* that keep the session, initialise projects, update the tool and read    *)
(* settings run in one way, and their inductive invariants are stated and  *)
(* proved here.                                                            *)
(***************************************************************************)
EXTENDS MCRecordCommands, Sequences, TLAPS, FiniteSetTheorems, WellFoundedInduction

-----------------------------------------------------------------------------
(* Steps of the tool *)

\* One group of commands runs for the whole of a behaviour.
LEMMA ConfigStays == [Next]_vars => config' = config
  BY DEF Next, Others, vars

LEMMA RegularSteps ==
  ASSUME On("regular"), [Next]_vars PROVE [Regular!Next]_(Regular!vars)
  BY DEF On, Next, vars, workflowVars, Regular!vars, Regular!chainVars,
         Regular!outVars
LEMMA OfflineSteps ==
  ASSUME On("offline"), [Next]_vars PROVE [Offline!Next]_(Offline!vars)
  BY DEF On, Next, vars, workflowVars, Offline!vars, Offline!chainVars,
         Offline!outVars
LEMMA ChangesetSteps ==
  ASSUME On("changeset"), [Next]_vars
  PROVE  [Changeset!Next]_(Changeset!vars)
  BY DEF On, Next, vars, workflowVars, Changeset!vars, Changeset!chainVars,
         Changeset!outVars
-----------------------------------------------------------------------------
(* Induction on the natural numbers, over sets *)

\* A set of natural numbers has an element below which none of its elements is.
LEMMA MinimalOf ==
  ASSUME NEW R, IsWellFoundedOn(R, Nat), NEW T, T \subseteq Nat, T # {}
  PROVE  \E m \in T : \A k \in T : ~(<<k, m>> \in R)
  BY WFMin, ZenonT(60)

LEMMA LeastOf ==
  ASSUME NEW R, IsWellFoundedOn(R, Nat),
         \A a, b \in Nat : a < b => <<a, b>> \in R,
         NEW T, T \subseteq Nat, T # {}
  PROVE  \E m \in T : \A k \in T : m <= k
<1>1. PICK x \in T : \A y \in T : ~(<<y, x>> \in R)
  BY MinimalOf, ZenonT(60)
<1>2. \A y \in T : ~(y < x)
  BY <1>1
<1>3. \A y \in T : x <= y
  BY <1>2
<1> QED BY <1>3

LEMMA LeastNumber ==
  ASSUME NEW T, T \subseteq Nat, T # {}
  PROVE  \E m \in T : \A k \in T : m <= k
<1>1. IsWellFoundedOn(OpToRel(<, Nat), Nat)
  BY NatLessThanWellFounded
<1>2. \A a, b \in Nat : a < b => <<a, b>> \in OpToRel(<, Nat)
  BY DEF OpToRel
<1> QED BY <1>1, <1>2, LeastOf

\* A set with 0 and the successors of its numbers holds all of them.
LEMMA AllNumbers ==
  ASSUME NEW S, 0 \in S, \A n \in Nat : n \in S => n + 1 \in S
  PROVE  \A n \in Nat : n \in S
<1>1. SUFFICES ASSUME Nat \ S # {} PROVE FALSE
  OBVIOUS
<1>2. PICK m \in Nat \ S : \A k \in Nat \ S : m <= k
  BY <1>1, LeastNumber
<1>3. m - 1 \in Nat /\ (m - 1) + 1 = m
  BY <1>2
<1>4. m - 1 \in S
  BY <1>2, <1>3
<1> QED BY <1>2, <1>3, <1>4
-----------------------------------------------------------------------------
(* Credentials of several processes *)

Handed(m) == [access : 1..m, refresh : 1..m]

WillSave == {"open", "fill", "rename"}

\* What holds of a process with the record c, of the m token sets handed out.
OwnInv(c, m) ==
  /\ c.creds \in Handed(m) \cup {Tool!NoTokens}
  /\ c.phase \in WillSave \cup {"refresh"} => c.creds # Tool!NoTokens
  /\ c.phase \in {"execute", "query", "run", "revoke"} =>
       c.apiKey \/ c.creds # Tool!NoTokens
  /\ c.spent \in 0..m
  /\ c.spent # 0 => c.phase \in WillSave

DiskInv ==
  /\ tmp # Tool!NoInode => tmp # file
  /\ \A i \in Tool!Inodes : data[i] \in Handed(minted) \cup {Tool!NoTokens}

\* The temporary file belongs to the one process that is saving.
SavingInv(p) ==
  /\ \A q \in Procs : Tool!Saving(p) /\ Tool!Saving(q) => p = q
  /\ Tool!Saving(p) => tmp # Tool!NoInode
  /\ Tool!At(p, "fill") => cli[p].inode = tmp
  /\ Tool!At(p, "rename") => data[tmp] = cli[p].creds

\* Nobody else can use the refresh token that p has still to save.
NewInv(p) ==
  cli[p].phase \in WillSave =>
    /\ cli[p].creds.refresh \in valid \cup doomed
    /\ Rotates =>
         /\ \A q \in Procs \ {p} : cli[q].creds.refresh # cli[p].creds.refresh
         /\ file # Tool!NoInode => data[file].refresh # cli[p].creds.refresh

FileInv ==
  file # Tool!NoInode =>
    /\ data[file] # Tool!NoTokens
    /\ \/ data[file].refresh \in valid \cup doomed
       \/ \E p \in Procs : data[file].refresh \in Tool!Spent(p)

SessionInv ==
  /\ Tool!TypeOK /\ DiskInv
  /\ \A p \in Procs : OwnInv(cli[p], minted)
  /\ ~overlapped => FileInv /\ \A p \in Procs : SavingInv(p) /\ NewInv(p)

\* What the module says with its own copy of Cardinality.
LEMMA ProcsFinite ==
  ASSUME Tool!SessionAssumption
  PROVE  IsFiniteSet(Procs) /\ Tool!Inodes = 1..(Cardinality(Procs) + 2)
<1>1. \A S : Tool!IsFiniteSet(S) <=> IsFiniteSet(S)
  BY DEF Tool!IsFiniteSet, IsFiniteSet
<1>2. \A S : Tool!Cardinality(S) = Cardinality(S)
  BY DEF Tool!Cardinality, Cardinality
<1> QED BY <1>1, <1>2 DEF Tool!SessionAssumption, Tool!Inodes

LEMMA OneMore ==
  ASSUME NEW S, IsFiniteSet(S), NEW x, NEW n \in Nat, Cardinality(S) <= n
  PROVE  IsFiniteSet(S \cup {x}) /\ Cardinality(S \cup {x}) <= n + 1
<1>1. Cardinality(S) \in Nat
  BY FS_CardinalityType
<1>2. /\ IsFiniteSet(S \cup {x})
      /\ Cardinality(S \cup {x}) \in {Cardinality(S), Cardinality(S) + 1}
  BY FS_AddElement
<1> QED BY <1>1, <1>2

\* There is always an inode that no name and no process has.
LEMMA FreeInodes ==
  ASSUME Tool!SessionAssumption, Tool!TypeOK, tmp = Tool!NoInode
  PROVE  Tool!FreeInode \in Tool!Inodes \ Tool!InUse
<1> DEFINE R == {cli[p].inode : p \in Procs}
<1> DEFINE f == [p \in Procs |-> cli[p].inode]
<1>1. IsFiniteSet(R) /\ Cardinality(R) <= Cardinality(Procs)
  <2>1. f \in [Procs -> R]
    OBVIOUS
  <2>3. \A i \in R : \E p \in Procs : f[p] = i
    OBVIOUS
  <2>2. f \in Surjection(Procs, R)
    BY <2>1, <2>3, Zenon DEF Surjection
  <2> QED BY <2>2, FS_Surjection, ProcsFinite
<1>2. Cardinality(Procs) \in Nat /\ Cardinality(R) \in Nat
  BY <1>1, FS_CardinalityType, ProcsFinite
<1>3. /\ IsFiniteSet(R \cup {file})
      /\ Cardinality(R \cup {file}) <= Cardinality(Procs) + 1
  BY <1>1, <1>2, OneMore
<1>4. Cardinality(Tool!Inodes) = Cardinality(Procs) + 2
  <2>1. Cardinality(1..(Cardinality(Procs) + 2)) = Cardinality(Procs) + 2
    BY <1>2, FS_Interval
  <2> QED BY <2>1, ProcsFinite
<1>5. ~(Tool!Inodes \subseteq R \cup {file})
  <2>1. ASSUME Tool!Inodes \in SUBSET (R \cup {file}) PROVE FALSE
    <3>1. Cardinality(Tool!Inodes) <= Cardinality(R \cup {file})
      BY <1>3, <2>1, FS_Subset
    <3>2. Cardinality(R \cup {file}) \in Nat
      BY <1>3, FS_CardinalityType
    <3> QED BY <1>2, <1>3, <1>4, <3>1, <3>2
  <2> QED BY <2>1
<1>6. PICK i \in Tool!Inodes : i \notin R \cup {file}
  BY <1>5
<1>7. i \notin Tool!InUse
  BY <1>2, <1>6, ProcsFinite DEF Tool!InUse, Tool!NoInode
<1> QED BY <1>6, <1>7 DEF Tool!FreeInode

FileStays == UNCHANGED <<file, data>>
FileGoes == file' = Tool!NoInode /\ Tool!Unlink

\* p becomes what c says, and the disk stays, but for the file, which may go.
ProcessBecomes(p, c) ==
  /\ cli' = [cli EXCEPT ![p] = c] /\ c \in Tool!Process
  /\ UNCHANGED <<tmp, overlapped>> /\ (FileStays \/ FileGoes)

\* What is not in the file stays where it is.
LEMMA UnlinkSteps ==
  ASSUME SessionInv, FileStays \/ Tool!Unlink
  PROVE  /\ data' \in [Tool!Inodes -> Tool!TokenSets \cup {Tool!NoTokens}]
         /\ \A i \in Tool!Inodes : data'[i] \in {data[i], Tool!NoTokens}
         /\ \A i \in Tool!Inodes \ {file} : data'[i] = data[i]
         /\ tmp # Tool!NoInode => data'[tmp] = data[tmp]
<1>1. /\ data \in [Tool!Inodes -> Tool!TokenSets \cup {Tool!NoTokens}]
      /\ tmp # Tool!NoInode => tmp \in Tool!Inodes \ {file}
  BY DEF SessionInv, Tool!TypeOK, DiskInv
<1> QED BY <1>1 DEF Tool!Unlink, FileStays

ServiceSteps ==
  /\ minted' \in Tool!Tokens /\ minted \in 1..minted'
  /\ valid' \subseteq 1..minted'
  /\ doomed' \subseteq 1..minted' /\ doomed \subseteq doomed'

LEMMA HandedGrows ==
  ASSUME NEW m \in Tool!Tokens, NEW n \in Tool!Tokens, m \in 1..n, Tool!SessionAssumption
  PROVE  /\ Handed(m) \subseteq Handed(n) /\ Handed(n) \subseteq Tool!TokenSets
         /\ \A c : OwnInv(c, m) => OwnInv(c, n)
  BY DEF Handed, Tool!Tokens, Tool!TokenSets, OwnInv, Tool!SessionAssumption

LEMMA BecomesFacts ==
  ASSUME Tool!SessionAssumption, SessionInv, NEW p \in Procs, NEW c, ProcessBecomes(p, c),
         ServiceSteps, OwnInv(c, minted')
  PROVE  /\ Tool!TypeOK' /\ DiskInv' /\ \A q \in Procs : OwnInv(cli[q], minted)'
         /\ cli'[p] = c /\ \A q \in Procs \ {p} : cli'[q] = cli[q]
<1>1. cli'[p] = c /\ \A q \in Procs \ {p} : cli'[q] = cli[q]
  BY DEF SessionInv, Tool!TypeOK, ProcessBecomes
<1>2. Tool!TypeOK'
  BY <1>1, UnlinkSteps
     DEF SessionInv, Tool!TypeOK, ProcessBecomes, FileStays, FileGoes, ServiceSteps
<1>3. minted \in Tool!Tokens /\ minted' \in Tool!Tokens /\ minted \in 1..minted'
  BY DEF SessionInv, Tool!TypeOK, ServiceSteps
<1>4. DiskInv'
  <2>1. \A i \in Tool!Inodes : data[i] \in Handed(minted') \cup {Tool!NoTokens}
    BY <1>3, HandedGrows DEF SessionInv, DiskInv
  <2>2. \A i \in Tool!Inodes : data'[i] \in Handed(minted') \cup {Tool!NoTokens}
    BY <2>1, UnlinkSteps DEF ProcessBecomes, FileGoes
  <2> QED BY <2>2 DEF DiskInv, SessionInv, ProcessBecomes, FileStays, FileGoes
<1>5. \A q \in Procs : OwnInv(cli'[q], minted')
  BY <1>1, <1>3, HandedGrows DEF SessionInv
<1> QED BY <1>1, <1>2, <1>4, <1>5

\* A step after which p is not saving.
LEMMA IdleStep ==
  ASSUME Tool!SessionAssumption, SessionInv, NEW p \in Procs, NEW c, ProcessBecomes(p, c),
         ServiceSteps, OwnInv(c, minted'), c.phase \notin WillSave,
         \/ c.creds \in {cli[p].creds, Tool!NoTokens}
         \/ file # Tool!NoInode /\ c.creds = data[file],
         valid \subseteq valid' \cup doomed', Tool!Spent(p) \subseteq doomed'
  PROVE  SessionInv'
<1>1. /\ Tool!TypeOK' /\ DiskInv' /\ \A q \in Procs : OwnInv(cli[q], minted)'
      /\ cli'[p] = c /\ \A q \in Procs \ {p} : cli'[q] = cli[q]
  BY BecomesFacts
<1>2. SUFFICES ASSUME ~overlapped
               PROVE  FileInv' /\ \A q \in Procs : SavingInv(q)' /\ NewInv(q)'
  BY <1>1 DEF SessionInv, ProcessBecomes
<1>3. FileInv /\ \A q \in Procs : SavingInv(q) /\ NewInv(q)
  BY <1>2 DEF SessionInv
<1>4. FileInv'
  <2>1. SUFFICES ASSUME file' # Tool!NoInode PROVE FileInv'
    BY DEF FileInv
  <2>2. file' = file /\ data' = data
    BY <2>1 DEF ProcessBecomes, FileStays, FileGoes
  <2>3. CASE data[file].refresh \in valid \cup doomed
    BY <1>3, <2>1, <2>2, <2>3 DEF FileInv, ServiceSteps
  <2>4. ASSUME NEW q \in Procs, data[file].refresh \in Tool!Spent(q)
        PROVE  FileInv'
    <3>1. CASE q = p
      BY <1>3, <2>1, <2>2, <2>4, <3>1 DEF FileInv
    <3>2. CASE q # p
      BY <1>1, <1>3, <2>1, <2>2, <2>4, <3>2 DEF FileInv, Tool!Spent
    <3> QED BY <3>1, <3>2
  <2> QED BY <1>3, <2>1, <2>2, <2>3, <2>4 DEF FileInv
<1>5. ASSUME NEW q \in Procs PROVE SavingInv(q)'
  <2>1. tmp' = tmp /\ (tmp # Tool!NoInode => data'[tmp] = data[tmp])
    BY UnlinkSteps DEF ProcessBecomes, FileGoes
  <2> QED BY <1>1, <1>3, <2>1 DEF SavingInv, Tool!Saving, Tool!At, WillSave
<1>6. ASSUME NEW q \in Procs PROVE NewInv(q)'
  <2>1. SUFFICES ASSUME cli'[q].phase \in WillSave PROVE NewInv(q)'
    BY DEF NewInv
  <2>2. q # p /\ cli'[q] = cli[q]
    BY <1>1, <2>1
  <2>3. /\ cli[q].creds.refresh \in valid' \cup doomed'
        /\ Rotates =>
             /\ \A r \in Procs \ {q} : cli[r].creds.refresh # cli[q].creds.refresh
             /\ file # Tool!NoInode => data[file].refresh # cli[q].creds.refresh
    BY <1>3, <2>1, <2>2 DEF NewInv, ServiceSteps
  <2>4. cli[q].creds.refresh # Tool!NoTokens.refresh
    <3>1. cli[q].creds \in Handed(minted)
      BY <2>1, <2>2 DEF SessionInv, OwnInv
    <3> QED BY <3>1 DEF Handed, Tool!NoTokens
  <2>5. Rotates => c.creds.refresh # cli[q].creds.refresh
    BY <2>2, <2>3, <2>4
  <2>6. file' # Tool!NoInode => UNCHANGED <<file, data>>
    BY DEF ProcessBecomes, FileStays, FileGoes
  <2> QED BY <1>1, <2>2, <2>3, <2>5, <2>6 DEF NewInv
<1> QED BY <1>4, <1>5, <1>6

\* A step with which p gets tokens that nobody else has, for those it had.
LEMMA NewTokensStep ==
  ASSUME Tool!SessionAssumption, SessionInv, NEW p \in Procs, NEW c, ProcessBecomes(p, c),
         FileStays, ServiceSteps, OwnInv(c, minted'), minted' = minted + 1,
         c.phase = "open", c.creds.refresh \in valid',
         Rotates => c.creds.refresh = minted',
         cli[p].spent = 0, valid \ {c.spent} \subseteq valid',
         c.spent # 0 => Rotates /\ c.spent = cli[p].creds.refresh
  PROVE  SessionInv'
<1>1. /\ Tool!TypeOK' /\ DiskInv' /\ \A q \in Procs : OwnInv(cli[q], minted)'
      /\ cli'[p] = c /\ \A q \in Procs \ {p} : cli'[q] = cli[q]
  BY BecomesFacts
<1>2. SUFFICES ASSUME ~overlapped
               PROVE  FileInv' /\ \A q \in Procs : SavingInv(q)' /\ NewInv(q)'
  BY <1>1 DEF SessionInv, ProcessBecomes
<1>3. FileInv /\ \A q \in Procs : SavingInv(q) /\ NewInv(q)
  BY <1>2 DEF SessionInv
<1>4. FileInv'
  <2>1. SUFFICES ASSUME file # Tool!NoInode PROVE FileInv'
    BY DEF FileInv, FileStays
  <2>2. UNCHANGED <<file, data>>
    BY DEF FileStays
  <2>3. ASSUME data[file].refresh \in valid \cup doomed PROVE FileInv'
    <3>1. \/ data[file].refresh \in valid' \cup doomed'
          \/ data[file].refresh = c.spent
      BY <2>3 DEF ServiceSteps
    <3>2. 0 \notin valid \cup doomed
      BY DEF SessionInv, Tool!TypeOK
    <3>3. data[file].refresh = c.spent => data[file].refresh \in Tool!Spent(p)'
      BY <1>1, <2>3, <3>2 DEF Tool!Spent
    <3> QED BY <1>3, <2>1, <2>2, <3>1, <3>3 DEF FileInv
  <2>4. ASSUME NEW q \in Procs, data[file].refresh \in Tool!Spent(q)
        PROVE  FileInv'
    <3>1. q # p
      BY <2>4 DEF Tool!Spent
    <3> QED BY <1>1, <1>3, <2>1, <2>2, <2>4, <3>1 DEF FileInv, Tool!Spent
  <2> QED BY <1>3, <2>1, <2>3, <2>4 DEF FileInv
<1>5. ASSUME NEW q \in Procs PROVE SavingInv(q)'
  BY <1>1, <1>3 DEF SavingInv, Tool!Saving, Tool!At, ProcessBecomes, FileStays
<1>6. /\ \A q \in Procs \ {p} : cli[q].creds.refresh \in 0..minted
      /\ file # Tool!NoInode => data[file].refresh \in 1..minted
      /\ minted \in Nat /\ minted' \notin 0..minted
  <2>1. minted \in Nat /\ minted' \notin 0..minted
    BY DEF SessionInv, Tool!TypeOK, Tool!Tokens, Tool!SessionAssumption
  <2>2. \A q \in Procs : cli[q].creds \in Handed(minted) \cup {Tool!NoTokens}
    BY DEF SessionInv, OwnInv
  <2>3. \A q \in Procs : cli[q].creds.refresh \in 0..minted
    BY <2>1, <2>2 DEF Handed, Tool!NoTokens
  <2>4. file # Tool!NoInode => data[file] \in Handed(minted)
    BY <1>3 DEF FileInv, SessionInv, DiskInv, Tool!TypeOK
  <2> QED BY <2>1, <2>3, <2>4 DEF Handed
<1>7. NewInv(p)'
  BY <1>1, <1>6 DEF NewInv, FileStays
<1>8. ASSUME NEW q \in Procs \ {p} PROVE NewInv(q)'
  <2>1. SUFFICES ASSUME cli[q].phase \in WillSave PROVE NewInv(q)'
    BY <1>1 DEF NewInv
  <2>2. /\ cli[q].creds.refresh \in valid \cup doomed
        /\ Rotates =>
             /\ \A r \in Procs \ {q} : cli[r].creds.refresh # cli[q].creds.refresh
             /\ file # Tool!NoInode => data[file].refresh # cli[q].creds.refresh
    BY <1>3, <2>1 DEF NewInv
  <2>3. cli[q].creds.refresh # 0
    BY <2>2 DEF SessionInv, Tool!TypeOK
  <2>4. cli[q].creds.refresh \in valid' \cup doomed'
    BY <2>2, <2>3 DEF ServiceSteps
  <2>5. Rotates => c.creds.refresh # cli[q].creds.refresh
    BY <1>6
  <2> QED BY <1>1, <2>2, <2>4, <2>5 DEF NewInv, FileStays
<1> QED BY <1>4, <1>5, <1>7, <1>8

\* What p does next is not to save.
QuietChange(p, c) ==
  /\ cli' = [cli EXCEPT ![p] = c] /\ c.phase \notin WillSave
  /\ \/ c.creds \in {cli[p].creds, Tool!NoTokens}
     \/ file # Tool!NoInode /\ c.creds = data[file]
  /\ \A m \in Tool!Tokens : minted \in 1..m => OwnInv(c, m)

LEMMA QuietStep ==
  ASSUME Tool!SessionAssumption, SessionInv, NEW p \in Procs,
         \E c \in Tool!Process : QuietChange(p, c),
         UNCHANGED <<tmp, overlapped>>, FileStays \/ FileGoes, ServiceSteps,
         valid \subseteq valid' \cup doomed', Tool!Spent(p) \subseteq doomed'
  PROVE  SessionInv'
<1>1. PICK c \in Tool!Process : QuietChange(p, c)
  OBVIOUS
<1>2. ProcessBecomes(p, c) /\ OwnInv(c, minted')
  BY <1>1 DEF QuietChange, ProcessBecomes, ServiceSteps
<1> QED BY <1>1, <1>2, IdleStep DEF QuietChange

LEMMA OwnRecord ==
  ASSUME Tool!SessionAssumption, SessionInv, NEW p \in Procs
  PROVE  /\ cli[p] \in Tool!Process /\ cli[p].creds \in Tool!TokenSets \cup {Tool!NoTokens}
         /\ minted \in Tool!Tokens /\ minted \in 1..minted
         /\ \A m \in Tool!Tokens : minted \in 1..m => OwnInv(cli[p], m)
         /\ cli[p].spent # 0 => cli[p].phase \in WillSave
<1>1. OwnInv(cli[p], minted)
  BY DEF SessionInv
<1>2. cli[p] \in Tool!Process /\ minted \in Tool!Tokens /\ minted \in 1..minted
  BY DEF SessionInv, Tool!TypeOK, Tool!Tokens, Tool!SessionAssumption
<1> QED BY <1>1, <1>2, HandedGrows DEF OwnInv, Tool!Process

\* p goes on to another step, and has the credentials the step is about.
LEMMA Going ==
  ASSUME Tool!SessionAssumption, SessionInv, NEW p \in Procs,
         NEW step \in {"execute", "refresh", "query", "run", "remove"}, Tool!Goto(p, step),
         Tool!HasCredentials(p), step = "refresh" => cli[p].creds # Tool!NoTokens,
         cli[p].phase \notin WillSave
  PROVE  \E c \in Tool!Process : QuietChange(p, c)
<1> DEFINE c == [cli[p] EXCEPT !.phase = step]
<1>1. cli[p] \in Tool!Process /\ step \in Tool!Phases
  BY OwnRecord DEF Tool!Phases
<1>2. c \in Tool!Process
  BY <1>1, Zenon DEF Tool!Process
<1>3. /\ c.phase = step /\ c.creds = cli[p].creds /\ c.spent = cli[p].spent
      /\ c.apiKey = cli[p].apiKey
  BY <1>1 DEF Tool!Process
<1>4. cli' = [cli EXCEPT ![p] = c]
  BY <1>1 DEF Tool!Goto, SessionInv, Tool!TypeOK
<1> HIDE DEF c
<1>5. \A m \in Tool!Tokens : minted \in 1..m => OwnInv(c, m)
  BY <1>3, OwnRecord DEF OwnInv, WillSave, Tool!HasCredentials
<1> QED BY <1>2, <1>3, <1>4, <1>5 DEF QuietChange, WillSave

LEMMA Idling ==
  ASSUME Tool!SessionAssumption, SessionInv, NEW p \in Procs,
         NEW op \in Tool!Ops \cup {"none"}, NEW apiKey \in BOOLEAN,
         NEW phase \in {"idle", "load", "exchange", "exit"},
         cli' = [cli EXCEPT ![p] = Tool!Empty(op, apiKey, phase)]
  PROVE  \E c \in Tool!Process : QuietChange(p, c)
<1> DEFINE c == Tool!Empty(op, apiKey, phase)
<1>1. phase \in Tool!Phases /\ Tool!NoTokens \in Tool!TokenSets \cup {Tool!NoTokens}
      /\ 0 \in Tool!Tokens \cup {0} /\ Tool!NoInode \in Tool!Inodes \cup {Tool!NoInode}
  BY DEF Tool!Phases
<1>2. c \in Tool!Process
  BY <1>1, Zenon DEF Tool!Process, Tool!Empty
<1>3. c.phase = phase /\ c.creds = Tool!NoTokens /\ c.spent = 0
  BY DEF Tool!Empty
<1> HIDE DEF c
<1>4. \A m \in Tool!Tokens : OwnInv(c, m)
  BY <1>3 DEF OwnInv, WillSave, Tool!Tokens, Tool!SessionAssumption
<1>5. cli' = [cli EXCEPT ![p] = c]
  BY DEF c
<1> QED BY <1>2, <1>3, <1>4, <1>5 DEF QuietChange, WillSave

LEMMA Ending ==
  ASSUME Tool!SessionAssumption, SessionInv, NEW p \in Procs, Tool!End(p)
  PROVE  \E c \in Tool!Process : QuietChange(p, c)
  BY Idling DEF Tool!End

LEMMA Returning ==
  ASSUME Tool!SessionAssumption, SessionInv, NEW p \in Procs, Tool!Return(p)
  PROVE  \E c \in Tool!Process : QuietChange(p, c)
<1>1. CASE Tool!End(p)
  BY <1>1, Ending
<1>2. CASE ~Tool!End(p)
  <2> DEFINE c == [cli[p] EXCEPT !.op = "none", !.phase = "execute",
                                 !.telemetry = TRUE, !.spent = 0,
                                 !.inode = Tool!NoInode]
  <2>1. cli[p] \in Tool!Process /\ "execute" \in Tool!Phases
    BY OwnRecord DEF Tool!Phases
  <2>2. c \in Tool!Process
    BY <2>1, Zenon DEF Tool!Process
  <2>3. /\ c.phase = "execute" /\ c.creds = cli[p].creds /\ c.spent = 0
        /\ c.apiKey = cli[p].apiKey
    BY <2>1 DEF Tool!Process
  <2>4. cli' = [cli EXCEPT ![p] = c] /\ Tool!HasCredentials(p)
    BY <1>2, <2>1 DEF Tool!Return, SessionInv, Tool!TypeOK
  <2> HIDE DEF c
  <2>5. \A m \in Tool!Tokens : minted \in 1..m => OwnInv(c, m)
    BY <2>3, <2>4, OwnRecord
       DEF OwnInv, WillSave, Tool!HasCredentials, Tool!Tokens,
           Tool!SessionAssumption
  <2> QED BY <2>2, <2>3, <2>4, <2>5 DEF QuietChange, WillSave
<1> QED BY <1>1, <1>2

LEMMA Failing ==
  ASSUME Tool!SessionAssumption, SessionInv, NEW p \in Procs, Tool!Failed(p)
  PROVE  /\ \E c \in Tool!Process : QuietChange(p, c)
         /\ doomed' \subseteq 1..minted /\ doomed \cup Tool!Spent(p) \subseteq doomed'
<1>1. cli[p].spent \in 0..minted
  BY DEF SessionInv, OwnInv
<1>2. doomed' = doomed \cup Tool!Spent(p)
  BY DEF Tool!Failed
<1>3. doomed \subseteq 1..minted /\ minted \in Nat
  BY OwnRecord DEF SessionInv, Tool!TypeOK, Tool!Tokens
<1>4. Tool!Spent(p) \subseteq 1..minted
  BY <1>1, <1>3 DEF Tool!Spent
<1>5. \E c \in Tool!Process : QuietChange(p, c)
  BY Ending, Returning DEF Tool!Failed
<1> QED BY <1>2, <1>3, <1>4, <1>5

\* The service leaves the tokens alone.
LEMMA ServiceStays ==
  ASSUME Tool!SessionAssumption, SessionInv, UNCHANGED Tool!service,
         doomed' \subseteq 1..minted, doomed \subseteq doomed'
  PROVE  ServiceSteps /\ valid \subseteq valid' \cup doomed'
  BY
     DEF SessionInv, Tool!TypeOK, ServiceSteps, Tool!service, Tool!Tokens,
         Tool!SessionAssumption

LEMMA DoomedType ==
  ASSUME SessionInv
  PROVE  /\ doomed \subseteq 1..minted
         /\ valid \subseteq 1..minted
  BY DEF SessionInv, Tool!TypeOK

LEMMA SpentNothing ==
  ASSUME SessionInv, NEW p \in Procs, cli[p].phase \notin WillSave
  PROVE  Tool!Spent(p) = {} /\ cli[p].spent = 0
  BY DEF SessionInv, OwnInv, Tool!Spent

\* A step that neither saves nor involves the service's tokens.
LEMMA LocalStep ==
  ASSUME Tool!SessionAssumption, SessionInv, NEW p \in Procs,
         \/ \E op \in Tool!Ops, apiKey \in BOOLEAN : Tool!Start(p, op, apiKey)
         \/ Tool!Load(p) \/ Tool!Execute(p) \/ Tool!Query(p) \/ Tool!Run(p) \/ Tool!Exit(p) \/ Tool!SaveFails(p)
         \/ Tool!Remove(p)
  PROVE  SessionInv'
<1>1. CASE \E op \in Tool!Ops, apiKey \in BOOLEAN : Tool!Start(p, op, apiKey)
  <2>1. PICK op \in Tool!Ops, apiKey \in BOOLEAN : Tool!Start(p, op, apiKey)
    BY <1>1
  <2> DEFINE phase == IF op = "login" THEN "exchange" ELSE "load"
  <2>2. phase \in {"idle", "load", "exchange", "exit"}
    OBVIOUS
  <2>3. /\ cli' = [cli EXCEPT ![p] = Tool!Empty(op, apiKey, phase)]
        /\ cli[p].phase = "idle"
        /\ UNCHANGED <<Tool!disk, Tool!service, doomed, overlapped>>
    BY <2>1 DEF Tool!Start, Tool!At
  <2> HIDE DEF phase
  <2>5. \E c \in Tool!Process : QuietChange(p, c)
    BY <2>2, <2>3, Idling
  <2>6. ServiceSteps /\ valid \subseteq valid' \cup doomed' /\ Tool!Spent(p) = {}
    BY <2>3, ServiceStays, DoomedType, SpentNothing DEF WillSave
  <2> QED BY <2>3, <2>5, <2>6, QuietStep DEF Tool!disk, FileStays
<1>2. CASE Tool!Load(p)
  <2>1. /\ UNCHANGED <<Tool!disk, Tool!service, doomed, overlapped>>
        /\ cli[p].phase = "load"
    BY <1>2 DEF Tool!Load, Tool!At
  <2>2. ServiceSteps /\ valid \subseteq valid' \cup doomed' /\ Tool!Spent(p) = {}
    BY <2>1, ServiceStays, DoomedType, SpentNothing DEF WillSave
  <2>3. \E c \in Tool!Process : QuietChange(p, c)
    <3>1. CASE Tool!End(p)
      BY <3>1, Ending
    <3>2. CASE ~Tool!End(p)
      <4> DEFINE creds == IF cli[p].apiKey THEN Tool!NoTokens ELSE data[file]
      <4> DEFINE phase == IF cli[p].op = "logout" THEN "revoke" ELSE "execute"
      <4> DEFINE c == [cli[p] EXCEPT !.creds = creds, !.phase = phase]
      <4>1. /\ cli' = [cli EXCEPT ![p] = c]
            /\ cli[p].apiKey \/ (file # Tool!NoInode /\ data[file] # Tool!NoTokens)
        BY <1>2, <3>2 DEF Tool!Load, SessionInv, Tool!TypeOK
      <4>2. file # Tool!NoInode => data[file] \in Handed(minted) \cup {Tool!NoTokens}
        BY DEF SessionInv, Tool!TypeOK, DiskInv
      <4>3. /\ creds \in Handed(minted) \cup {Tool!NoTokens}
            /\ cli[p].apiKey \/ creds # Tool!NoTokens
            /\ creds = Tool!NoTokens \/ (file # Tool!NoInode /\ creds = data[file])
        BY <4>1, <4>2
      <4>4. phase \in {"revoke", "execute"} /\ phase \in Tool!Phases
        BY DEF Tool!Phases
      <4>5. cli[p] \in Tool!Process /\ creds \in Tool!TokenSets \cup {Tool!NoTokens}
        BY <4>3, OwnRecord, HandedGrows
      <4> HIDE DEF creds, phase
      <4>6. c \in Tool!Process
        BY <4>4, <4>5, Zenon DEF Tool!Process
      <4>7. /\ c.creds = creds /\ c.phase = phase /\ c.apiKey = cli[p].apiKey
            /\ c.spent = cli[p].spent
        BY <4>5 DEF Tool!Process
      <4> HIDE DEF c
      <4>8. \A m \in Tool!Tokens : minted \in 1..m => OwnInv(c, m)
        <5>1. cli[p].spent = 0
          BY <2>1, SpentNothing DEF WillSave
        <5>2. \A m \in Tool!Tokens : minted \in 1..m => Handed(minted) \subseteq Handed(m)
          BY OwnRecord, HandedGrows
        <5> QED BY <4>3, <4>4, <4>7, <5>1, <5>2
           DEF OwnInv, WillSave, Tool!Tokens, Tool!SessionAssumption
      <4> QED BY <4>1, <4>3, <4>4, <4>6, <4>7, <4>8 DEF QuietChange, WillSave
    <3> QED BY <3>1, <3>2
  <2> QED BY <2>1, <2>2, <2>3, QuietStep DEF Tool!disk, FileStays
<1>3. CASE Tool!Execute(p)
  <2>1. /\ UNCHANGED <<Tool!disk, Tool!service, doomed, overlapped>>
        /\ cli[p].phase = "execute"
        /\ Tool!Goto(p, "query") \/ (Tool!Goto(p, "refresh") /\ ~cli[p].apiKey)
    BY <1>3 DEF Tool!Execute, Tool!At
  <2>2. ServiceSteps /\ valid \subseteq valid' \cup doomed' /\ Tool!Spent(p) = {}
    BY <2>1, ServiceStays, DoomedType, SpentNothing DEF WillSave
  <2>3. Tool!HasCredentials(p)
    BY <2>1 DEF SessionInv, OwnInv, Tool!HasCredentials
  <2>4. \E c \in Tool!Process : QuietChange(p, c)
    BY <2>1, <2>3, Going DEF Tool!HasCredentials, WillSave
  <2> QED BY <2>1, <2>2, <2>4, QuietStep DEF Tool!disk, FileStays
<1>4. CASE Tool!Query(p) \/ Tool!SaveFails(p)
  <2>1. UNCHANGED <<Tool!disk, Tool!service, overlapped>>
    BY <1>4 DEF Tool!Query, Tool!SaveFails
  <2>2. CASE Tool!Failed(p)
    <3>1. ServiceSteps /\ valid \subseteq valid' \cup doomed'
      BY <2>1, <2>2, Failing, ServiceStays, DoomedType
    <3> QED BY <2>1, <2>2, <3>1, Failing, QuietStep DEF Tool!disk, FileStays
  <2>3. CASE ~Tool!Failed(p)
    <3>1. /\ cli[p].phase = "query" /\ (Tool!Goto(p, "run") \/ Tool!End(p))
          /\ UNCHANGED doomed
      BY <1>4, <2>3 DEF Tool!Query, Tool!SaveFails, Tool!At
    <3>2. ServiceSteps /\ valid \subseteq valid' \cup doomed' /\ Tool!Spent(p) = {}
      BY <2>1, <3>1, ServiceStays, DoomedType, SpentNothing DEF WillSave
    <3>3. Tool!HasCredentials(p)
      BY <3>1 DEF SessionInv, OwnInv, Tool!HasCredentials
    <3>4. \E c \in Tool!Process : QuietChange(p, c)
      BY <3>1, <3>3, Going, Ending DEF WillSave
    <3> QED BY <2>1, <3>2, <3>4, QuietStep DEF Tool!disk, FileStays
  <2> QED BY <2>2, <2>3
<1>5. CASE Tool!Run(p)
  <2>1. /\ UNCHANGED <<Tool!disk, Tool!service, doomed, overlapped>>
        /\ cli[p].phase = "run" /\ (Tool!Goto(p, "execute") \/ Tool!Return(p))
    BY <1>5 DEF Tool!Run, Tool!At
  <2>2. ServiceSteps /\ valid \subseteq valid' \cup doomed' /\ Tool!Spent(p) = {}
    BY <2>1, ServiceStays, DoomedType, SpentNothing DEF WillSave
  <2>3. Tool!HasCredentials(p)
    BY <2>1 DEF SessionInv, OwnInv, Tool!HasCredentials
  <2>4. \E c \in Tool!Process : QuietChange(p, c)
    BY <2>1, <2>3, Going, Returning DEF WillSave
  <2> QED BY <2>1, <2>2, <2>4, QuietStep DEF Tool!disk, FileStays
<1>6. CASE Tool!Exit(p)
  <2>2. /\ cli' = [cli EXCEPT ![p] = Tool!Empty("none", FALSE, "idle")]
        /\ doomed' = doomed \cup Tool!Spent(p)
        /\ UNCHANGED <<Tool!disk, Tool!service, overlapped>>
    BY <1>6 DEF Tool!Exit, Tool!Idle
  <2>3. \E c \in Tool!Process : QuietChange(p, c)
    BY <2>2, Idling
  <2>4. Tool!Spent(p) \subseteq 1..minted
    BY OwnRecord DEF SessionInv, OwnInv, Tool!Spent, Tool!Tokens
  <2>5. ServiceSteps /\ valid \subseteq valid' \cup doomed'
    BY <2>2, <2>4, ServiceStays, DoomedType
  <2> QED BY <2>2, <2>3, <2>5, QuietStep DEF Tool!disk, FileStays
<1>7. CASE Tool!Remove(p)
  <2>1. /\ UNCHANGED <<tmp, Tool!service, doomed, overlapped>>
        /\ FileGoes \/ FileStays
        /\ cli[p].phase = "remove" /\ Tool!Return(p)
    BY <1>7 DEF Tool!Remove, Tool!At, Tool!disk, FileGoes, FileStays
  <2>2. ServiceSteps /\ valid \subseteq valid' \cup doomed' /\ Tool!Spent(p) = {}
    BY <2>1, ServiceStays, DoomedType, SpentNothing DEF WillSave
  <2> QED BY <2>1, <2>2, Returning, QuietStep
<1> QED BY <1>1, <1>2, <1>3, <1>4, <1>5, <1>6, <1>7

LEMMA NextTokens ==
  ASSUME Tool!SessionAssumption, SessionInv, minted < MaxMinted, minted' = minted + 1
  PROVE  /\ minted' \in Tool!Tokens /\ minted \in 1..minted' /\ minted' \in 1..minted'
         /\ \A n \in 1..minted : n \in 1..minted'
         /\ Handed(minted') \subseteq Tool!TokenSets
<1>1. minted \in Nat /\ minted >= 1 /\ minted <= MaxMinted /\ MaxMinted \in Nat
  BY DEF SessionInv, Tool!TypeOK, Tool!Tokens, Tool!SessionAssumption
<1>2. minted' \in Tool!Tokens /\ minted \in 1..minted'
  BY <1>1 DEF Tool!Tokens
<1> QED BY <1>1, <1>2, HandedGrows DEF Tool!Tokens

\* A step that involves the service's tokens.
LEMMA TokensStep ==
  ASSUME Tool!SessionAssumption, SessionInv, NEW p \in Procs,
         Tool!Refresh(p) \/ Tool!Exchange(p) \/ Tool!Revoke(p)
  PROVE  SessionInv'
<1>1. /\ cli[p] \in Tool!Process /\ minted \in Tool!Tokens
      /\ valid \subseteq 1..minted
      /\ doomed \subseteq 1..minted
      /\ Tool!Spent(p) = {} /\ cli[p].spent = 0
  <2>1. cli[p].phase \notin WillSave
    BY DEF Tool!Refresh, Tool!Exchange, Tool!Revoke, Tool!At, WillSave
  <2> QED BY <2>1, OwnRecord, DoomedType, SpentNothing
<1>2. ASSUME NEW creds, NEW spent, minted < MaxMinted, minted' = minted + 1,
             creds \in Handed(minted'), spent \in 0..minted,
             cli' = [cli EXCEPT ![p].creds = creds, ![p].spent = spent,
                                ![p].phase = "open"],
             UNCHANGED <<Tool!disk, doomed, overlapped>>,
             valid' \subseteq valid \cup {minted'}, valid \ {spent} \subseteq valid',
             creds.refresh \in valid', Rotates => creds.refresh = minted',
             spent # 0 => Rotates /\ spent = cli[p].creds.refresh
      PROVE  SessionInv'
  <2> DEFINE c == [cli[p] EXCEPT !.creds = creds, !.spent = spent, !.phase = "open"]
  <2>1. /\ creds \in Tool!TokenSets \cup {Tool!NoTokens} /\ spent \in Tool!Tokens \cup {0}
        /\ "open" \in Tool!Phases /\ creds # Tool!NoTokens
    <3>1. creds \in Tool!TokenSets
      BY <1>2, NextTokens
    <3>2. creds # Tool!NoTokens
      BY <3>1 DEF Tool!TokenSets, Tool!NoTokens, Tool!Tokens
    <3> QED BY <1>1, <1>2, <3>1, <3>2
       DEF Tool!Phases, Tool!Tokens, Tool!SessionAssumption
  <2>2. c \in Tool!Process
    BY <1>1, <2>1, Zenon DEF Tool!Process
  <2>3. c.creds = creds /\ c.spent = spent /\ c.phase = "open"
    BY <1>1 DEF Tool!Process
  <2>4. cli' = [cli EXCEPT ![p] = c]
    BY <1>1, <1>2 DEF SessionInv, Tool!TypeOK
  <2> HIDE DEF c
  <2>5. ServiceSteps
    BY <1>1, <1>2, NextTokens DEF ServiceSteps
  <2>6. OwnInv(c, minted')
    BY <1>1, <1>2, <2>1, <2>3, NextTokens DEF OwnInv, WillSave, Tool!Tokens
  <2>7. ProcessBecomes(p, c) /\ FileStays
    BY <1>2, <2>2, <2>4 DEF ProcessBecomes, FileStays, Tool!disk
  <2> QED BY <1>1, <1>2, <2>3, <2>5, <2>6, <2>7, NewTokensStep
<1>3. ASSUME Tool!Failed(p), UNCHANGED <<Tool!disk, Tool!service, overlapped>>
      PROVE  SessionInv'
  <2>1. ServiceSteps /\ valid \subseteq valid' \cup doomed'
    BY <1>3, Failing, ServiceStays, DoomedType
  <2> QED BY <1>3, <2>1, Failing, QuietStep DEF Tool!disk, FileStays
<1>4. CASE Tool!Refresh(p)
  <2> DEFINE old == cli[p].creds.refresh
  <2>1. cli[p].phase = "refresh" /\ UNCHANGED <<Tool!disk, overlapped>>
    BY <1>4 DEF Tool!Refresh, Tool!At
  <2>2. CASE Tool!Failed(p) /\ UNCHANGED Tool!service
    BY <1>3, <2>1, <2>2
  <2>3. CASE ~(Tool!Failed(p) /\ UNCHANGED Tool!service)
    <3>1. /\ old \in valid /\ minted < MaxMinted /\ minted' = minted + 1
          /\ valid' = IF Rotates THEN (valid \ {old}) \cup {minted'} ELSE valid
          /\ \/ /\ cli' = [cli EXCEPT ![p].creds = Tool!Renewed(p),
                                      ![p].spent = IF Rotates THEN old ELSE 0,
                                      ![p].phase = "open"]
                /\ UNCHANGED doomed
             \/ /\ Tool!End(p) \/ Tool!Return(p)
                /\ doomed' = doomed \cup IF Rotates THEN {old} ELSE {}
      BY <1>4, <2>3 DEF Tool!Refresh
    <3> HIDE DEF old
    <3>2. old \in 1..minted /\ minted' \notin 1..minted
      BY <1>1, <3>1 DEF Tool!Tokens, Tool!SessionAssumption
    <3>3. CASE /\ cli' = [cli EXCEPT ![p].creds = Tool!Renewed(p),
                                     ![p].spent = IF Rotates THEN old ELSE 0,
                                     ![p].phase = "open"]
               /\ UNCHANGED doomed
      <4> DEFINE refresh == IF Rotates THEN minted' ELSE old
      <4>1. Tool!Renewed(p) = [access |-> minted', refresh |-> refresh]
        BY <3>1 DEF Tool!Renewed, old
      <4>2. refresh \in 1..minted' /\ minted' \in 1..minted' /\ refresh \in valid'
        BY <3>1, <3>2, NextTokens
      <4> HIDE DEF refresh
      <4>3. Tool!Renewed(p) \in Handed(minted') /\ Tool!Renewed(p).refresh = refresh
        BY <4>1, <4>2 DEF Handed
      <4>4. Rotates => refresh = minted'
        BY DEF refresh
      <4> DEFINE spent == IF Rotates THEN old ELSE 0
      <4>5. /\ spent \in 0..minted /\ valid \ {spent} \subseteq valid'
            /\ valid' \subseteq valid \cup {minted'}
            /\ spent # 0 => Rotates /\ spent = cli[p].creds.refresh
        BY <1>1, <3>1, <3>2 DEF old, Tool!Tokens
      <4>6. cli' = [cli EXCEPT ![p].creds = Tool!Renewed(p), ![p].spent = spent,
                               ![p].phase = "open"]
        BY <3>3
      <4> HIDE DEF spent
      <4> QED BY <1>2, <2>1, <3>1, <3>3, <4>2, <4>3, <4>4, <4>5, <4>6
    <3>4. CASE /\ Tool!End(p) \/ Tool!Return(p)
               /\ doomed' = doomed \cup IF Rotates THEN {old} ELSE {}
      <4>1. valid \subseteq valid' \cup doomed' /\ doomed' \subseteq 1..minted
        BY <1>1, <3>1, <3>2, <3>4
      <4>2. ServiceSteps
        BY <1>1, <3>1, <3>2, <3>4, <4>1, NextTokens DEF ServiceSteps
      <4>3. \E c \in Tool!Process : QuietChange(p, c)
        BY <3>4, Ending, Returning
      <4> QED BY <1>1, <2>1, <4>1, <4>2, <4>3, QuietStep DEF Tool!disk, FileStays
    <3> QED BY <3>1, <3>3, <3>4
  <2> QED BY <2>2, <2>3
<1>5. CASE Tool!Exchange(p)
  <2>1. UNCHANGED <<Tool!disk, doomed, overlapped>>
    BY <1>5 DEF Tool!Exchange
  <2>2. CASE Tool!End(p) /\ UNCHANGED Tool!service
    <3>1. ServiceSteps /\ valid \subseteq valid' \cup doomed'
      BY <2>1, <2>2, ServiceStays, DoomedType
    <3> QED BY <1>1, <2>1, <2>2, <3>1, Ending, QuietStep DEF Tool!disk, FileStays
  <2>3. CASE ~(Tool!End(p) /\ UNCHANGED Tool!service)
    <3> DEFINE creds == [access |-> minted', refresh |-> minted']
    <3>1. /\ minted < MaxMinted /\ minted' = minted + 1
          /\ valid' = valid \cup {minted'}
          /\ cli' = [cli EXCEPT ![p].creds = creds, ![p].phase = "open"]
      BY <1>5, <2>3 DEF Tool!Exchange, Tool!Mint
    <3>2. creds \in Handed(minted') /\ creds.refresh = minted'
      BY <3>1, NextTokens DEF Handed
    <3>3. cli' = [cli EXCEPT ![p].creds = creds, ![p].spent = cli[p].spent,
                             ![p].phase = "open"]
      <4>1. [cli[p] EXCEPT !.creds = creds, !.phase = "open"]
              = [cli[p] EXCEPT !.creds = creds, !.spent = cli[p].spent, !.phase = "open"]
        BY <1>1 DEF Tool!Process
      <4> QED BY <3>1, <4>1 DEF SessionInv, Tool!TypeOK
    <3> HIDE DEF creds
    <3>4. cli[p].spent \in 0..minted /\ minted' \in valid'
      BY <1>1, <3>1 DEF Tool!Tokens
    <3> QED BY <1>1, <1>2, <2>1, <3>1, <3>2, <3>3, <3>4
  <2> QED BY <2>2, <2>3
<1>6. CASE Tool!Revoke(p)
  <2>1. /\ UNCHANGED <<Tool!disk, minted, overlapped>> /\ cli[p].phase = "revoke"
        /\ cli[p].apiKey => Tool!Return(p) /\ UNCHANGED <<valid, doomed>>
        /\ ~cli[p].apiKey => Tool!Goto(p, "remove")
        /\ \/ UNCHANGED <<valid, doomed>>
           \/ /\ ~cli[p].apiKey /\ valid' = valid \ {cli[p].creds.refresh}
              /\ doomed' = doomed \cup {cli[p].creds.refresh}
    BY <1>6 DEF Tool!Revoke, Tool!At
  <2>2. Tool!HasCredentials(p) /\ cli[p].creds \in Handed(minted) \cup {Tool!NoTokens}
    BY <2>1 DEF SessionInv, OwnInv, Tool!HasCredentials
  <2>3. ~cli[p].apiKey => cli[p].creds.refresh \in 1..minted
    BY <2>2 DEF Tool!HasCredentials, Handed
  <2>4. ServiceSteps /\ valid \subseteq valid' \cup doomed'
    BY <1>1, <2>1, <2>3, OwnRecord DEF ServiceSteps
  <2>5. \E c \in Tool!Process : QuietChange(p, c)
    BY <2>1, <2>2, Going, Returning DEF WillSave
  <2> QED BY <1>1, <2>1, <2>4, <2>5, QuietStep DEF Tool!disk, FileStays
<1> QED BY <1>4, <1>5, <1>6

\* A step of a save: p goes from one of its phases to another.
SaveSteps(p, c) ==
  /\ cli' = [cli EXCEPT ![p] = c] /\ c \in Tool!Process
  /\ c.creds = cli[p].creds /\ c.spent \in {cli[p].spent, 0}
  /\ UNCHANGED <<Tool!service, doomed>>

LEMMA SavesFacts ==
  ASSUME Tool!SessionAssumption, SessionInv, NEW p \in Procs, NEW c, SaveSteps(p, c),
         cli[p].phase \in WillSave, c.phase \in WillSave \cup {"query"},
         c.spent # 0 => c.phase \in WillSave,
         {file', tmp'} \subseteq Tool!Inodes \cup {Tool!NoInode}, overlapped' \in BOOLEAN,
         data' \in [Tool!Inodes -> Handed(minted) \cup {Tool!NoTokens}],
         tmp' # Tool!NoInode => tmp' # file'
  PROVE  /\ Tool!TypeOK' /\ DiskInv' /\ \A q \in Procs : OwnInv(cli[q], minted)'
         /\ cli'[p] = c /\ \A q \in Procs \ {p} : cli'[q] = cli[q]
         /\ c.creds = cli[p].creds /\ c.creds \in Handed(minted)
         /\ UNCHANGED <<minted, valid, doomed>>
<1>1. cli'[p] = c /\ \A q \in Procs \ {p} : cli'[q] = cli[q]
  BY DEF SessionInv, Tool!TypeOK, SaveSteps
<1>2. UNCHANGED <<minted, valid, doomed>>
  BY DEF SaveSteps, Tool!service
<1>3. Handed(minted) \subseteq Tool!TokenSets
  BY OwnRecord, HandedGrows DEF SessionInv, Tool!TypeOK
<1>4. Tool!TypeOK'
  BY <1>1, <1>2, <1>3 DEF SessionInv, Tool!TypeOK, SaveSteps
<1>5. DiskInv'
  BY <1>2 DEF DiskInv
<1>6. OwnInv(cli[p], minted) /\ cli[p].creds # Tool!NoTokens
  BY DEF SessionInv, OwnInv
<1>7. OwnInv(c, minted)
  BY <1>6, OwnRecord DEF OwnInv, SaveSteps, WillSave
<1>8. \A q \in Procs : OwnInv(cli'[q], minted')
  BY <1>1, <1>2, <1>7 DEF SessionInv
<1> QED BY <1>1, <1>2, <1>4, <1>5, <1>6, <1>8 DEF OwnInv, SaveSteps

\* The new tokens of the others are still only theirs.
LEMMA NewStays ==
  ASSUME SessionInv, ~overlapped, NEW p \in Procs, NEW c, NEW q \in Procs,
         UNCHANGED <<valid, doomed>>, c.creds = cli[p].creds,
         cli'[p] = c, \A r \in Procs \ {p} : cli'[r] = cli[r],
         cli'[q].phase \in WillSave, cli[p].phase \in WillSave,
         file' # Tool!NoInode =>
           file # Tool!NoInode /\ data'[file'].refresh = data[file].refresh
  PROVE  NewInv(q)'
<1>1. NewInv(q) /\ cli[q].phase \in WillSave
  <2>1. cli[q].phase \in WillSave
    OBVIOUS
  <2> QED BY <2>1 DEF SessionInv
<1>2. cli'[q].creds = cli[q].creds /\ \A r \in Procs : cli'[r].creds = cli[r].creds
  OBVIOUS
<1> QED BY <1>1, <1>2 DEF NewInv

LEMMA OpenStep ==
  ASSUME Tool!SessionAssumption, SessionInv, NEW p \in Procs, Tool!Open(p)
  PROVE  SessionInv'
<1> DEFINE i == IF tmp = Tool!NoInode THEN Tool!FreeInode ELSE tmp
<1> DEFINE c == [cli[p] EXCEPT !.phase = "fill", !.inode = i]
<1>1. /\ cli[p].phase = "open" /\ tmp' = i /\ data' = [data EXCEPT ![i] = Tool!NoTokens]
      /\ cli' = [cli EXCEPT ![p].phase = "fill", ![p].inode = i]
      /\ overlapped' = (overlapped \/ \E q \in Procs \ {p} : Tool!Saving(q))
      /\ UNCHANGED <<file, Tool!service, doomed>>
  BY DEF Tool!Open, Tool!At
<1>2. i \in Tool!Inodes /\ i # file /\ i # Tool!NoInode
  <2>1. CASE tmp = Tool!NoInode
    <3>1. Tool!FreeInode \in Tool!Inodes \ Tool!InUse
      BY <2>1, FreeInodes DEF SessionInv
    <3> QED BY <2>1, <3>1 DEF Tool!InUse
  <2>2. CASE tmp # Tool!NoInode
    BY <2>2 DEF SessionInv, Tool!TypeOK, DiskInv
  <2>3. Tool!NoInode \notin Tool!Inodes
    BY DEF Tool!NoInode, Tool!Inodes
  <2> QED BY <2>1, <2>2, <2>3
<1> HIDE DEF i
<1>3. cli[p] \in Tool!Process /\ "fill" \in Tool!Phases /\ i \in Tool!Inodes \cup {Tool!NoInode}
  BY <1>2, OwnRecord DEF Tool!Phases
<1>4. c \in Tool!Process
  BY <1>3, Zenon DEF Tool!Process
<1>5. /\ c.phase = "fill" /\ c.inode = i /\ c.creds = cli[p].creds
      /\ c.spent = cli[p].spent
  BY <1>3 DEF Tool!Process
<1>6. cli' = [cli EXCEPT ![p] = c]
  BY <1>1, <1>3 DEF SessionInv, Tool!TypeOK
<1> HIDE DEF c
<1>7. SaveSteps(p, c) /\ cli[p].phase \in WillSave /\ c.phase \in WillSave
  BY <1>1, <1>4, <1>5, <1>6 DEF SaveSteps, WillSave
<1>8. /\ data' \in [Tool!Inodes -> Handed(minted) \cup {Tool!NoTokens}]
      /\ data \in [Tool!Inodes -> Handed(minted) \cup {Tool!NoTokens}]
  BY <1>1, <1>2 DEF SessionInv, Tool!TypeOK, DiskInv
<1>9. {file', tmp'} \subseteq Tool!Inodes \cup {Tool!NoInode} /\ overlapped' \in BOOLEAN
  BY <1>1, <1>2 DEF SessionInv, Tool!TypeOK
<1>10. /\ Tool!TypeOK' /\ DiskInv' /\ \A q \in Procs : OwnInv(cli[q], minted)'
       /\ cli'[p] = c /\ \A q \in Procs \ {p} : cli'[q] = cli[q]
       /\ UNCHANGED <<minted, valid, doomed>>
  BY <1>1, <1>2, <1>7, <1>8, <1>9, SavesFacts
<1>11. ASSUME ~overlapped'
       PROVE  FileInv' /\ \A q \in Procs : SavingInv(q)' /\ NewInv(q)'
  <2>1. ~overlapped /\ \A q \in Procs \ {p} : ~Tool!Saving(q)
    BY <1>1, <1>11
  <2>2. FileInv /\ \A q \in Procs : SavingInv(q) /\ NewInv(q)
    BY <2>1 DEF SessionInv
  <2>3. file # Tool!NoInode => data'[file] = data[file] /\ file' = file
    BY <1>1, <1>2, <1>8
  <2>4. FileInv'
    <3>1. \A q \in Procs : Tool!Spent(q)' = Tool!Spent(q)
      BY <1>5, <1>10 DEF Tool!Spent
    <3> QED BY <1>1, <1>10, <2>2, <2>3, <3>1 DEF FileInv
  <2>5. ASSUME NEW q \in Procs PROVE SavingInv(q)'
    <3>1. \A r \in Procs \ {p} : ~Tool!Saving(r)'
      BY <1>10, <2>1 DEF Tool!Saving
    <3> QED BY <1>1, <1>2, <1>5, <1>10, <3>1
       DEF SavingInv, Tool!Saving, Tool!At
  <2>6. ASSUME NEW q \in Procs, cli'[q].phase \in WillSave PROVE NewInv(q)'
    <3>1. file' # Tool!NoInode => file # Tool!NoInode
          /\ data'[file'].refresh = data[file].refresh
      BY <1>1, <2>3
    <3> QED BY <1>5, <1>7, <1>10, <2>1, <2>6, <3>1, NewStays
  <2>7. \A q \in Procs : NewInv(q)'
    BY <2>6 DEF NewInv
  <2> QED BY <2>4, <2>5, <2>7
<1> QED BY <1>10, <1>11 DEF SessionInv

LEMMA FillStep ==
  ASSUME Tool!SessionAssumption, SessionInv, NEW p \in Procs, Tool!Fill(p)
  PROVE  SessionInv'
<1> DEFINE c == [cli[p] EXCEPT !.phase = "rename", !.inode = Tool!NoInode]
<1>1. /\ cli[p].phase = "fill" /\ data' = [data EXCEPT ![cli[p].inode] = cli[p].creds]
      /\ cli' = [cli EXCEPT ![p].phase = "rename", ![p].inode = Tool!NoInode]
      /\ UNCHANGED <<file, tmp, Tool!service, doomed, overlapped>>
  BY DEF Tool!Fill, Tool!At
<1>2. cli[p] \in Tool!Process /\ "rename" \in Tool!Phases
      /\ Tool!NoInode \in Tool!Inodes \cup {Tool!NoInode}
  BY OwnRecord DEF Tool!Phases
<1>3. c \in Tool!Process
  BY <1>2, Zenon DEF Tool!Process
<1>4. c.phase = "rename" /\ c.creds = cli[p].creds /\ c.spent = cli[p].spent
  BY <1>2 DEF Tool!Process
<1>5. cli' = [cli EXCEPT ![p] = c]
  BY <1>1, <1>2 DEF SessionInv, Tool!TypeOK
<1> HIDE DEF c
<1>6. SaveSteps(p, c) /\ cli[p].phase \in WillSave /\ c.phase \in WillSave
  BY <1>1, <1>3, <1>4, <1>5 DEF SaveSteps, WillSave
<1>7. cli[p].creds \in Handed(minted)
  BY <1>6 DEF SessionInv, OwnInv
<1>8. /\ data \in [Tool!Inodes -> Handed(minted) \cup {Tool!NoTokens}]
      /\ data' \in [Tool!Inodes -> Handed(minted) \cup {Tool!NoTokens}]
  BY <1>1, <1>7 DEF SessionInv, Tool!TypeOK, DiskInv
<1>9. /\ {file', tmp'} \subseteq Tool!Inodes \cup {Tool!NoInode} /\ overlapped' \in BOOLEAN
      /\ tmp' # Tool!NoInode => tmp' # file'
  BY <1>1 DEF SessionInv, Tool!TypeOK, DiskInv
<1>10. /\ Tool!TypeOK' /\ DiskInv' /\ \A q \in Procs : OwnInv(cli[q], minted)'
       /\ cli'[p] = c /\ \A q \in Procs \ {p} : cli'[q] = cli[q]
       /\ UNCHANGED <<minted, valid, doomed>>
  BY <1>6, <1>8, <1>9, SavesFacts
<1>11. ASSUME ~overlapped
       PROVE  FileInv' /\ \A q \in Procs : SavingInv(q)' /\ NewInv(q)'
  <2>1. FileInv /\ \A q \in Procs : SavingInv(q) /\ NewInv(q)
    BY <1>11 DEF SessionInv
  <2>2. /\ cli[p].inode = tmp /\ tmp # Tool!NoInode /\ tmp # file /\ tmp \in Tool!Inodes
        /\ \A q \in Procs \ {p} : ~Tool!Saving(q)
    BY <1>1, <2>1
       DEF SavingInv, Tool!At, Tool!Saving, SessionInv, DiskInv, Tool!TypeOK
  <2>3. /\ file # Tool!NoInode => data'[file] = data[file] /\ file' = file
        /\ data'[tmp] = cli[p].creds
    BY <1>1, <1>8, <2>2
  <2>4. FileInv'
    <3>1. \A q \in Procs : Tool!Spent(q)' = Tool!Spent(q)
      BY <1>4, <1>10 DEF Tool!Spent
    <3> QED BY <1>1, <1>10, <2>1, <2>3, <3>1 DEF FileInv
  <2>5. ASSUME NEW q \in Procs PROVE SavingInv(q)'
    <3>1. \A r \in Procs \ {p} : ~Tool!Saving(r)'
      BY <1>10, <2>2 DEF Tool!Saving
    <3> QED BY <1>1, <1>4, <1>10, <2>2, <2>3, <3>1
       DEF SavingInv, Tool!Saving, Tool!At
  <2>6. ASSUME NEW q \in Procs, cli'[q].phase \in WillSave PROVE NewInv(q)'
    <3>1. file' # Tool!NoInode => file # Tool!NoInode
          /\ data'[file'].refresh = data[file].refresh
      BY <1>1, <2>3
    <3> QED BY <1>4, <1>6, <1>10, <1>11, <2>6, <3>1, NewStays
  <2>7. \A q \in Procs : NewInv(q)'
    BY <2>6 DEF NewInv
  <2> QED BY <2>4, <2>5, <2>7
<1> QED BY <1>1, <1>10, <1>11 DEF SessionInv

LEMMA RenameStep ==
  ASSUME Tool!SessionAssumption, SessionInv, NEW p \in Procs, Tool!Rename(p)
  PROVE  SessionInv'
<1>1. /\ cli[p].phase = "rename" /\ UNCHANGED <<Tool!service, overlapped>>
      /\ \/ Tool!Failed(p) /\ UNCHANGED Tool!disk
         \/ /\ tmp # Tool!NoInode /\ file' = tmp /\ tmp' = Tool!NoInode
            /\ Tool!Unlink /\ UNCHANGED doomed
            /\ \/ Tool!End(p)
               \/ cli' = [cli EXCEPT ![p].spent = 0, ![p].phase = "query"]
  BY DEF Tool!Rename, Tool!At
<1>2. CASE Tool!Failed(p) /\ UNCHANGED Tool!disk
  <2>1. ServiceSteps /\ valid \subseteq valid' \cup doomed'
    BY <1>1, <1>2, Failing, ServiceStays, DoomedType
  <2> QED BY <1>1, <1>2, <2>1, Failing, QuietStep DEF Tool!disk, FileStays
<1>3. CASE ~(Tool!Failed(p) /\ UNCHANGED Tool!disk)
  <2>1. /\ tmp # Tool!NoInode /\ file' = tmp /\ tmp' = Tool!NoInode
        /\ UNCHANGED <<doomed, Tool!service, overlapped>>
        /\ data' \in [Tool!Inodes -> Tool!TokenSets \cup {Tool!NoTokens}]
        /\ \A i \in Tool!Inodes : data'[i] \in {data[i], Tool!NoTokens}
        /\ data'[tmp] = data[tmp]
    BY <1>1, <1>3, UnlinkSteps
  <2>2. cli[p] \in Tool!Process
    BY OwnRecord
  <2>3. PICK c \in Tool!Process :
          /\ cli' = [cli EXCEPT ![p] = c] /\ c.phase \notin WillSave /\ c.spent = 0
          /\ c.creds \in {cli[p].creds, Tool!NoTokens} /\ OwnInv(c, minted)
    <3>1. CASE Tool!End(p)
      <4> DEFINE c == Tool!Empty("none", FALSE, "exit")
      <4>1. c \in Tool!Process
        BY Zenon DEF Tool!Empty, Tool!Process, Tool!Phases
      <4>2. c.phase = "exit" /\ c.creds = Tool!NoTokens /\ c.spent = 0
        BY DEF Tool!Empty
      <4>3. cli' = [cli EXCEPT ![p] = c]
        BY <3>1 DEF Tool!End
      <4> HIDE DEF c
      <4>4. OwnInv(c, minted)
        BY <4>2, OwnRecord DEF OwnInv, WillSave, Tool!Tokens
      <4> QED BY <4>1, <4>2, <4>3, <4>4 DEF WillSave
    <3>2. CASE cli' = [cli EXCEPT ![p].spent = 0, ![p].phase = "query"]
      <4> DEFINE c == [cli[p] EXCEPT !.spent = 0, !.phase = "query"]
      <4>1. c \in Tool!Process
        BY <2>2, Zenon DEF Tool!Process, Tool!Phases
      <4>2. c.phase = "query" /\ c.creds = cli[p].creds /\ c.spent = 0
        BY <2>2 DEF Tool!Process
      <4>3. cli' = [cli EXCEPT ![p] = c]
        BY <2>2, <3>2 DEF SessionInv, Tool!TypeOK
      <4> HIDE DEF c
      <4>4. OwnInv(c, minted)
        BY <1>1, <4>2, OwnRecord DEF OwnInv, WillSave, Tool!Tokens, SessionInv
      <4> QED BY <4>1, <4>2, <4>3, <4>4 DEF WillSave
    <3> QED BY <1>1, <1>3, <3>1, <3>2
  <2>4. cli'[p] = c /\ \A q \in Procs \ {p} : cli'[q] = cli[q]
    BY <2>3 DEF SessionInv, Tool!TypeOK
  <2>5. UNCHANGED <<minted, valid>>
    BY <2>1 DEF Tool!service
  <2>6. Tool!TypeOK' /\ DiskInv' /\ \A q \in Procs : OwnInv(cli'[q], minted')
    BY <2>1, <2>3, <2>4, <2>5 DEF SessionInv, Tool!TypeOK, DiskInv
  <2>7. ASSUME ~overlapped
        PROVE  FileInv' /\ \A q \in Procs : SavingInv(q)' /\ NewInv(q)'
    <3>1. \A q \in Procs : SavingInv(q) /\ NewInv(q)
      BY <2>7 DEF SessionInv
    <3>2. /\ data[tmp] = cli[p].creds /\ \A q \in Procs \ {p} : ~Tool!Saving(q)
          /\ cli[p].creds.refresh \in valid \cup doomed
      BY <1>1, <3>1 DEF SavingInv, NewInv, Tool!At, Tool!Saving, WillSave
    <3>3. cli[p].creds # Tool!NoTokens /\ cli[p].creds \in Handed(minted)
      BY <1>1 DEF SessionInv, OwnInv, WillSave
    <3>4. FileInv'
      BY <2>1, <2>5, <3>2, <3>3 DEF FileInv
    <3>5. \A q \in Procs : ~Tool!Saving(q)'
      BY <2>3, <2>4, <3>2 DEF Tool!Saving, WillSave
    <3>6. \A q \in Procs : SavingInv(q)'
      BY <3>5 DEF SavingInv, Tool!Saving, Tool!At
    <3>7. ASSUME NEW q \in Procs, cli'[q].phase \in WillSave PROVE NewInv(q)'
      <4>1. q # p /\ cli'[q] = cli[q]
        BY <2>3, <2>4, <3>7
      <4>2. /\ cli[q].creds.refresh \in valid \cup doomed
            /\ Rotates => \A r \in Procs \ {q} :
                            cli[r].creds.refresh # cli[q].creds.refresh
        BY <3>1, <3>7, <4>1 DEF NewInv
      <4>3. cli[q].creds.refresh # 0
        BY <4>2 DEF SessionInv, Tool!TypeOK
      <4>4. Rotates => \A r \in Procs \ {q} :
                         cli'[r].creds.refresh # cli[q].creds.refresh
        BY <2>3, <2>4, <4>1, <4>2, <4>3 DEF Tool!NoTokens
      <4> QED BY <2>1, <2>5, <3>2, <4>1, <4>2, <4>4 DEF NewInv
    <3>8. \A q \in Procs : NewInv(q)'
      BY <3>7 DEF NewInv
    <3> QED BY <3>4, <3>6, <3>8
  <2> QED BY <2>1, <2>6, <2>7 DEF SessionInv
<1> QED BY <1>2, <1>3

LEMMA SessionStep ==
  ASSUME Tool!SessionAssumption, SessionInv, [Tool!Next]_(Tool!vars)
  PROVE  SessionInv'
<1>1. CASE UNCHANGED Tool!vars
  BY <1>1
     DEF Tool!vars, Tool!disk, Tool!service, SessionInv, Tool!TypeOK, DiskInv,
         FileInv, SavingInv, NewInv, Tool!Saving, Tool!At, Tool!Spent
<1> QED BY <1>1, LocalStep, TokensStep, OpenStep, FillStep, RenameStep
   DEF Tool!Next

LEMMA SessionStarts ==
  ASSUME Tool!SessionAssumption, Tool!Init PROVE SessionInv
<1>1. Cardinality(Procs) \in Nat
  BY FS_CardinalityType, ProcsFinite
<1>2. 1 \in Tool!Inodes /\ 1 \in Tool!Tokens /\ 1 # Tool!NoInode
  BY <1>1, ProcsFinite DEF Tool!Tokens, Tool!NoInode, Tool!SessionAssumption
<1>3. [access |-> 1, refresh |-> 1] \in Handed(1) /\ Handed(1) \subseteq Tool!TokenSets
  BY <1>2, HandedGrows DEF Handed
<1>4. /\ Tool!Idle \in Tool!Process /\ Tool!Idle.phase = "idle" /\ Tool!Idle.spent = 0
      /\ Tool!Idle.creds = Tool!NoTokens /\ Tool!Idle.inode = Tool!NoInode
  <2>1. Tool!Idle \in Tool!Process
    BY Zenon DEF Tool!Idle, Tool!Empty, Tool!Process, Tool!Phases
  <2> QED BY <2>1 DEF Tool!Idle, Tool!Empty
<1>5. Tool!TypeOK /\ DiskInv
  <2>1. cli \in [Procs -> Tool!Process]
    BY <1>4 DEF Tool!Init
  <2>2. data \in [Tool!Inodes -> Handed(1) \cup {Tool!NoTokens}]
    BY <1>3 DEF Tool!Init
  <2>3. minted = 1 /\ 1..1 = {1}
    BY DEF Tool!Init
  <2>4. {file, tmp} \subseteq Tool!Inodes \cup {Tool!NoInode}
    BY <1>2 DEF Tool!Init
  <2>5. /\ valid \subseteq 1..minted
        /\ doomed \subseteq 1..minted /\ overlapped \in BOOLEAN /\ tmp = Tool!NoInode
    BY <2>3 DEF Tool!Init
  <2> QED BY <1>2, <1>3, <2>1, <2>2, <2>3, <2>4, <2>5 DEF Tool!TypeOK, DiskInv
<1>6. \A p \in Procs : OwnInv(cli[p], minted)
  BY <1>4 DEF Tool!Init, OwnInv, WillSave
<1>7. FileInv
  BY <1>2 DEF Tool!Init, FileInv, Tool!NoTokens
<1>8. \A p \in Procs : SavingInv(p) /\ NewInv(p)
  BY <1>4 DEF Tool!Init, SavingInv, NewInv, Tool!Saving, Tool!At, WillSave
<1> QED BY <1>5, <1>6, <1>7, <1>8 DEF SessionInv

LEMMA SessionShows == ASSUME SessionInv PROVE Tool!SessionKept
  BY DEF SessionInv, FileInv, Tool!SessionKept

SessionToolInv == On("session") => SessionInv

LEMMA SessionSteps ==
  ASSUME On("session"), [Next]_vars PROVE [Tool!Next]_(Tool!vars)
  BY DEF On, Next, vars, sessionVars, Tool!vars, Tool!disk, Tool!service

LEMMA SessionInvariant == Spec => []SessionToolInv
<1>1. Tool!SessionAssumption
  BY RecordCommandsAssumption DEF RecordCommandsAssumption
<1>2. Init => SessionToolInv
  BY <1>1, SessionStarts DEF Init, SessionToolInv
<1>3. SessionToolInv /\ [Next]_vars => SessionToolInv'
  BY <1>1, ConfigStays, SessionSteps, SessionStep DEF SessionToolInv, On
<1> QED BY <1>2, <1>3, PTL DEF Spec

\* Whatever the number of processes: as long as no two of them save at once,
\* none of them logs the user out, or leaves half a credentials file.
THEOREM SessionsAreKept == Spec => []SessionKept
<1>1. SessionToolInv => SessionKept
  BY SessionShows DEF SessionToolInv, SessionKept
<1> QED BY <1>1, SessionInvariant, PTL
-----------------------------------------------------------------------------
(* Initialising a project *)

MadeSteps == {"secrets", "code", "contracts", "module", "workflowSettings", "ok"}
RootSteps == MadeSteps \cup {"pick", "settings", "env", "ignore", "makeWorkflow"}
HasSettings ==
  \/ cmd.at \in MadeSteps \cup {"checkEnv", "checkIgnore", "env", "ignore", "makeWorkflow"}
  \/ cmd.at = "pick" /\ cmd.found
  \/ cmd.at = "find" /\ cmd.inside
HasEnv ==
  \/ cmd.at \in MadeSteps \cup {"checkIgnore", "ignore", "makeWorkflow"}
  \/ cmd.at = "pick" /\ cmd.found

InitRunInv ==
  /\ cmd.at \in InitCmd!Steps \cup {"ok"} => cmd.wf \in Workflows
  /\ cmd.at = "makeRoot" => ~cmd.found
InitDirsInv ==
  /\ cmd.at \in RootSteps \/ (\E f \in InitCmd!Files : InitCmd!Present(f)) => "root" \in dirs
  /\ \A w \in Workflows \ dirs : \A f \in InitCmd!WorkflowFiles(w) : ~InitCmd!Present(f)
  /\ cmd.at \in MadeSteps => cmd.wf \in dirs
InitFilesInv ==
  /\ HasSettings => InitCmd!Present(InitCmd!Root("project.yaml"))
  /\ HasEnv => InitCmd!Present(InitCmd!Root(".env"))
  /\ cmd.at \in {"workflowSettings", "ok"} /\ cmd.template.lang = "Golang"
       => InitCmd!Present(InitCmd!Root("go.mod"))
  /\ cmd.at \in {"contracts", "module", "workflowSettings", "ok"}
       => InitCmd!Present(<<cmd.wf, "code">>)
  /\ cmd.at = "ok" => InitCmd!Present(<<cmd.wf, "workflow.yaml">>)
InitEditsInv ==
  cmd.at \in MadeSteps \ {"ok"} =>
    \A f \in InitCmd!WorkflowFiles(cmd.wf) : files[f] = "edited" => f \in cmd.agreed
ProjectInv == InitCmd!TypeOK /\ InitRunInv /\ InitDirsInv /\ InitFilesInv /\ InitEditsInv

FileMarks == {"absent", "generated", "edited"}

LEMMA InitFileNames ==
  ASSUME InitCmd!InitProjectAssumption
  PROVE  /\ InitCmd!Root("project.yaml") \in InitCmd!Files
              /\ InitCmd!Root(".env") \in InitCmd!Files
         /\ InitCmd!Root("go.mod") \in InitCmd!Files
              /\ InitCmd!Root("secrets.yaml") \in InitCmd!Files
         /\ InitCmd!Root(".gitignore") \in InitCmd!Files
              /\ InitCmd!Root("contracts") \in InitCmd!Files
         /\ \A w \in Workflows :
              /\ InitCmd!WorkflowFiles(w) \subseteq InitCmd!Files
              /\ <<w, "code">> \in InitCmd!WorkflowFiles(w)
              /\ <<w, "workflow.yaml">> \in InitCmd!WorkflowFiles(w)
              /\ \A x : InitCmd!Root(x) \notin InitCmd!WorkflowFiles(w)
              /\ \A v \in Workflows :
                   \A f \in InitCmd!WorkflowFiles(w) \cap InitCmd!WorkflowFiles(v) : v = w
  BY
     DEF InitCmd!InitProjectAssumption, InitCmd!Root, InitCmd!Files,
         InitCmd!ProjectFiles, InitCmd!WorkflowFiles

LEMMA InitWriteSteps ==
  ASSUME files \in [InitCmd!Files -> FileMarks], NEW fs, InitCmd!Write(fs)
  PROVE  /\ files' \in [InitCmd!Files -> FileMarks]
         /\ \A f \in InitCmd!Files : files'[f] = IF f \in fs THEN "generated" ELSE files[f]
  BY DEF InitCmd!Write, FileMarks

LEMMA InitGotoSteps ==
  ASSUME cmd \in InitCmd!Command, NEW step \in InitCmd!Outcomes \cup InitCmd!Steps,
         InitCmd!Goto(step)
  PROVE  /\ cmd' \in InitCmd!Command /\ cmd'.at = step /\ UNCHANGED runs
         /\ cmd'.inside = cmd.inside /\ cmd'.found = cmd.found
         /\ cmd'.template = cmd.template /\ cmd'.wf = cmd.wf
         /\ cmd'.agreed = cmd.agreed
<1>1. [cmd EXCEPT !.at = step] \in InitCmd!Command
  BY Zenon DEF InitCmd!Command
<1> QED BY <1>1 DEF InitCmd!Goto, InitCmd!Command

\* The command goes on to the step `at`, and has written the files fs.
InitMoved(fs, step) ==
  /\ cmd' \in InitCmd!Command /\ cmd'.at = step /\ cmd'.found = cmd.found
  /\ cmd'.inside = cmd.inside /\ cmd'.wf = cmd.wf
  /\ cmd'.template = cmd.template /\ cmd.agreed \subseteq cmd'.agreed
  /\ files' \in [InitCmd!Files -> FileMarks]
  /\ \A f \in InitCmd!Files : files'[f] = IF f \in fs THEN "generated" ELSE files[f]
  /\ UNCHANGED <<dirs, runs>>

LEMMA InitMoves ==
  ASSUME InitCmd!TypeOK, NEW fs, NEW step \in InitCmd!Outcomes \cup InitCmd!Steps,
         InitCmd!Goto(step), InitCmd!Write(fs) \/ (UNCHANGED files /\ fs = {}), UNCHANGED dirs
  PROVE  InitMoved(fs, step)
<1>1. files \in [InitCmd!Files -> FileMarks] /\ cmd \in InitCmd!Command
  BY DEF InitCmd!TypeOK, FileMarks
<1> QED BY <1>1, InitGotoSteps, InitWriteSteps DEF InitMoved

\* It loses no edit that the run may not lose, if it writes none.
LEMMA InitKeeps ==
  ASSUME NEW fs, NEW step, InitMoved(fs, step),
         \A f \in fs : files[f] = "edited" =>
           f \in cmd'.agreed \cup InitCmd!RewrittenBy(cmd.template)
  PROVE  InitCmd!KeptUnlessAgreed
<1>1. ASSUME NEW f \in InitCmd!Files, files[f] = "edited", files'[f] # "edited"
      PROVE  f \in cmd'.agreed \cup InitCmd!RewrittenBy(cmd.template)
  BY <1>1 DEF InitMoved
<1> QED BY <1>1 DEF InitCmd!KeptUnlessAgreed

\* A step that writes some files and takes nothing away.
LEMMA InitWritingStep ==
  ASSUME InitCmd!InitProjectAssumption, ProjectInv, cmd.at \in InitCmd!Steps,
         NEW fs \in SUBSET InitCmd!Files,
           NEW step \in (InitCmd!Steps \cup {"ok"}) \ {"makeRoot"},
         InitMoved(fs, step),
         step \in RootSteps \/ fs # {} => cmd.at \in RootSteps \cup {"checkEnv", "checkIgnore"},
         step \in MadeSteps => cmd.at \in MadeSteps,
         \A f \in fs : (\E w \in Workflows : f \in InitCmd!WorkflowFiles(w))
                         => f \in InitCmd!WorkflowFiles(cmd.wf) /\ cmd.at \in MadeSteps
  PROVE  InitCmd!TypeOK' /\ InitRunInv' /\ InitDirsInv' /\ InitEditsInv'
<1>1. /\ cmd.at \in InitCmd!Steps \cup {"ok"} /\ cmd.wf \in Workflows
           /\ files \in [InitCmd!Files -> FileMarks]
      /\ InitCmd!WorkflowFiles(cmd.wf) \subseteq InitCmd!Files
  BY InitFileNames DEF ProjectInv, InitRunInv, InitCmd!TypeOK, FileMarks
<1>2. "root" \in dirs \/ (step \notin RootSteps /\ fs = {})
  <2>1. cmd.at \in {"checkEnv", "checkIgnore"} => InitCmd!Present(InitCmd!Root("project.yaml"))
    BY DEF ProjectInv, InitFilesInv, HasSettings
  <2> QED BY <2>1, InitFileNames DEF ProjectInv, InitDirsInv
<1>3. InitDirsInv'
  <2>1. cmd'.at \in RootSteps \/ (\E f \in InitCmd!Files : InitCmd!Present(f)')
        => "root" \in dirs
    BY <1>1, <1>2 DEF ProjectInv, InitDirsInv, InitCmd!Present, InitMoved
  <2>2. \A w \in Workflows \ dirs : \A f \in InitCmd!WorkflowFiles(w) : ~InitCmd!Present(f)'
    BY <1>1, InitFileNames
       DEF ProjectInv, InitDirsInv, InitCmd!Present, InitMoved
  <2>3. cmd'.at \in MadeSteps => cmd'.wf \in dirs
    BY DEF ProjectInv, InitDirsInv, InitMoved
  <2> QED BY <2>1, <2>2, <2>3 DEF InitDirsInv, InitMoved
<1>4. InitEditsInv'
  <2>1. cmd.at # "ok"
    BY DEF InitCmd!Steps
  <2>2. SUFFICES ASSUME step \in MadeSteps
                 PROVE  \A f \in InitCmd!WorkflowFiles(cmd.wf) :
                          files'[f] = "edited" => f \in cmd'.agreed
    BY DEF InitEditsInv, InitMoved
  <2>3. cmd.at \in MadeSteps \ {"ok"}
    BY <2>1, <2>2
  <2> QED BY <1>1, <2>3 DEF ProjectInv, InitEditsInv, InitMoved
<1>5. InitCmd!TypeOK' /\ InitRunInv'
  BY <1>1 DEF ProjectInv, InitCmd!TypeOK, InitRunInv, FileMarks, InitMoved
<1> QED BY <1>3, <1>4, <1>5

\* ... writing at most one file of the project, ...
LEMMA InitProjectFileStep ==
  ASSUME InitCmd!InitProjectAssumption, ProjectInv, NEW x, InitCmd!Root(x) \in InitCmd!Files,
         NEW fs \in SUBSET {InitCmd!Root(x)}, NEW step, InitMoved(fs, step),
         <<cmd.at, step>> \in
           {<<"checkEnv", "pick">>, <<"checkEnv", "checkIgnore">>,
            <<"checkIgnore", "pick">>, <<"settings", "env">>,
            <<"env", "ignore">>, <<"ignore", "makeWorkflow">>,
            <<"secrets", "code">>, <<"contracts", "module">>,
            <<"module", "workflowSettings">>}
  PROVE  InitCmd!TypeOK' /\ InitRunInv' /\ InitDirsInv' /\ InitEditsInv'
<1>1. /\ cmd.at \in InitCmd!Steps /\ step \in (InitCmd!Steps \cup {"ok"}) \ {"makeRoot"}
      /\ cmd.at \in RootSteps \cup {"checkEnv", "checkIgnore"}
      /\ step \in MadeSteps => cmd.at \in MadeSteps
  BY DEF InitCmd!Steps, RootSteps, MadeSteps
<1>2. fs \in SUBSET InitCmd!Files /\ \A f \in fs : f = InitCmd!Root(x)
  OBVIOUS
<1>3. \A w \in Workflows : InitCmd!Root(x) \notin InitCmd!WorkflowFiles(w)
  BY InitFileNames
<1> QED BY <1>1, <1>2, <1>3, InitWritingStep

\* ... or one of the workflow.
LEMMA InitWorkflowFileStep ==
  ASSUME InitCmd!InitProjectAssumption, ProjectInv, NEW x \in {"code", "workflow.yaml"},
         NEW step, InitMoved({<<cmd.wf, x>>}, step),
         <<cmd.at, step>> \in {<<"code", "contracts">>, <<"workflowSettings", "ok">>}
  PROVE  InitCmd!TypeOK' /\ InitRunInv' /\ InitDirsInv' /\ InitEditsInv'
<1>1. /\ cmd.at \in InitCmd!Steps /\ step \in (InitCmd!Steps \cup {"ok"}) \ {"makeRoot"}
      /\ cmd.at \in MadeSteps /\ cmd.at \in RootSteps
  BY DEF InitCmd!Steps, RootSteps, MadeSteps
<1>2. cmd.wf \in Workflows
  BY <1>1 DEF ProjectInv, InitRunInv
<1>3. <<cmd.wf, x>> \in InitCmd!WorkflowFiles(cmd.wf) /\ {<<cmd.wf,
      x>>} \in SUBSET InitCmd!Files
  BY <1>2 DEF InitCmd!WorkflowFiles, InitCmd!Files
<1>4. \A f \in {<<cmd.wf, x>>} : (\E w \in Workflows : f \in InitCmd!WorkflowFiles(w))
                               => f \in InitCmd!WorkflowFiles(cmd.wf) /\ cmd.at \in MadeSteps
  BY <1>1, <1>3
<1> QED BY <1>1, <1>3, <1>4, InitWritingStep

LEMMA InitLocalStep ==
  ASSUME InitCmd!InitProjectAssumption, ProjectInv,
         \/ InitCmd!CheckEnv \/ InitCmd!CheckIgnore \/ InitCmd!ProjectSettings \/ InitCmd!ProjectEnv \/ InitCmd!Ignore
         \/ InitCmd!CopySecrets \/ InitCmd!GenerateWorkflow \/ InitCmd!GenerateContracts \/ InitCmd!GoModule
         \/ InitCmd!WorkflowSettings
  PROVE  ProjectInv' /\ InitCmd!KeptUnlessAgreed
<1>1. InitCmd!TypeOK
  BY DEF ProjectInv
<1>2. CASE InitCmd!CheckEnv
  <2>1. /\ cmd.at = "checkEnv"
        /\ \/ InitCmd!Present(InitCmd!Root(".env")) /\ InitMoved({}, "pick")
           \/ ~InitCmd!Present(InitCmd!Root(".env")) /\ InitMoved({InitCmd!Root(".env")},
              "checkIgnore")
    BY <1>1, <1>2, InitMoves DEF InitCmd!CheckEnv, InitCmd!Steps
  <2>2. InitCmd!TypeOK' /\ InitRunInv' /\ InitDirsInv' /\ InitEditsInv'
    BY <2>1, InitProjectFileStep, InitFileNames
  <2>3. InitFilesInv'
    BY <2>1, InitFileNames
       DEF ProjectInv, InitFilesInv, HasSettings, HasEnv, InitCmd!Present,
           MadeSteps, InitMoved
  <2>4. InitCmd!KeptUnlessAgreed
    BY <2>1, InitKeeps DEF InitCmd!Present
  <2> QED BY <2>2, <2>3, <2>4 DEF ProjectInv
<1>3. CASE InitCmd!CheckIgnore
  <2>1. /\ cmd.at = "checkIgnore"
        /\ \/ InitMoved({}, "pick")
           \/ ~InitCmd!Present(InitCmd!Root(".gitignore"))
              /\ InitMoved({InitCmd!Root(".gitignore")}, "pick")
    BY <1>1, <1>3, InitMoves
       DEF InitCmd!CheckIgnore, InitCmd!GitIgnore, InitCmd!Steps
  <2>2. InitCmd!TypeOK' /\ InitRunInv' /\ InitDirsInv' /\ InitEditsInv'
    BY <2>1, InitProjectFileStep, InitFileNames
  <2>3. InitFilesInv'
    BY <2>1, InitFileNames
       DEF ProjectInv, InitFilesInv, HasSettings, HasEnv, InitCmd!Present,
           MadeSteps, InitMoved
  <2>4. InitCmd!KeptUnlessAgreed
    BY <2>1, InitKeeps DEF InitCmd!Present
  <2> QED BY <2>2, <2>3, <2>4 DEF ProjectInv
<1>4. CASE InitCmd!ProjectSettings
  <2>1. /\ cmd.at = "settings"
        /\ \/ InitCmd!Present(InitCmd!Root("project.yaml")) /\ InitMoved({}, "env")
           \/ ~InitCmd!Present(InitCmd!Root("project.yaml"))
              /\ InitMoved({InitCmd!Root("project.yaml")}, "env")
    BY <1>1, <1>4, InitMoves DEF InitCmd!ProjectSettings, InitCmd!Steps
  <2>2. InitCmd!TypeOK' /\ InitRunInv' /\ InitDirsInv' /\ InitEditsInv'
    BY <2>1, InitProjectFileStep, InitFileNames
  <2>3. InitFilesInv'
    BY <2>1, InitFileNames
       DEF ProjectInv, InitFilesInv, HasSettings, HasEnv, InitCmd!Present,
           MadeSteps, InitMoved
  <2>4. InitCmd!KeptUnlessAgreed
    BY <2>1, InitKeeps DEF InitCmd!Present
  <2> QED BY <2>2, <2>3, <2>4 DEF ProjectInv
<1>5. CASE InitCmd!Ignore
  <2>1. /\ cmd.at = "ignore"
        /\ \/ InitMoved({}, "makeWorkflow")
           \/ ~InitCmd!Present(InitCmd!Root(".gitignore"))
              /\ InitMoved({InitCmd!Root(".gitignore")}, "makeWorkflow")
    BY <1>1, <1>5, InitMoves
       DEF InitCmd!Ignore, InitCmd!GitIgnore, InitCmd!Steps
  <2>2. InitCmd!TypeOK' /\ InitRunInv' /\ InitDirsInv' /\ InitEditsInv'
    BY <2>1, InitProjectFileStep, InitFileNames
  <2>3. InitFilesInv'
    BY <2>1, InitFileNames
       DEF ProjectInv, InitFilesInv, HasSettings, HasEnv, InitCmd!Present,
           MadeSteps, InitMoved
  <2>4. InitCmd!KeptUnlessAgreed
    BY <2>1, InitKeeps DEF InitCmd!Present
  <2> QED BY <2>2, <2>3, <2>4 DEF ProjectInv
<1>6. CASE InitCmd!CopySecrets
  <2>1. /\ cmd.at = "secrets"
        /\ InitMoved({InitCmd!Root("secrets.yaml")}, "code")
    BY <1>1, <1>6, InitMoves DEF InitCmd!CopySecrets, InitCmd!Steps
  <2>2. InitCmd!TypeOK' /\ InitRunInv' /\ InitDirsInv' /\ InitEditsInv'
    BY <2>1, InitProjectFileStep, InitFileNames
  <2>3. InitFilesInv'
    BY <2>1, InitFileNames
       DEF ProjectInv, InitFilesInv, HasSettings, HasEnv, InitCmd!Present,
           MadeSteps, InitMoved
  <2>4. InitCmd!KeptUnlessAgreed
    BY <2>1, InitKeeps DEF InitCmd!RewrittenBy
  <2> QED BY <2>2, <2>3, <2>4 DEF ProjectInv
<1>7. CASE InitCmd!GenerateWorkflow
  <2>1. /\ cmd.at = "code"
        /\ InitMoved({<<cmd.wf, "code">>}, "contracts")
    BY <1>1, <1>7, InitMoves DEF InitCmd!GenerateWorkflow, InitCmd!Steps
  <2>2. InitCmd!TypeOK' /\ InitRunInv' /\ InitDirsInv' /\ InitEditsInv'
    BY <2>1, InitWorkflowFileStep
  <2>4. cmd.wf \in Workflows /\ cmd.at \in MadeSteps \ {"ok"}
    BY <2>1 DEF ProjectInv, InitRunInv, InitCmd!Steps, MadeSteps
  <2>7. <<cmd.wf, "code">> \in InitCmd!Files
    BY <2>4, SMTT(30) DEF InitCmd!Files, InitCmd!WorkflowFiles
  <2>3. InitFilesInv'
    BY <2>1, <2>4, <2>7, InitFileNames, SMTT(30)
       DEF ProjectInv, InitFilesInv, HasSettings, HasEnv, InitCmd!Present,
           MadeSteps, InitMoved
  <2>5. files[<<cmd.wf, "code">>] = "edited" => <<cmd.wf, "code">> \in cmd.agreed
    BY <2>4, InitFileNames DEF ProjectInv, InitEditsInv
  <2>6. InitCmd!KeptUnlessAgreed
    BY <2>1, <2>5, InitKeeps DEF InitMoved
  <2> QED BY <2>2, <2>3, <2>6 DEF ProjectInv
<1>8. CASE InitCmd!GenerateContracts
  <2>1. /\ cmd.at = "contracts"
        /\ \/ InitMoved({}, "module")
           \/ InitCmd!WritesContracts /\ InitMoved({InitCmd!Root("contracts")}, "module")
    BY <1>1, <1>8, InitMoves DEF InitCmd!GenerateContracts, InitCmd!Steps
  <2>5. InitCmd!WritesContracts =>
          cmd.template.contracts = "files" \/ ~InitCmd!Present(InitCmd!Root("contracts"))
    BY DEF InitCmd!WritesContracts
  <2>2. InitCmd!TypeOK' /\ InitRunInv' /\ InitDirsInv' /\ InitEditsInv'
    BY <2>1, InitProjectFileStep, InitFileNames
  <2>3. InitFilesInv'
    BY <2>1, InitFileNames
       DEF ProjectInv, InitFilesInv, HasSettings, HasEnv, InitCmd!Present,
           MadeSteps, InitMoved, InitRunInv, InitCmd!Steps
  <2>4. InitCmd!KeptUnlessAgreed
    BY <2>1, <2>5, InitKeeps DEF InitCmd!RewrittenBy, InitCmd!Present
  <2> QED BY <2>2, <2>3, <2>4 DEF ProjectInv
<1>9. CASE InitCmd!GoModule
  <2>1. /\ cmd.at = "module"
        /\ \/ /\ cmd.template.lang = "Golang" => InitCmd!Present(InitCmd!Root("go.mod"))
              /\ InitMoved({}, "workflowSettings")
           \/ /\ cmd.template.lang = "Golang"
              /\ InitMoved({InitCmd!Root("go.mod")}, "workflowSettings")
    BY <1>1, <1>9, InitMoves DEF InitCmd!GoModule, InitCmd!Steps
  <2>2. InitCmd!TypeOK' /\ InitRunInv' /\ InitDirsInv' /\ InitEditsInv'
    BY <2>1, InitProjectFileStep, InitFileNames
  <2>3. InitFilesInv'
    BY <2>1, InitFileNames
       DEF ProjectInv, InitFilesInv, HasSettings, HasEnv, InitCmd!Present,
           MadeSteps, InitMoved, InitRunInv, InitCmd!Steps
  <2>4. InitCmd!KeptUnlessAgreed
    BY <2>1, InitKeeps DEF InitCmd!RewrittenBy
  <2> QED BY <2>2, <2>3, <2>4 DEF ProjectInv
<1>10. CASE InitCmd!WorkflowSettings
  <2>1. /\ cmd.at = "workflowSettings"
        /\ InitMoved({<<cmd.wf, "workflow.yaml">>}, "ok")
    BY <1>1, <1>10, InitMoves DEF InitCmd!WorkflowSettings, InitCmd!Outcomes
  <2>2. InitCmd!TypeOK' /\ InitRunInv' /\ InitDirsInv' /\ InitEditsInv'
    BY <2>1, InitWorkflowFileStep
  <2>3. InitFilesInv'
    BY <2>1, InitFileNames
       DEF ProjectInv, InitFilesInv, HasSettings, HasEnv, InitCmd!Present,
           MadeSteps, InitMoved, InitRunInv, InitCmd!Steps
  <2>4. cmd.wf \in Workflows /\ cmd.at \in MadeSteps \ {"ok"}
    BY <2>1 DEF ProjectInv, InitRunInv, InitCmd!Steps, MadeSteps
  <2>5. files[<<cmd.wf, "workflow.yaml">>] = "edited" => <<cmd.wf,
        "workflow.yaml">> \in cmd.agreed
    BY <2>4, InitFileNames DEF ProjectInv, InitEditsInv
  <2>6. InitCmd!KeptUnlessAgreed
    BY <2>1, <2>5, InitKeeps DEF InitMoved
  <2> QED BY <2>2, <2>3, <2>6 DEF ProjectInv
<1>11. CASE InitCmd!ProjectEnv
  <2> DEFINE agreed == IF InitCmd!Present(InitCmd!Root(".env")) THEN cmd.agreed \cup {InitCmd!Root(".env")}
                       ELSE cmd.agreed
  <2> DEFINE c == [cmd EXCEPT !.at = "ignore", !.agreed = agreed]
  <2>1. cmd.at = "env" /\ cmd' = c /\ UNCHANGED <<dirs, runs>>
        /\ InitCmd!Write({InitCmd!Root(".env")})
    BY <1>11 DEF InitCmd!ProjectEnv
  <2>2. agreed \in SUBSET InitCmd!Files /\ "ignore" \in InitCmd!Outcomes \cup InitCmd!Steps
    BY <1>1, InitFileNames DEF InitCmd!TypeOK, InitCmd!Command, InitCmd!Steps
  <2>3. c \in InitCmd!Command
    <3>1. cmd \in InitCmd!Command
      BY <1>1 DEF InitCmd!TypeOK
    <3> HIDE DEF agreed
    <3> QED BY <2>2, <3>1, Zenon DEF InitCmd!Command
  <2>4. /\ c.at = "ignore" /\ c.agreed = agreed /\ c.inside = cmd.inside
        /\ c.found = cmd.found /\ c.template = cmd.template /\ c.wf = cmd.wf
    BY <1>1 DEF InitCmd!TypeOK, InitCmd!Command
  <2> HIDE DEF c
  <2>5. files \in [InitCmd!Files -> FileMarks]
    BY <1>1 DEF InitCmd!TypeOK, FileMarks
  <2>6. InitMoved({InitCmd!Root(".env")}, "ignore")
    BY <2>1, <2>3, <2>4, <2>5, InitWriteSteps DEF InitMoved
  <2>7. InitCmd!TypeOK' /\ InitRunInv' /\ InitDirsInv' /\ InitEditsInv'
    BY <2>1, <2>6, InitProjectFileStep, InitFileNames
  <2>8. InitFilesInv'
    BY <2>1, <2>6, InitFileNames
       DEF ProjectInv, InitFilesInv, HasSettings, HasEnv, InitCmd!Present,
           MadeSteps, InitMoved
  <2>9. InitCmd!KeptUnlessAgreed
    BY <2>1, <2>4, <2>6, InitKeeps DEF InitCmd!Present
  <2> QED BY <2>7, <2>8, <2>9 DEF ProjectInv
<1> QED BY <1>2, <1>3, <1>4, <1>5, <1>6, <1>7, <1>8, <1>9, <1>10, <1>11

LEMMA InitEnsuredDirectory ==
  ASSUME InitCmd!InitProjectAssumption, ProjectInv, NEW step, NEW d, NEW next,
         InitCmd!EnsureDirectory(step, d, next),
         \/ step = "makeRoot" /\ d = "root" /\ next = "pick"
         \/ step = "makeWorkflow" /\ d = cmd.wf /\ next = "secrets"
  PROVE  ProjectInv' /\ InitCmd!KeptUnlessAgreed
<1>1. cmd.at = step
  BY DEF InitCmd!EnsureDirectory
<1>2. InitCmd!TypeOK /\ files \in [InitCmd!Files -> FileMarks] /\ cmd \in InitCmd!Command
  BY DEF ProjectInv, InitCmd!TypeOK, FileMarks
<1>3. step = "makeWorkflow" => cmd.wf \in Workflows /\ "root" \in dirs /\ d # "root"
  BY <1>1
     DEF ProjectInv, InitRunInv, InitCmd!Steps, InitDirsInv, RootSteps,
         InitCmd!InitProjectAssumption
<1>4. InitCmd!Below(d) \in SUBSET InitCmd!Files
  BY <1>1, <1>3, InitFileNames DEF InitCmd!Below
<1>5. CASE d \notin dirs
  <2>1. dirs' = dirs \cup {d} /\ UNCHANGED files /\ InitCmd!Goto(next)
    BY <1>1, <1>5 DEF InitCmd!EnsureDirectory
  <2>2. next \in InitCmd!Outcomes \cup InitCmd!Steps
    BY DEF InitCmd!Steps
  <2>3. /\ cmd' \in InitCmd!Command /\ cmd'.at = next /\ UNCHANGED runs
        /\ cmd'.inside = cmd.inside /\ cmd'.found = cmd.found
        /\ cmd'.template = cmd.template /\ cmd'.wf = cmd.wf
        /\ cmd'.agreed = cmd.agreed
    BY <1>2, <2>1, <2>2, InitGotoSteps
  <2>4. InitCmd!TypeOK'
    BY <1>1, <1>2, <1>3, <2>1, <2>3
       DEF InitCmd!TypeOK, ProjectInv, InitRunInv, InitCmd!Steps
  <2>5. InitRunInv'
    BY <1>1, <1>3, <2>3 DEF ProjectInv, InitRunInv, InitCmd!Steps
  <2>6. InitDirsInv'
    BY <1>1, <1>3, <2>1, <2>3
       DEF ProjectInv, InitDirsInv, InitCmd!Present, MadeSteps, RootSteps
  <2>7. InitFilesInv'
    BY <1>1, <1>3, <2>1, <2>3
       DEF ProjectInv, InitRunInv, InitFilesInv, HasSettings, HasEnv,
           InitCmd!Present, MadeSteps
  <2>8. InitEditsInv'
    <3>1. next = "secrets" => \A f \in InitCmd!WorkflowFiles(cmd.wf) : ~InitCmd!Present(f)
      BY <1>1, <1>3, <1>5 DEF ProjectInv, InitDirsInv
    <3> QED BY <1>1, <2>1, <2>3, <3>1
       DEF InitEditsInv, InitCmd!Present, MadeSteps
  <2>9. InitCmd!KeptUnlessAgreed
    BY <2>1 DEF InitCmd!KeptUnlessAgreed
  <2> QED BY <2>4, <2>5, <2>6, <2>7, <2>8, <2>9 DEF ProjectInv
<1>6. CASE d \in dirs
  <2> DEFINE c == [cmd EXCEPT !.agreed = @ \cup InitCmd!Below(d)]
  <2>1. /\ dirs' = IF d = "root" THEN {} ELSE dirs \ {d}
        /\ files' = [f \in InitCmd!Files |-> IF f \in InitCmd!Below(d) THEN "absent" ELSE files[f]]
        /\ UNCHANGED runs /\ cmd' = c
    BY <1>1, <1>6 DEF InitCmd!EnsureDirectory, InitCmd!Asked
  <2>2. c \in InitCmd!Command
    BY <1>2, <1>4, Zenon DEF InitCmd!Command
  <2>3. /\ c.at = cmd.at /\ c.agreed = cmd.agreed \cup InitCmd!Below(d)
        /\ c.inside = cmd.inside /\ c.found = cmd.found
        /\ c.template = cmd.template /\ c.wf = cmd.wf
    BY <1>2 DEF InitCmd!Command
  <2> HIDE DEF c
  <2>4. files' \in [InitCmd!Files -> FileMarks]
    BY <1>2, <2>1 DEF FileMarks
  <2>5. \A f \in InitCmd!Files :
        files'[f] = IF f \in InitCmd!Below(d) THEN "absent" ELSE files[f]
    BY <2>1
  <2>6. InitCmd!TypeOK'
    BY <1>1, <1>2, <1>3, <2>1, <2>2, <2>4 DEF InitCmd!TypeOK, FileMarks
  <2>7. InitRunInv'
    BY <2>1, <2>3 DEF ProjectInv, InitRunInv
  <2>8. InitDirsInv'
    <3>1. CASE step = "makeRoot"
      <4>1. d = "root" /\ InitCmd!Below(d) = InitCmd!Files /\ dirs' = {}
        BY <1>1, <2>1, <3>1 DEF InitCmd!Below
      <4> QED BY <1>1, <2>1, <2>3, <2>5, <3>1, <4>1, InitFileNames
              DEF InitDirsInv, InitCmd!Present, MadeSteps, RootSteps
    <3>2. CASE step = "makeWorkflow"
      <4>1. /\ InitCmd!Below(d) = InitCmd!WorkflowFiles(d) /\ dirs' = dirs \ {d}
                 /\ "root" \in dirs'
            /\ cmd'.at = "makeWorkflow"
        BY <1>1, <1>3, <2>1, <2>3, <3>2 DEF InitCmd!Below
      <4>2. \A w \in Workflows \ dirs' : \A f \in InitCmd!WorkflowFiles(w) :
            ~InitCmd!Present(f)'
        <5>1. SUFFICES ASSUME NEW w \in Workflows, w \notin dirs \/ w = d,
                              NEW f \in InitCmd!WorkflowFiles(w)
                       PROVE  files'[f] = "absent"
          BY <4>1 DEF InitCmd!Present
        <5>2. f \in InitCmd!Files /\ (w = d => f \in InitCmd!Below(d))
          BY <4>1, InitFileNames
        <5>3. w \notin dirs => files[f] = "absent"
          BY DEF ProjectInv, InitDirsInv, InitCmd!Present
        <5> QED BY <2>5, <5>1, <5>2, <5>3
      <4> QED BY <4>1, <4>2 DEF InitDirsInv, MadeSteps
    <3> QED BY <1>1, <3>1, <3>2
  <2>9. InitFilesInv'
    <3>1. CASE step = "makeRoot"
      BY <1>1, <2>1, <2>3, <3>1
         DEF InitFilesInv, HasSettings, HasEnv, MadeSteps
    <3>2. CASE step = "makeWorkflow"
      <4>1. InitCmd!Below(d) = InitCmd!WorkflowFiles(d) /\ d \in Workflows
        BY <1>1, <1>3, <3>2 DEF InitCmd!Below
      <4>2. \A x : InitCmd!Root(x) \in InitCmd!Files
            => files'[InitCmd!Root(x)] = files[InitCmd!Root(x)]
        <5>1. \A x : InitCmd!Root(x) \notin InitCmd!WorkflowFiles(d)
          BY <4>1, InitFileNames
        <5> QED BY <2>5, <4>1, <5>1
      <4> QED BY <1>1, <2>1, <2>3, <3>2, <4>2, InitFileNames
         DEF ProjectInv, InitFilesInv, HasSettings, HasEnv, InitCmd!Present,
             MadeSteps
    <3> QED BY <1>1, <3>1, <3>2
  <2>10. InitEditsInv'
    BY <1>1, <2>1, <2>3 DEF InitEditsInv, MadeSteps
  <2>11. InitCmd!KeptUnlessAgreed
    BY <2>1, <2>3, <2>5 DEF InitCmd!KeptUnlessAgreed
  <2> QED BY <2>6, <2>7, <2>8, <2>9, <2>10, <2>11 DEF ProjectInv
<1> QED BY <1>5, <1>6

LEMMA InitDirectoryStep ==
  ASSUME InitCmd!InitProjectAssumption, ProjectInv, InitCmd!MakeRoot \/ InitCmd!MakeWorkflow
  PROVE  ProjectInv' /\ InitCmd!KeptUnlessAgreed
  BY InitEnsuredDirectory DEF InitCmd!MakeRoot, InitCmd!MakeWorkflow

LEMMA InitOutsideStep ==
  ASSUME InitCmd!InitProjectAssumption, ProjectInv,
         InitCmd!Run \/ InitCmd!FindProject \/ InitCmd!PickTemplate \/ InitCmd!Fail \/ InitCmd!Edit
  PROVE  ProjectInv' /\ InitCmd!KeptUnlessAgreed
<1>1. InitCmd!TypeOK /\ files \in [InitCmd!Files -> FileMarks] /\ cmd \in InitCmd!Command
  BY DEF ProjectInv, InitCmd!TypeOK, FileMarks
<1>2. CASE InitCmd!Run
  <2>1. PICK inside \in BOOLEAN, flag \in BOOLEAN, w \in Workflows :
          /\ inside => InitCmd!Present(InitCmd!Root("project.yaml"))
          /\ cmd' = [InitCmd!Idle("find") EXCEPT !.inside = inside, !.flag = flag, !.wf = w]
          /\ UNCHANGED <<dirs, files>> /\ runs < MaxInits /\ runs' = runs + 1
    BY <1>2 DEF InitCmd!Run
  <2>2. /\ cmd'.at = "find" /\ cmd'.inside = inside /\ cmd'.wf = w
    BY <2>1 DEF InitCmd!Idle
  <2>3. cmd' \in InitCmd!Command
    BY <2>1 DEF InitCmd!Idle, InitCmd!Command, InitCmd!Steps
  <2>4. runs' \in 0..MaxInits
    BY <1>1, <2>1 DEF InitCmd!TypeOK, InitCmd!InitProjectAssumption
  <2> QED BY <1>1, <2>1, <2>2, <2>3, <2>4
     DEF ProjectInv, InitCmd!TypeOK, InitRunInv, InitDirsInv, InitFilesInv,
         InitEditsInv, HasSettings, HasEnv, InitCmd!Present, MadeSteps,
         RootSteps, InitCmd!KeptUnlessAgreed
<1>3. CASE InitCmd!FindProject
  <2> DEFINE step == IF cmd.inside THEN "checkEnv" ELSE "makeRoot"
  <2> DEFINE c == [cmd EXCEPT !.found = cmd.inside, !.at = step]
  <2>1. cmd.at = "find" /\ cmd' = c /\ UNCHANGED <<dirs, files, runs>>
    BY <1>3 DEF InitCmd!FindProject
  <2>2. c \in InitCmd!Command
    <3>1. step \in InitCmd!Outcomes \cup InitCmd!Steps /\ cmd.inside \in BOOLEAN
      BY <1>1 DEF InitCmd!Steps, InitCmd!Command
    <3> HIDE DEF step
    <3> QED BY <1>1, <3>1, Zenon DEF InitCmd!Command
  <2>3. /\ c.at = step /\ c.inside = cmd.inside /\ c.found = cmd.inside
        /\ c.wf = cmd.wf
    BY <1>1 DEF InitCmd!Command
  <2> HIDE DEF c
  <2>4. InitCmd!TypeOK' /\ InitRunInv'
    BY <1>1, <2>1, <2>2, <2>3
       DEF ProjectInv, InitCmd!TypeOK, InitRunInv, InitCmd!Steps
  <2>5. InitDirsInv' /\ InitFilesInv' /\ InitEditsInv'
    BY <2>1, <2>3, InitFileNames
       DEF ProjectInv, InitDirsInv, InitFilesInv, InitEditsInv, HasSettings,
           HasEnv, InitCmd!Present, MadeSteps, RootSteps
  <2> QED BY <2>1, <2>4, <2>5 DEF ProjectInv, InitCmd!KeptUnlessAgreed
<1>4. CASE InitCmd!PickTemplate
  <2> DEFINE step == IF cmd.found THEN "makeWorkflow" ELSE "settings"
  <2>1. PICK t \in InitCmd!Templates : cmd' = [cmd EXCEPT !.template = t, !.at = step]
    <3>1. InitCmd!Offered \subseteq InitCmd!Templates
      BY Zenon DEF InitCmd!Offered
    <3> QED BY <1>4, <3>1, Zenon DEF InitCmd!PickTemplate
  <2> DEFINE c == [cmd EXCEPT !.template = t, !.at = step]
  <2>2. cmd.at = "pick" /\ UNCHANGED <<dirs, files, runs>> /\ cmd' = c
    BY <1>4, <2>1 DEF InitCmd!PickTemplate
  <2>3. c \in InitCmd!Command
    <3>1. step \in InitCmd!Outcomes \cup InitCmd!Steps
      BY DEF InitCmd!Steps
    <3> HIDE DEF step
    <3> QED BY <1>1, <3>1, Zenon DEF InitCmd!Command
  <2>4. c.at = step /\ c.inside = cmd.inside /\ c.found = cmd.found /\ c.wf = cmd.wf
    BY <1>1 DEF InitCmd!Command
  <2> HIDE DEF c
  <2>5. InitCmd!TypeOK' /\ InitRunInv'
    BY <1>1, <2>2, <2>3, <2>4
       DEF ProjectInv, InitCmd!TypeOK, InitRunInv, InitCmd!Steps
  <2>6. InitDirsInv' /\ InitFilesInv' /\ InitEditsInv'
    BY <2>2, <2>4
       DEF ProjectInv, InitDirsInv, InitFilesInv, InitEditsInv, HasSettings,
           HasEnv, InitCmd!Present, MadeSteps, RootSteps
  <2> QED BY <2>2, <2>5, <2>6 DEF ProjectInv, InitCmd!KeptUnlessAgreed
<1>5. CASE InitCmd!Fail
  <2>1. /\ cmd' \in InitCmd!Command /\ cmd'.at = "failed" /\ UNCHANGED <<dirs, files, runs>>
    BY <1>1, <1>5, InitGotoSteps DEF InitCmd!Fail, InitCmd!Outcomes
  <2> QED BY <1>1, <2>1
     DEF ProjectInv, InitCmd!TypeOK, InitRunInv, InitDirsInv, InitFilesInv,
         InitEditsInv, HasSettings, HasEnv, InitCmd!Present, MadeSteps,
         RootSteps, InitCmd!Steps, InitCmd!KeptUnlessAgreed
<1>6. CASE InitCmd!Edit
  <2>1. PICK f \in InitCmd!Files : files[f] = "generated"
        /\ files' = [files EXCEPT ![f] = "edited"]
    BY <1>6 DEF InitCmd!Edit
  <2>2. cmd.at \in InitCmd!Outcomes /\ UNCHANGED <<dirs, cmd, runs>>
    BY <1>6 DEF InitCmd!Edit
  <2>3. /\ files' \in [InitCmd!Files -> FileMarks]
        /\ \A g \in InitCmd!Files : (InitCmd!Present(g)' <=> InitCmd!Present(g))
        /\ \A g \in InitCmd!Files : files[g] = "edited" => files'[g] = "edited"
    BY <1>1, <2>1 DEF InitCmd!Present, FileMarks
  <2>4. InitCmd!TypeOK' /\ InitRunInv' /\ InitEditsInv'
    BY <1>1, <2>2, <2>3
       DEF ProjectInv, InitCmd!TypeOK, InitRunInv, InitEditsInv,
           InitCmd!Outcomes, MadeSteps, FileMarks
  <2>5. InitDirsInv'
    <3>1. \A w \in Workflows : InitCmd!WorkflowFiles(w) \subseteq InitCmd!Files
      BY InitFileNames
    <3> QED BY <2>2, <2>3, <3>1 DEF ProjectInv, InitDirsInv
  <2>6. InitFilesInv'
    <3>1. cmd.at = "ok" => /\ <<cmd.wf, "code">> \in InitCmd!Files
                           /\ <<cmd.wf, "workflow.yaml">> \in InitCmd!Files
      BY InitFileNames DEF ProjectInv, InitRunInv
    <3>2. cmd.at = "ok" \/ cmd.at \in {"none", "failed"}
      BY <2>2 DEF InitCmd!Outcomes
    <3> QED BY <2>2, <2>3, <3>1, <3>2, InitFileNames
            DEF ProjectInv, InitFilesInv, HasSettings, HasEnv, MadeSteps
  <2>7. InitCmd!KeptUnlessAgreed
    BY <2>3 DEF InitCmd!KeptUnlessAgreed
  <2> QED BY <2>4, <2>5, <2>6, <2>7 DEF ProjectInv
<1> QED BY <1>2, <1>3, <1>4, <1>5, <1>6

LEMMA InitStep ==
  ASSUME InitCmd!InitProjectAssumption, ProjectInv, [InitCmd!Next]_(InitCmd!vars)
  PROVE  ProjectInv' /\ [InitCmd!KeptUnlessAgreed]_(InitCmd!vars)
<1>1. CASE UNCHANGED InitCmd!vars
  BY <1>1
     DEF InitCmd!vars, ProjectInv, InitCmd!TypeOK, InitRunInv, InitDirsInv,
         InitFilesInv, InitEditsInv, HasSettings, HasEnv, InitCmd!Present
<1> QED BY <1>1, InitLocalStep, InitDirectoryStep, InitOutsideStep
   DEF InitCmd!Next

LEMMA InitStarts == ASSUME InitCmd!InitProjectAssumption, InitCmd!Init PROVE ProjectInv
<1>1. /\ cmd.at = "none" /\ cmd \in InitCmd!Command /\ runs = 0 /\ dirs = {}
      /\ \A f \in InitCmd!Files : files[f] = "absent"
      /\ files \in [InitCmd!Files -> {"absent", "generated", "edited"}]
  BY DEF InitCmd!Init, InitCmd!Idle, InitCmd!Command, InitCmd!Outcomes
<1>2. \A w \in Workflows : InitCmd!WorkflowFiles(w) \subseteq InitCmd!Files
  BY InitFileNames
<1> QED BY <1>1, <1>2
   DEF InitCmd!InitProjectAssumption, ProjectInv, InitCmd!TypeOK, InitRunInv,
       InitDirsInv, InitFilesInv, InitEditsInv, HasSettings, HasEnv,
       InitCmd!Present, MadeSteps, RootSteps, InitCmd!Steps

ProjectToolInv == On("init") => ProjectInv

LEMMA InitSteps ==
  ASSUME On("init"), [Next]_vars PROVE [InitCmd!Next]_(InitCmd!vars)
  BY DEF On, Next, vars, initVars, InitCmd!vars

LEMMA ProjectInvariant == Spec => []ProjectToolInv
<1>1. InitCmd!InitProjectAssumption
  BY RecordCommandsAssumption DEF RecordCommandsAssumption
<1>2. Init => ProjectToolInv
  BY <1>1, InitStarts DEF Init, ProjectToolInv
<1>3. ProjectToolInv /\ [Next]_vars => ProjectToolInv'
  BY <1>1, ConfigStays, InitSteps, InitStep DEF ProjectToolInv, On
<1> QED BY <1>2, <1>3, PTL DEF Spec

\* Whatever the number of runs, and wherever they are cut off: what a user edited
\* is lost to a run of init only if it asked about the file or its directory, or
\* if its template makes it write the file again unasked, as it does with the
\* secrets, with contracts it brings and with the module file of a Golang project.
THEOREM EditsAreKept == Spec => KeptUnlessAgreed
<1>1. InitCmd!InitProjectAssumption
  BY RecordCommandsAssumption DEF RecordCommandsAssumption
<1>2. ProjectToolInv /\ [Next]_vars => [On("init") => InitCmd!KeptUnlessAgreed]_vars
  <2>1. SUFFICES ASSUME ProjectToolInv, [Next]_vars, On("init")
                 PROVE  InitCmd!KeptUnlessAgreed
    OBVIOUS
  <2>2. [InitCmd!KeptUnlessAgreed]_(InitCmd!vars)
    BY <1>1, <2>1, InitSteps, InitStep DEF ProjectToolInv
  <2> QED BY <2>2 DEF InitCmd!KeptUnlessAgreed, InitCmd!vars
<1> QED BY <1>2, ProjectInvariant, PTL DEF Spec, KeptUnlessAgreed
-----------------------------------------------------------------------------
(* Updating the tool *)

\* The answer v is not older than tick t.
CacheKnows(v, t) == t <= clock /\ v >= Update!LatestBefore(t)

KnowsWhenValid(c) == c.valid => CacheKnows(c.version, c.lastCheck)

ReleasesInv ==
  \A s, t \in 0..MaxTime : /\ s <= t => latest[s] <= latest[t]
                           /\ s >= clock => latest[s] = latest[clock]

CacheSince(t) == IF t < cacheDuration THEN 0 ELSE t - cacheDuration

CheckInv(p) ==
  /\ KnowsWhenValid(procs[p].seen)
  /\ procs[p].now <= clock
  /\ pc[p] \in {"truncate", "fill"} =>
       CacheKnows(procs[p].tag, procs[p].now) /\ CacheKnows(procs[p].used, procs[p].now)
  /\ pc[p] = "report" => procs[p].used >= Update!LatestBefore(CacheSince(procs[p].now))
  /\ pc[p] = "replace" => procs[p].got = "archive"

UpdateInv ==
  /\ Update!TypeOK /\ ReleasesInv /\ KnowsWhenValid(cache)
  /\ \A p \in Procs : CheckInv(p)
  /\ Update!BinaryIsWhole

\* What is known of a tick that has begun stays known.
LEMMA KnowledgeStays ==
  ASSUME Update!SelfUpdateAssumption, Update!TypeOK,
         \/ Update!Release
         \/ UNCHANGED latest /\ clock' \in Nat /\ clock <= clock',
         NEW t \in 0..MaxTime, t <= clock
  PROVE  Update!LatestBefore(t)' = Update!LatestBefore(t) /\ t <= clock'
<1>1. CASE Update!Release
  BY <1>1
     DEF Update!Release, Update!LatestBefore, Update!SelfUpdateAssumption,
         Update!TypeOK
<1>2. CASE UNCHANGED latest /\ clock' \in Nat /\ clock <= clock'
  BY <1>2 DEF Update!LatestBefore, Update!SelfUpdateAssumption, Update!TypeOK
<1> QED BY <1>1, <1>2

LEMMA Earlier ==
  ASSUME Update!SelfUpdateAssumption, Update!TypeOK, ReleasesInv,
         NEW s \in 0..MaxTime, NEW t \in 0..MaxTime, s <= t
  PROVE  /\ Update!LatestBefore(s) <= Update!LatestBefore(t)
         /\ Update!LatestBefore(s) \in 1..MaxVersion /\ Update!LatestBefore(t) \in 1..MaxVersion
         /\ t <= clock => Update!LatestBefore(t) <= latest[clock]
<1>1. \A r \in 0..MaxTime :
        Update!LatestBefore(r) \in 1..MaxVersion /\ 1 <= latest[r] /\ latest[r] \in Nat
  <2>1. /\ \A r \in 0..MaxTime : latest[r] \in 1..MaxVersion
        /\ MaxVersion \in Nat \ {0} /\ MaxTime \in Nat
    BY DEF Update!SelfUpdateAssumption, Update!TypeOK
  <2> TAKE r \in 0..MaxTime
  <2>2. latest[r] \in 1..MaxVersion /\ 1 <= latest[r] /\ latest[r] \in Nat
    BY <2>1
  <2>3. CASE r = 0
    <3>1. 1 \in 1..MaxVersion
      BY <2>1
    <3> QED BY <2>2, <2>3, <3>1 DEF Update!LatestBefore
  <2>4. CASE r # 0
    <3>1. r - 1 \in 0..MaxTime
      BY <2>1, <2>4
    <3>2. latest[r - 1] \in 1..MaxVersion
      BY <2>1, <3>1
    <3> QED BY <2>2, <2>4, <3>2 DEF Update!LatestBefore
  <2> QED BY <2>3, <2>4
<1>2. Update!LatestBefore(s) <= Update!LatestBefore(t)
  <2>1. CASE s = 0
    BY <1>1, <2>1 DEF Update!LatestBefore
  <2>2. CASE s # 0
    <3>1. /\ s - 1 \in 0..MaxTime /\ t - 1 \in 0..MaxTime /\ s - 1 <= t - 1
          /\ t # 0
      BY <2>2 DEF Update!SelfUpdateAssumption
    <3>2. latest[s - 1] <= latest[t - 1]
      BY <3>1, Zenon DEF ReleasesInv
    <3> QED BY <2>2, <3>1, <3>2, Zenon DEF Update!LatestBefore
  <2> QED BY <2>1, <2>2
<1>3. ASSUME t <= clock PROVE Update!LatestBefore(t) <= latest[clock]
  <2>1. 0 \in 0..MaxTime /\ clock \in 0..MaxTime
    BY DEF Update!SelfUpdateAssumption, Update!TypeOK
  <2>2. latest[clock] \in 1..MaxVersion
    BY <2>1 DEF Update!TypeOK
  <2>3. CASE t = 0
    BY <2>2, <2>3 DEF Update!LatestBefore, Update!SelfUpdateAssumption
  <2>4. CASE t # 0
    <3>1. t - 1 \in 0..MaxTime /\ t - 1 <= clock
      BY <1>3, <2>1, <2>4 DEF Update!SelfUpdateAssumption
    <3>2. latest[t - 1] <= latest[clock]
      BY <2>1, <3>1, Zenon DEF ReleasesInv
    <3> QED BY <2>4, <3>2, Zenon DEF Update!LatestBefore
  <2> QED BY <2>3, <2>4
<1> QED BY <1>1, <1>2, <1>3

LEMMA SinceType ==
  ASSUME Update!SelfUpdateAssumption, NEW t \in 0..MaxTime
  PROVE  CacheSince(t) \in 0..MaxTime /\ CacheSince(t) <= t
  BY DEF CacheSince, Update!SelfUpdateAssumption

\* A step of the world keeps what the processes know.
LEMMA WorldStep ==
  ASSUME Update!SelfUpdateAssumption, UpdateInv, Update!Release \/ Update!Tick
  PROVE  UpdateInv'
<1>1. Update!TypeOK' /\ ReleasesInv'
  <2>1. CASE Update!Tick
    <3>1. /\ clock \in 0..MaxTime /\ clock' \in 0..MaxTime /\ clock <= clock'
          /\ latest' = latest
      BY <2>1 DEF UpdateInv, Update!TypeOK, Update!Tick, Update!SelfUpdateAssumption
    <3>2. Update!TypeOK'
      BY <2>1, <3>1 DEF UpdateInv, Update!TypeOK, Update!Tick
    <3>3. latest[clock'] = latest[clock]
      BY <3>1 DEF UpdateInv, ReleasesInv
    <3>4. \A t \in 0..MaxTime : t >= clock' => t >= clock
      BY <3>1
    <3>5. ReleasesInv'
      BY <3>1, <3>3, <3>4, Zenon DEF UpdateInv, ReleasesInv
    <3> QED BY <3>2, <3>5
  <2>2. CASE Update!Release
    <3>1. /\ clock \in 0..MaxTime /\ latest[clock] \in 1..MaxVersion
          /\ latest[clock] + 1 \in 1..MaxVersion
          /\ \A t \in 0..MaxTime :
               /\ t >= clock => latest[t] = latest[clock]
               /\ latest[t] \in 1..MaxVersion
      <4>1. clock \in 0..MaxTime /\ latest \in [0..MaxTime -> 1..MaxVersion]
        BY DEF UpdateInv, Update!TypeOK
      <4>2. latest[clock] \in 1..MaxVersion /\ latest[clock] < MaxVersion
        BY <2>2, <4>1 DEF Update!Release
      <4>3. latest[clock] + 1 \in 1..MaxVersion
        BY <4>2 DEF Update!SelfUpdateAssumption
      <4>4. \A t \in 0..MaxTime : t >= clock => latest[t] = latest[clock]
        BY <4>1 DEF UpdateInv, ReleasesInv
      <4> QED BY <4>1, <4>2, <4>3, <4>4
    <3>2. \A t \in 0..MaxTime :
            latest'[t] = IF t >= clock THEN latest[clock] + 1 ELSE latest[t]
      BY <2>2, <3>1 DEF Update!Release
    <3>3. latest' \in [0..MaxTime -> 1..MaxVersion]
      BY <2>2, <3>1 DEF Update!Release
    <3>4. Update!TypeOK'
      BY <2>2, <3>3 DEF UpdateInv, Update!TypeOK, Update!Release
    <3>5. ASSUME NEW s \in 0..MaxTime, NEW t \in 0..MaxTime
          PROVE  /\ s <= t => latest'[s] <= latest'[t]
                 /\ s >= clock => latest'[s] = latest'[clock]
      <4>1. s <= t => latest[s] <= latest[t]
        BY DEF UpdateInv, ReleasesInv
      <4>2. s < clock /\ clock <= t => latest[s] <= latest[clock]
        BY <3>1 DEF UpdateInv, ReleasesInv
      <4> QED BY <3>1, <3>2, <4>1, <4>2 DEF Update!SelfUpdateAssumption
    <3> QED BY <2>2, <3>4, <3>5 DEF ReleasesInv, Update!Release
  <2> QED BY <2>1, <2>2
<1>3. Update!Release \/ (UNCHANGED latest /\ clock' \in Nat /\ clock <= clock')
  BY
     DEF UpdateInv, Update!TypeOK, Update!Release, Update!Tick,
         Update!SelfUpdateAssumption
<1>4. UNCHANGED <<cache, installed, pc, procs>>
  BY DEF Update!Release, Update!Tick
<1>5. \A t \in 0..MaxTime :
        t <= clock => Update!LatestBefore(t)' = Update!LatestBefore(t) /\ t <= clock'
  BY <1>3, KnowledgeStays DEF UpdateInv
<1>6. ASSUME NEW c \in Update!Cache, KnowsWhenValid(c)
      PROVE  KnowsWhenValid(c)'
  BY <1>5, <1>6 DEF KnowsWhenValid, CacheKnows, Update!Cache
<1>7. \A p \in Procs : CheckInv(p)'
  <2>1. SUFFICES ASSUME NEW p \in Procs PROVE CheckInv(p)'
    OBVIOUS
  <2>2. CheckInv(p) /\ procs[p] \in Update!Locals
    BY DEF UpdateInv, Update!TypeOK
  <2>3. /\ procs[p].seen \in Update!Cache /\ procs[p].now \in 0..MaxTime
        /\ CacheSince(procs[p].now) \in 0..MaxTime /\ CacheSince(procs[p].now) <= procs[p].now
    BY <2>2, SinceType DEF Update!Locals
  <2>4. CacheSince(procs[p].now) <= clock
    BY <2>2, <2>3
       DEF CheckInv, UpdateInv, Update!TypeOK, Update!SelfUpdateAssumption
  <2>5. CacheSince(procs[p].now)' = CacheSince(procs[p].now)
    BY <1>4 DEF CacheSince
  <2>6. KnowsWhenValid(procs[p].seen)'
    BY <1>4, <1>6, <2>2, <2>3 DEF CheckInv, KnowsWhenValid, CacheKnows
  <2> QED BY <1>4, <1>5, <2>2, <2>3, <2>4, <2>5, <2>6 DEF CheckInv, CacheKnows
<1>8. KnowsWhenValid(cache)'
  BY <1>4, <1>6 DEF UpdateInv, Update!TypeOK, KnowsWhenValid, CacheKnows
<1> QED BY <1>1, <1>4, <1>7, <1>8 DEF UpdateInv, Update!BinaryIsWhole

\* A step of a process, to the step `at` with the locals x.
Stepped(p, step, x) ==
  /\ pc' = [pc EXCEPT ![p] = step] /\ procs' = [procs EXCEPT ![p] = x]
  /\ UNCHANGED <<clock, latest>>

LEMMA ProcStep ==
  ASSUME Update!SelfUpdateAssumption, UpdateInv, NEW p \in Procs, NEW step \in Update!Steps,
         NEW x \in Update!Locals, Stepped(p, step, x),
         KnowsWhenValid(x.seen), x.now <= clock,
         step \in {"truncate", "fill"} => CacheKnows(x.tag, x.now) /\ CacheKnows(x.used, x.now),
         step = "report" => x.used >= Update!LatestBefore(CacheSince(x.now)),
         step = "replace" => x.got = "archive",
         cache' \in Update!Cache, KnowsWhenValid(cache'), runs' \in 0..MaxRuns,
         installed' \in [version : 0..MaxVersion, whole : {TRUE}]
  PROVE  UpdateInv'
<1>1. UNCHANGED <<clock, latest>>
  BY DEF Stepped
<1>2. /\ procs' \in [Procs -> Update!Locals] /\ pc' \in [Procs -> Update!Steps]
      /\ procs'[p] = x /\ pc'[p] = step
      /\ \A q \in Procs \ {p} : procs'[q] = procs[q] /\ pc'[q] = pc[q]
  BY DEF UpdateInv, Update!TypeOK, Stepped
<1>3. Update!TypeOK' /\ ReleasesInv' /\ Update!BinaryIsWhole'
  BY <1>1, <1>2 DEF UpdateInv, Update!TypeOK, ReleasesInv, Update!BinaryIsWhole
<1>4. KnowsWhenValid(cache)'
  BY <1>1 DEF KnowsWhenValid, CacheKnows, Update!LatestBefore
<1>5. \A q \in Procs : CheckInv(q)'
  <2>1. CheckInv(p)'
    BY <1>1, <1>2
       DEF CheckInv, KnowsWhenValid, CacheKnows, Update!LatestBefore,
           CacheSince
  <2>2. ASSUME NEW q \in Procs \ {p} PROVE CheckInv(q)'
    <3>1. CheckInv(q)
      BY DEF UpdateInv
    <3> QED BY <1>1, <1>2, <3>1
       DEF CheckInv, KnowsWhenValid, CacheKnows, Update!LatestBefore,
           CacheSince
  <2> QED BY <2>1, <2>2
<1> QED BY <1>3, <1>4, <1>5 DEF UpdateInv

LEMMA EmptyCache ==
  ASSUME Update!SelfUpdateAssumption
  PROVE  /\ Update!NoCache \in Update!Cache /\ ~Update!NoCache.valid
         /\ \A v \in 0..MaxVersion :
              /\ Update!NewProc(v) \in Update!Locals /\ Update!NewProc(v).seen = Update!NoCache
              /\ Update!NewProc(v).now = 0
  BY
     DEF Update!NoCache, Update!NewProc, Update!Cache, Update!Locals,
         Update!SelfUpdateAssumption

\* A command that starts, ends, or updates.
LEMMA CommandStep ==
  ASSUME Update!SelfUpdateAssumption, UpdateInv, NEW p \in Procs,
         Update!Start(p) \/ Update!Exit(p) \/ Update!GetTag(p) \/ Update!Download(p) \/ Update!Extract(p) \/ Update!Replace(p)
  PROVE  UpdateInv'
<1>1. /\ installed \in [version : 0..MaxVersion, whole : {TRUE}]
      /\ installed.version \in 0..MaxVersion
      /\ cache \in Update!Cache /\ KnowsWhenValid(cache) /\ runs \in 0..MaxRuns
      /\ pc \in [Procs -> Update!Steps] /\ procs \in [Procs -> Update!Locals]
      /\ procs[p] \in Update!Locals /\ pc[p] \in Update!Steps
      /\ KnowsWhenValid(procs[p].seen) /\ procs[p].now <= clock
      /\ pc[p] = "replace" => procs[p].got = "archive"
      /\ clock \in 0..MaxTime /\ latest[clock] \in 0..MaxVersion
      /\ MaxRuns \in Nat
  <2>1. /\ installed.whole /\ CheckInv(p) /\ Update!TypeOK
    BY DEF UpdateInv, Update!BinaryIsWhole
  <2>2. /\ installed \in [version : 0..MaxVersion, whole : {TRUE}]
        /\ installed.version \in 0..MaxVersion
    BY <2>1 DEF Update!TypeOK
  <2>3. procs[p] \in Update!Locals /\ latest[clock] \in 0..MaxVersion
    BY <2>1 DEF Update!TypeOK, Update!SelfUpdateAssumption
  <2> QED BY <2>1, <2>2, <2>3
     DEF UpdateInv, Update!TypeOK, CheckInv, Update!SelfUpdateAssumption
<1>2. \A v \in 0..MaxVersion :
        /\ Update!NewProc(v) \in Update!Locals
        /\ KnowsWhenValid(Update!NewProc(v).seen) /\ Update!NewProc(v).now <= clock
  BY <1>1, EmptyCache DEF KnowsWhenValid
<1>3. CASE Update!Start(p)
  <2>1. PICK step \in {"load", "getTag"} : Stepped(p, step, Update!NewProc(installed.version))
    BY <1>3 DEF Update!Start, Update!Goto, Stepped
  <2>2. step \in Update!Steps /\ runs' \in 0..MaxRuns /\ UNCHANGED <<cache, installed>>
    BY <1>1, <1>3 DEF Update!Start, Update!Steps
  <2> QED BY <1>1, <1>2, <2>1, <2>2, ProcStep DEF KnowsWhenValid
<1>4. CASE Update!Exit(p)
  <2>1. Stepped(p, "idle", Update!NewProc(0)) /\ UNCHANGED <<runs, cache, installed>>
    BY <1>4 DEF Update!Exit, Update!Goto, Stepped, Update!World
  <2>2. "idle" \in Update!Steps /\ 0 \in 0..MaxVersion
    BY DEF Update!Steps, Update!SelfUpdateAssumption
  <2> QED BY <1>1, <1>2, <2>1, <2>2, ProcStep
<1>5. CASE Update!GetTag(p)
  <2> DEFINE x == [procs[p] EXCEPT !.tag = latest[clock]]
  <2>1. Stepped(p, "download", x) /\ UNCHANGED <<runs, cache, installed>>
    BY <1>1, <1>5 DEF Update!GetTag, Update!Goto, Stepped, Update!World
  <2>2. x \in Update!Locals
    BY <1>1, Zenon DEF Update!Locals
  <2>3. "download" \in Update!Steps /\ x.seen = procs[p].seen /\ x.now = procs[p].now
    BY <1>1 DEF Update!Steps, Update!Locals
  <2> HIDE DEF x
  <2> QED BY <1>1, <2>1, <2>2, <2>3, ProcStep
<1>6. CASE Update!Download(p)
  <2>1. PICK got \in {"archive", "page"} :
          procs' = [procs EXCEPT ![p].got = got]
    BY <1>6 DEF Update!Download
  <2> DEFINE x == [procs[p] EXCEPT !.got = got]
  <2>2. Stepped(p, "extract", x) /\ UNCHANGED <<runs, cache, installed>>
    BY <1>1, <1>6, <2>1 DEF Update!Download, Update!Goto, Stepped, Update!World
  <2>3. x \in Update!Locals
    BY <1>1, Zenon DEF Update!Locals
  <2>4. "extract" \in Update!Steps /\ x.seen = procs[p].seen /\ x.now = procs[p].now
    BY <1>1 DEF Update!Steps, Update!Locals
  <2> HIDE DEF x
  <2> QED BY <1>1, <2>2, <2>3, <2>4, ProcStep
<1>7. CASE Update!Extract(p)
  <2>1. /\ Stepped(p, "replace", procs[p]) /\ UNCHANGED <<runs, cache, installed>>
        /\ procs[p].got = "archive"
    BY <1>1, <1>7 DEF Update!Extract, Update!Goto, Stepped, Update!World
  <2>2. "replace" \in Update!Steps
    BY DEF Update!Steps
  <2> QED BY <1>1, <2>1, <2>2, ProcStep
<1>8. CASE Update!Replace(p)
  <2>1. Stepped(p, "updated", procs[p]) /\ UNCHANGED <<runs, cache>>
    BY <1>1, <1>8 DEF Update!Replace, Update!Goto, Stepped, Update!World
  <2>2. installed' \in [version : 0..MaxVersion, whole : {TRUE}]
    BY <1>1, <1>8 DEF Update!Replace, Update!Locals
  <2>3. "updated" \in Update!Steps
    BY DEF Update!Steps
  <2> QED BY <1>1, <2>1, <2>2, <2>3, ProcStep
<1> QED BY <1>3, <1>4, <1>5, <1>6, <1>7, <1>8

\* A check for a newer release.
LEMMA CheckStep ==
  ASSUME Update!SelfUpdateAssumption, UpdateInv, NEW p \in Procs,
         \/ Update!loadCache(p) \/ Update!Decide(p) \/ Update!Fetch(p) \/ Update!FetchFails(p)
         \/ Update!Truncate(p) \/ Update!Fill(p)
  PROVE  UpdateInv'
<1>1. /\ installed \in [version : 0..MaxVersion, whole : {TRUE}]
      /\ cache \in Update!Cache /\ KnowsWhenValid(cache) /\ runs \in 0..MaxRuns
      /\ pc \in [Procs -> Update!Steps] /\ procs \in [Procs -> Update!Locals]
      /\ procs[p] \in Update!Locals /\ pc[p] \in Update!Steps
      /\ procs[p].now \in 0..MaxTime /\ procs[p].used \in 0..MaxVersion
      /\ procs[p].tag \in 0..MaxVersion /\ procs[p].seen \in Update!Cache
      /\ KnowsWhenValid(procs[p].seen) /\ procs[p].now <= clock
      /\ clock \in 0..MaxTime /\ latest[clock] \in 0..MaxVersion
      /\ CheckInv(p) /\ Update!TypeOK /\ ReleasesInv
  <2>1. /\ installed.whole /\ CheckInv(p) /\ Update!TypeOK
    BY DEF UpdateInv, Update!BinaryIsWhole
  <2>2. /\ installed \in [version : 0..MaxVersion, whole : {TRUE}]
        /\ installed.version \in 0..MaxVersion
    BY <2>1 DEF Update!TypeOK
  <2>3. procs[p] \in Update!Locals /\ latest[clock] \in 0..MaxVersion
    BY <2>1 DEF Update!TypeOK, Update!SelfUpdateAssumption
  <2> QED BY <2>1, <2>2, <2>3
     DEF UpdateInv, Update!TypeOK, CheckInv, Update!SelfUpdateAssumption,
         Update!Locals
<1>2. CacheKnows(latest[clock], procs[p].now) /\ CacheKnows(latest[clock], clock)
  BY <1>1, Earlier DEF CacheKnows, Update!SelfUpdateAssumption
<1>3. {"decide", "fetch", "stale", "truncate", "fill", "report"} \subseteq Update!Steps
  BY DEF Update!Steps
<1>4. CASE Update!loadCache(p)
  <2> DEFINE x == [procs[p] EXCEPT !.seen = cache]
  <2>1. Stepped(p, "decide", x) /\ UNCHANGED <<runs, cache, installed>>
    BY <1>1, <1>4 DEF Update!loadCache, Update!Goto, Stepped, Update!World
  <2>2. x \in Update!Locals
    BY <1>1, Zenon DEF Update!Locals
  <2>3. x.seen = cache /\ x.now = procs[p].now
    BY <1>1 DEF Update!Locals
  <2> HIDE DEF x
  <2> QED BY <1>1, <1>3, <2>1, <2>2, <2>3, ProcStep
<1>5. CASE Update!Decide(p)
  <2> DEFINE x == [procs[p] EXCEPT !.now = clock, !.used = procs[p].seen.version]
  <2> DEFINE step == IF Update!needsCheck(procs[p].seen) THEN "fetch" ELSE "report"
  <2>1. Stepped(p, step, x) /\ UNCHANGED <<runs, cache, installed>>
    BY <1>1, <1>5 DEF Update!Decide, Update!Goto, Stepped, Update!World
  <2>2. procs[p].seen.version \in 0..MaxVersion /\ procs[p].seen.lastCheck \in 0..MaxTime
    BY <1>1 DEF Update!Cache
  <2>3. x \in Update!Locals
    BY <1>1, <2>2, Zenon DEF Update!Locals
  <2>4. x.seen = procs[p].seen /\ x.now = clock /\ x.used = procs[p].seen.version
    BY <1>1 DEF Update!Locals
  <2>5. step \in {"fetch", "report"}
    OBVIOUS
  <2>6. ASSUME step = "report"
               PROVE procs[p].seen.version >= Update!LatestBefore(CacheSince(clock))
    <3>1. /\ procs[p].seen.valid /\ procs[p].seen.lastCheck <= clock
          /\ procs[p].seen.version >= Update!LatestBefore(procs[p].seen.lastCheck)
      BY <1>1, <2>6 DEF Update!needsCheck, KnowsWhenValid, CacheKnows
    <3>2. clock - procs[p].seen.lastCheck <= cacheDuration
      BY <1>1, <2>2, <2>6, <3>1
         DEF Update!needsCheck, Update!SelfUpdateAssumption
    <3>3. CacheSince(clock) <= procs[p].seen.lastCheck /\ CacheSince(clock) \in 0..MaxTime
      BY <1>1, <2>2, <3>2, SinceType
         DEF CacheSince, Update!SelfUpdateAssumption
    <3>4. /\ Update!LatestBefore(CacheSince(clock)) <= Update!LatestBefore(procs[p].seen.lastCheck)
          /\ Update!LatestBefore(CacheSince(clock)) \in 1..MaxVersion
          /\ Update!LatestBefore(procs[p].seen.lastCheck) \in 1..MaxVersion
      BY <1>1, <2>2, <3>3, Earlier
    <3> QED BY <2>2, <3>1, <3>4 DEF Update!SelfUpdateAssumption
  <2> HIDE DEF x, step
  <2>7. x.now <= clock
    BY <1>1, <2>4 DEF Update!SelfUpdateAssumption
  <2> QED BY <1>1, <1>3, <2>1, <2>3, <2>4, <2>5, <2>6, <2>7, ProcStep
<1>6. CASE Update!Fetch(p)
  <2> DEFINE x == [procs[p] EXCEPT !.tag = latest[clock], !.used = latest[clock]]
  <2>1. Stepped(p, "truncate", x) /\ UNCHANGED <<runs, cache, installed>>
    BY <1>1, <1>6 DEF Update!Fetch, Update!Goto, Stepped, Update!World
  <2>2. x \in Update!Locals
    BY <1>1, Zenon DEF Update!Locals
  <2>3. /\ x.seen = procs[p].seen /\ x.now = procs[p].now
        /\ x.tag = latest[clock] /\ x.used = latest[clock]
    BY <1>1 DEF Update!Locals
  <2> HIDE DEF x
  <2> QED BY <1>1, <1>2, <1>3, <2>1, <2>2, <2>3, ProcStep
<1>7. CASE Update!FetchFails(p)
  <2>1. Stepped(p, "stale", procs[p]) /\ UNCHANGED <<runs, cache, installed>>
    BY <1>1, <1>7 DEF Update!FetchFails, Update!Goto, Stepped, Update!World
  <2> QED BY <1>1, <1>3, <2>1, ProcStep
<1>8. ASSUME pc[p] \in {"truncate", "fill"}
      PROVE  /\ CacheKnows(procs[p].tag, procs[p].now)
             /\ procs[p].used >= Update!LatestBefore(CacheSince(procs[p].now))
  <2>1. /\ CacheKnows(procs[p].tag, procs[p].now)
        /\ procs[p].used >= Update!LatestBefore(procs[p].now)
    BY <1>1, <1>8 DEF CheckInv, CacheKnows
  <2>2. /\ Update!LatestBefore(CacheSince(procs[p].now)) <= Update!LatestBefore(procs[p].now)
        /\ Update!LatestBefore(CacheSince(procs[p].now)) \in 1..MaxVersion
        /\ Update!LatestBefore(procs[p].now) \in 1..MaxVersion
    BY <1>1, SinceType, Earlier
  <2> QED BY <1>1, <2>1, <2>2 DEF Update!SelfUpdateAssumption
<1>9. CASE Update!Truncate(p)
  <2>1. UNCHANGED <<runs, installed>> /\ pc[p] = "truncate"
    BY <1>9 DEF Update!Truncate, Update!World
  <2>2. CASE cache' = Update!NoCache /\ Update!Goto(p, "fill")
    <3>1. Stepped(p, "fill", procs[p])
      BY <1>1, <1>9, <2>2
         DEF Update!Truncate, Update!Goto, Stepped, Update!World
    <3>2. cache' \in Update!Cache /\ KnowsWhenValid(cache')
      BY <2>2, EmptyCache DEF KnowsWhenValid
    <3>3. CacheKnows(procs[p].tag, procs[p].now) /\ CacheKnows(procs[p].used, procs[p].now)
      BY <1>1, <2>1 DEF CheckInv
    <3> QED BY <1>1, <1>3, <2>1, <3>1, <3>2, <3>3, ProcStep
  <2>3. CASE UNCHANGED cache /\ Update!Goto(p, "report")
    <3>1. Stepped(p, "report", procs[p])
      BY <1>1, <1>9, <2>3
         DEF Update!Truncate, Update!Goto, Stepped, Update!World
    <3> QED BY <1>1, <1>3, <1>8, <2>1, <2>3, <3>1, ProcStep
  <2> QED BY <1>9, <2>2, <2>3 DEF Update!Truncate
<1>10. CASE Update!Fill(p)
  <2>1. /\ Stepped(p, "report", procs[p]) /\ UNCHANGED <<runs, installed>>
        /\ pc[p] = "fill"
    BY <1>1, <1>10 DEF Update!Fill, Update!Goto, Stepped, Update!World
  <2>2. cache' = [version |-> procs[p].tag, lastCheck |-> procs[p].now, valid |-> TRUE]
    BY <1>10 DEF Update!Fill, Update!Answer
  <2>3. cache' \in Update!Cache /\ KnowsWhenValid(cache')
    BY <1>1, <1>8, <2>1, <2>2 DEF Update!Cache, KnowsWhenValid
  <2> QED BY <1>1, <1>3, <1>8, <2>1, <2>3, ProcStep
<1> QED BY <1>4, <1>5, <1>6, <1>7, <1>9, <1>10

LEMMA UpdateStep ==
  ASSUME Update!SelfUpdateAssumption, UpdateInv, [Update!Next]_(Update!vars)
  PROVE  UpdateInv'
<1>1. CASE UNCHANGED Update!vars
  BY <1>1
     DEF Update!vars, UpdateInv, Update!TypeOK, ReleasesInv, KnowsWhenValid,
         CheckInv, CacheKnows, Update!LatestBefore, CacheSince,
         Update!BinaryIsWhole
<1> QED BY <1>1, WorldStep, CommandStep, CheckStep DEF Update!Next

LEMMA UpdateStarts == ASSUME Update!SelfUpdateAssumption, Update!Init PROVE UpdateInv
<1>1. FirstInstall \in 0..MaxVersion /\ "idle" \in Update!Steps /\ 0 \in 0..MaxVersion
  BY DEF Update!SelfUpdateAssumption, Update!Steps
<1>2. Update!TypeOK /\ ReleasesInv /\ Update!BinaryIsWhole
  BY <1>1, EmptyCache
     DEF Update!Init, Update!TypeOK, ReleasesInv, Update!BinaryIsWhole,
         Update!SelfUpdateAssumption
<1>3. KnowsWhenValid(cache)
  BY EmptyCache DEF Update!Init, KnowsWhenValid
<1>4. ASSUME NEW p \in Procs PROVE CheckInv(p)
  <2>1. procs[p] = Update!NewProc(0) /\ pc[p] = "idle" /\ clock = 0
    BY DEF Update!Init
  <2> QED BY <1>1, <2>1, EmptyCache DEF CheckInv, KnowsWhenValid
<1> QED BY <1>2, <1>3, <1>4 DEF UpdateInv

LEMMA UpdateShows == ASSUME UpdateInv PROVE Update!ChecksAreFresh /\ Update!BinaryIsWhole
  BY DEF UpdateInv, CheckInv, Update!ChecksAreFresh, CacheSince

UpdateToolInv == On("update") => UpdateInv

LEMMA UpdateSteps ==
  ASSUME On("update"), [Next]_vars PROVE [Update!Next]_(Update!vars)
  BY DEF On, Next, vars, updateVars, Update!vars

LEMMA UpdateInvariant == Spec => []UpdateToolInv
<1>1. Update!SelfUpdateAssumption
  BY RecordCommandsAssumption DEF RecordCommandsAssumption
<1>2. Init => UpdateToolInv
  BY <1>1, UpdateStarts DEF Init, UpdateToolInv
<1>3. UpdateToolInv /\ [Next]_vars => UpdateToolInv'
  BY <1>1, ConfigStays, UpdateSteps, UpdateStep DEF UpdateToolInv, On
<1> QED BY <1>2, <1>3, PTL DEF Spec

\* A check that reaches GitHub knows of every release older than cacheDuration.
THEOREM ChecksKnowReleases == Spec => []ChecksAreFresh
<1>1. UpdateToolInv => ChecksAreFresh
  BY UpdateShows DEF UpdateToolInv, ChecksAreFresh
<1> QED BY <1>1, UpdateInvariant, PTL
-----------------------------------------------------------------------------
(* The settings of a command *)

\* A tree of directories, whose root is its own parent.
IsTree ==
  /\ MaxDirs \in Nat \ {0} /\ parent \in [Settings!Dirs -> Settings!Dirs]
  /\ parent[1] = 1 /\ \A d \in Settings!Dirs \ {1} : parent[d] < d

\* One step of the search for a directory in S, and the search up to n.
Climbed(S, g, e) ==
  IF e \in S THEN e ELSE IF parent[e] = e THEN Settings!Nowhere ELSE g[parent[e]]

IsClimb(S, g, D) == g = [e \in D |-> Climbed(S, g, e)]

LEMMA NearestIsClimb ==
  ASSUME NEW S, NEW d
  PROVE  Settings!Nearest(S, d) =
           (CHOOSE g : IsClimb(S, g, Settings!Dirs))[d]
  BY Zenon DEF Settings!Nearest, IsClimb, Climbed

LEMMA ClimbExtends ==
  ASSUME IsTree, NEW S, NEW n \in Nat, n + 1 <= MaxDirs, NEW g,
         IsClimb(S, g, 1..n)
  PROVE  \E h : IsClimb(S, h, 1..(n + 1))
<1> DEFINE h == [e \in 1..(n + 1) |-> IF e = n + 1 THEN Climbed(S, g, n + 1)
                                      ELSE g[e]]
<1>1. ASSUME NEW e \in 1..(n + 1) PROVE h[e] = Climbed(S, h, e)
  <2>1. parent[e] # e => parent[e] \in 1..n
    BY <1>1 DEF IsTree, Settings!Dirs
  <2>2. parent[e] # e => h[parent[e]] = g[parent[e]]
    BY <2>1
  <2>3. Climbed(S, h, e) = Climbed(S, g, e)
    BY <2>2, Zenon DEF Climbed
  <2>4. h[e] = Climbed(S, g, e)
    <3>1. CASE e = n + 1
      BY <3>1, Zenon
    <3>2. CASE e # n + 1
      <4>1. e \in 1..n
        BY <3>2
      <4> QED BY <3>2, <4>1, Zenon DEF IsClimb
    <3> QED BY <3>1, <3>2
  <2> QED BY <2>3, <2>4
<1>2. h = [e \in 1..(n + 1) |-> h[e]]
  BY Zenon
<1>3. h = [e \in 1..(n + 1) |-> Climbed(S, h, e)]
  <2> HIDE DEF h
  <2> QED BY <1>1, <1>2, Zenon
<1> QED BY <1>3, Zenon DEF IsClimb

LEMMA ClimbExists ==
  ASSUME IsTree, NEW S PROVE \E g : IsClimb(S, g, Settings!Dirs)
<1> DEFINE Good == {n \in Nat : n <= MaxDirs => \E g : IsClimb(S, g, 1..n)}
<1>1. 0 \in Good
  <2> DEFINE g == [e \in {} |-> e]
  <2>1. 1..0 = {}
    OBVIOUS
  <2>2. g = [e \in {} |-> Climbed(S, g, e)]
    OBVIOUS
  <2>3. IsClimb(S, g, 1..0)
    BY <2>1, <2>2, Zenon DEF IsClimb
  <2> QED BY <2>3
<1>2. ASSUME NEW n \in Nat, n \in Good PROVE n + 1 \in Good
  <2>1. n + 1 <= MaxDirs => n <= MaxDirs
    BY DEF IsTree
  <2> QED BY <1>2, <2>1, ClimbExtends
<1> HIDE DEF Good
<1>3. \A n \in Nat : n \in Good
  BY <1>1, <1>2, AllNumbers
<1>4. MaxDirs \in Good /\ MaxDirs <= MaxDirs
  BY <1>3 DEF IsTree
<1> QED BY <1>4 DEF Good, Settings!Dirs

\* The directories above d are d and those above its parent.
LEMMA AboveIs ==
  ASSUME IsTree, NEW d \in Settings!Dirs, NEW a
  PROVE  Settings!Above(a, d) <=> a = d \/ Settings!Above(a, parent[d])
<1>1. a = d => Settings!Above(a, d)
  BY DEF Settings!Above
<1>2. Settings!Above(a, parent[d]) => Settings!Above(a, d)
  BY Zenon DEF Settings!Above
<1>3. ASSUME Settings!Above(a, d), a # d PROVE Settings!Above(a, parent[d])
  <2>1. SUFFICES ASSUME NEW S \in SUBSET Settings!Dirs, parent[d] \in S,
                        \A e \in S : parent[e] \in S
                 PROVE  a \in S
    BY Zenon DEF Settings!Above
  <2>2. /\ S \cup {d} \in SUBSET Settings!Dirs /\ d \in S \cup {d}
        /\ \A e \in S \cup {d} : parent[e] \in S \cup {d}
    BY <2>1
  <2>3. a \in S \cup {d}
    BY <1>3, <2>2, Zenon DEF Settings!Above
  <2> QED BY <1>3, <2>3
<1> QED BY <1>1, <1>2, <1>3

\* Above is not below.
LEMMA AboveIsLess ==
  ASSUME IsTree, NEW d \in Settings!Dirs, NEW a, Settings!Above(a, d)
  PROVE  a \in Settings!Dirs /\ a <= d
<1> DEFINE S == {e \in Settings!Dirs : e <= d}
<1>1. S \in SUBSET Settings!Dirs /\ d \in S
  BY DEF Settings!Dirs, IsTree
<1>2. ASSUME NEW e \in S PROVE parent[e] \in S
  BY DEF IsTree, Settings!Dirs
<1>3. a \in S
  BY <1>1, <1>2, Zenon DEF Settings!Above
<1> QED BY <1>3

\* r is the nearest directory of S at or above d, or Nowhere.
IsNearest(S, d, r) ==
  /\ r \in Settings!Dirs \cup {Settings!Nowhere}
  /\ r # Settings!Nowhere => r \in S /\ Settings!Above(r, d)
  /\ \A x \in S : Settings!Above(x, d) =>
       r # Settings!Nowhere /\ Settings!Above(x, r)

\* The search finds what it looks for.
LEMMA NearestIsNearest ==
  ASSUME IsTree, NEW S \in SUBSET Settings!Dirs, NEW d \in Settings!Dirs
  PROVE  IsNearest(S, d, Settings!Nearest(S, d))
<1> DEFINE g == CHOOSE g : IsClimb(S, g, Settings!Dirs)
<1>1. IsClimb(S, g, Settings!Dirs)
  BY ClimbExists, Zenon
<1>2. Settings!Nearest(S, d) = g[d]
  BY NearestIsClimb
<1> HIDE DEF g
<1>3. \A e \in Settings!Dirs : g[e] = Climbed(S, g, e)
  BY <1>1, Zenon DEF IsClimb
<1> DEFINE Good == {n \in Nat : \A e \in Settings!Dirs :
                                  e <= n => IsNearest(S, e, g[e])}
<1>4. 0 \in Good
  BY DEF Settings!Dirs
<1>5. ASSUME NEW n \in Nat, n \in Good PROVE n + 1 \in Good
  <2>1. SUFFICES ASSUME NEW e \in Settings!Dirs, e = n + 1
                 PROVE  IsNearest(S, e, g[e])
    <3>1. \A e \in Settings!Dirs : e <= n + 1 <=> e <= n \/ e = n + 1
      BY DEF Settings!Dirs, IsTree
    <3> QED BY <1>5, <2>1, <3>1
  <2>2. CASE e \in S
    <3>1. g[e] = e
      BY <1>3, <2>2, Zenon DEF Climbed
    <3>2. Settings!Above(e, e) /\ e # Settings!Nowhere
      BY <2>1, AboveIs DEF Settings!Nowhere, Settings!Dirs
    <3> QED BY <2>2, <3>1, <3>2, Zenon DEF IsNearest
  <2>3. CASE e \notin S /\ parent[e] = e
    <3>1. g[e] = Settings!Nowhere
      BY <1>3, <2>3, Zenon DEF Climbed
    <3>2. ASSUME NEW x \in S PROVE ~Settings!Above(x, e)
      <4>1. {e} \in SUBSET Settings!Dirs /\ \A f \in {e} : parent[f] \in {e}
        BY <2>3
      <4>2. Settings!Above(x, e) => x \in {e}
        BY <4>1, Zenon DEF Settings!Above
      <4> QED BY <2>3, <4>2
    <3> QED BY <3>1, <3>2, Zenon DEF IsNearest
  <2>4. CASE e \notin S /\ parent[e] # e
    <3>1. g[e] = g[parent[e]]
      BY <1>3, <2>4, Zenon DEF Climbed
    <3>2. parent[e] \in Settings!Dirs /\ parent[e] <= n
      BY <2>1, <2>4 DEF IsTree, Settings!Dirs
    <3>3. IsNearest(S, parent[e], g[parent[e]])
      BY <1>5, <3>2
    <3>4. \A x \in S : Settings!Above(x, e) <=> Settings!Above(x, parent[e])
      BY <2>4, AboveIs
    <3>5. \A r : Settings!Above(r, parent[e]) => Settings!Above(r, e)
      BY AboveIs
    <3> QED BY <3>1, <3>3, <3>4, <3>5, Zenon DEF IsNearest
  <2> QED BY <2>2, <2>3, <2>4
<1> HIDE DEF Good
<1>6. \A n \in Nat : n \in Good
  BY <1>4, <1>5, AllNumbers
<1>7. d \in Good /\ d <= d
  BY <1>6 DEF Settings!Dirs
<1> QED BY <1>2, <1>7 DEF Good

TypedCommand == [kind : Settings!Kinds, arg : Settings!Dirs,
                 root : Settings!Dirs \cup {Settings!Nowhere}, env : Settings!EnvFlag]

\* r is the environment file that counts in the directory d.
IsEnvFile(d, r) ==
  IF cmd.env = "there" THEN r = Settings!Named ELSE IsNearest(envs, d, r)

SettingsInv ==
  /\ Settings!TypeOK /\ IsTree
  /\ {projects, envs} \subseteq SUBSET Settings!Dirs
  /\ cmd \in TypedCommand
  /\ at \notin {"shell", "context", "execution", "env", "failed"} =>
       IsEnvFile(cwd, env)
  /\ at \in {"shell", "context", "execution", "env", "target", "settings"} =>
       project = Settings!Nowhere
  /\ project # Settings!Nowhere => IsNearest(projects, cwd, project)
  /\ Settings!OwnerIsJustified

LEMMA SettingsStart ==
  ASSUME Settings!CommandSettingsAssumption, Settings!Init PROVE SettingsInv
<1>1. IsTree /\ {projects, envs} \subseteq SUBSET Settings!Dirs
  BY DEF Settings!CommandSettingsAssumption, Settings!Init, IsTree
<1>2. 1 \in Settings!Dirs
  BY <1>1 DEF IsTree, Settings!Dirs
<1>3. cmd \in TypedCommand
  BY <1>2 DEF Settings!Init, TypedCommand, Settings!Kinds, Settings!EnvFlag
<1> QED BY <1>1, <1>2, <1>3
     DEF Settings!Init, SettingsInv, Settings!TypeOK, Settings!NoOwner,
         Settings!OwnerIsJustified

\* A file system that stays as it is, and what was found in it.
LEMMA TreeStays ==
  ASSUME SettingsInv, UNCHANGED Settings!tree
  PROVE  /\ IsTree' /\ ({projects, envs} \subseteq SUBSET Settings!Dirs)'
         /\ UNCHANGED <<projects, envs>>
         /\ \A S, d, r : IsNearest(S, d, r) => (IsNearest(S, d, r))'
         /\ \A d, r : IsEnvFile(d, r) /\ UNCHANGED cmd => (IsEnvFile(d, r))'
<1>1. UNCHANGED <<parent, projects, envs>>
  BY DEF Settings!tree
<1>2. ASSUME NEW S, NEW d, NEW r
      PROVE  IsNearest(S, d, r) => (IsNearest(S, d, r))'
  BY <1>1, Zenon DEF IsNearest, Settings!Above
<1>3. ASSUME NEW d, NEW r, UNCHANGED cmd
      PROVE  IsEnvFile(d, r) => (IsEnvFile(d, r))'
  <2>1. IsNearest(envs, d, r) => (IsNearest(envs, d, r))'
    BY <1>1, Zenon DEF IsNearest, Settings!Above
  <2>2. cmd' = cmd
    BY <1>3
  <2> QED BY <2>1, <2>2, Zenon DEF IsEnvFile
<1> QED BY <1>1, <1>2, <1>3 DEF SettingsInv, IsTree

LEMMA FailsKeeps ==
  ASSUME SettingsInv, Settings!Fails PROVE SettingsInv'
<1>1. UNCHANGED <<Settings!tree, cwd, cmd, root, env, target, project, owner>>
      /\ at' = "failed"
  BY DEF Settings!Fails
<1> QED BY <1>1, TreeStays
     DEF SettingsInv, Settings!TypeOK, Settings!OwnerIsJustified

LEMMA InvokeKeeps ==
  ASSUME SettingsInv, Settings!Invoke PROVE SettingsInv'
<1>1. /\ at = "shell" /\ at' = "context" /\ cwd' \in Settings!Dirs
      /\ cmd' \in TypedCommand
      /\ UNCHANGED <<Settings!tree, root, env, target, project, owner>>
  BY DEF Settings!Invoke, TypedCommand
<1> QED BY <1>1, TreeStays
     DEF SettingsInv, Settings!TypeOK, Settings!OwnerIsJustified

LEMMA ProjectKeeps ==
  ASSUME SettingsInv, Settings!SetProjectContext PROVE SettingsInv'
<1> DEFINE r == IF cmd.root # Settings!Nowhere THEN cmd.root
                ELSE Settings!FindProjectSettingsPath(cwd)
<1>1. r \in Settings!Dirs \cup {Settings!Nowhere}
  <2>1. IsNearest(projects, cwd, Settings!Nearest(projects, cwd))
    BY NearestIsNearest DEF SettingsInv, Settings!TypeOK
  <2> QED BY <2>1
     DEF SettingsInv, TypedCommand, IsNearest, Settings!FindProjectSettingsPath
<1>3. CASE Settings!Fails
  BY <1>3, FailsKeeps
<1>5. SUFFICES ASSUME ~Settings!Fails PROVE SettingsInv'
  BY <1>3
<1>2. at = "context" /\ IF r = Settings!Nowhere THEN Settings!Fails
      ELSE /\ at' = "execution" /\ root' = r /\ cwd' = r
           /\ UNCHANGED <<Settings!tree, cmd, env, target, project, owner>>
  BY <1>5, Zenon DEF Settings!SetProjectContext
<1> HIDE DEF r
<1>4. CASE /\ r # Settings!Nowhere /\ at = "context"
           /\ at' = "execution" /\ root' = r /\ cwd' = r
           /\ UNCHANGED <<Settings!tree, cmd, env, target, project, owner>>
  BY <1>1, <1>4, TreeStays
     DEF SettingsInv, Settings!TypeOK, Settings!OwnerIsJustified
<1> QED BY <1>2, <1>4, <1>5

LEMMA ExecutionKeeps ==
  ASSUME SettingsInv, Settings!SetExecutionContext PROVE SettingsInv'
<1>1. CASE Settings!Fails
  BY <1>1, FailsKeeps
<1>2. CASE ~Settings!Fails
  <2>1. /\ at = "execution" /\ at' = "env" /\ cwd' \in Settings!Dirs
        /\ UNCHANGED <<Settings!tree, cmd, root, env, target, project, owner>>
    BY <1>2
       DEF Settings!SetExecutionContext, SettingsInv, Settings!TypeOK, TypedCommand
  <2> QED BY <2>1, TreeStays
       DEF SettingsInv, Settings!TypeOK, Settings!OwnerIsJustified
<1> QED BY <1>1, <1>2

LEMMA EnvKeeps ==
  ASSUME SettingsInv, Settings!LoadEnv PROVE SettingsInv'
<1>1. /\ at = "env" /\ at' = "target" /\ env' = Settings!EnvFile
      /\ UNCHANGED <<Settings!tree, cwd, cmd, root, target, project, owner>>
  BY DEF Settings!LoadEnv
<1>2. IsNearest(envs, cwd, Settings!Nearest(envs, cwd))
  BY NearestIsNearest DEF SettingsInv, Settings!TypeOK
<1>3. IsEnvFile(cwd, env')
  BY <1>1, <1>2, Zenon DEF Settings!EnvFile, IsEnvFile
<1>4. IsEnvFile(cwd, env)'
  <2>1. UNCHANGED <<parent, envs, cwd, cmd>>
    BY <1>1 DEF Settings!tree
  <2> QED BY <1>3, <2>1, Zenon DEF IsEnvFile, IsNearest, Settings!Above
<1>5. env' \in Settings!Dirs \cup {Settings!Nowhere, Settings!Named}
  <2>1. env' = Settings!Named \/ env' = Settings!Nearest(envs, cwd)
    BY <1>1 DEF Settings!EnvFile
  <2> QED BY <1>2, <2>1 DEF IsNearest
<1> QED BY <1>1, <1>4, <1>5, TreeStays
     DEF SettingsInv, Settings!TypeOK, Settings!OwnerIsJustified

LEMMA TargetKeeps ==
  ASSUME SettingsInv, Settings!GetTarget PROVE SettingsInv'
<1>1. CASE Settings!Fails
  BY <1>1, FailsKeeps
<1>2. CASE ~Settings!Fails
  <2>1. /\ at = "target" /\ at' = "settings"
        /\ target' \in Settings!Targets \cup {Settings!Unset}
        /\ UNCHANGED <<Settings!tree, cwd, cmd, root, env, project, owner>>
    BY <1>2 DEF Settings!GetTarget, Settings!First, Settings!Targets
  <2> QED BY <2>1, TreeStays
       DEF SettingsInv, Settings!TypeOK, Settings!OwnerIsJustified
<1> QED BY <1>1, <1>2

LEMMA SettingsKeeps ==
  ASSUME SettingsInv, Settings!LoadSettings PROVE SettingsInv'
<1>1. CASE Settings!Fails
  BY <1>1, FailsKeeps
<1>2. CASE ~Settings!Fails
  <2>1. /\ at = "settings" /\ at' \in {"rpc", "owner"}
        /\ at' = "rpc" => cmd.kind = "simulate"
        /\ project' = Settings!Nearest(projects, cwd)
        /\ UNCHANGED <<Settings!tree, cwd, cmd, root, env, target, owner>>
    BY <1>2
       DEF Settings!LoadSettings, Settings!FindProjectSettingsPath,
           Settings!ShouldSkipGetOwner
  <2>2. IsNearest(projects, cwd, project')
    BY <2>1, NearestIsNearest DEF SettingsInv, Settings!TypeOK
  <2>3. UNCHANGED <<parent, projects, cwd>>
    BY <2>1 DEF Settings!tree
  <2>4. IsNearest(projects, cwd, project)'
    BY <2>2, <2>3, Zenon DEF IsNearest, Settings!Above
  <2>5. project' \in Settings!Dirs \cup {Settings!Nowhere}
    BY <2>2 DEF IsNearest
  <2> QED BY <2>1, <2>4, <2>5, TreeStays
       DEF SettingsInv, Settings!TypeOK, Settings!OwnerIsJustified
<1> QED BY <1>1, <1>2

LEMMA OwnerKeeps ==
  ASSUME Settings!CommandSettingsAssumption, SettingsInv, Settings!GetWorkflowOwner
  PROVE  SettingsInv'
<1>1. CASE Settings!Fails
  BY <1>1, FailsKeeps
<1>2. CASE ~Settings!Fails
  <2>1. PICK unsigned, changeset \in Settings!FlagBool, configured \in {Mine, Other, Nobody},
             key \in {Mine, Nobody} :
          LET given == unsigned # Settings!Unset \/ changeset # Settings!Unset
              act(a, type) ==
                /\ owner' = [address |-> a, settings |-> configured, type |-> type]
                /\ at' = "rpc"
                /\ UNCHANGED <<Settings!tree, cwd, cmd, root, env, target, project>>
          IN \/ given /\ configured # Nobody /\ act(configured, "MSIG")
             \/ given /\ configured = Nobody /\ Settings!Fails
             \/ ~given /\ key = Mine /\ Settings!Matches(configured, key) /\ act(key, "EOA")
             \/ ~given /\ (key = Nobody \/ ~Settings!Matches(configured, key)) /\ Settings!Fails
    BY Zenon DEF Settings!GetWorkflowOwner
  <2>2. \/ /\ configured # Nobody
           /\ owner' = [address |-> configured, settings |-> configured,
                        type |-> "MSIG"]
        \/ /\ configured \in {Nobody, Mine}
           /\ owner' = [address |-> Mine, settings |-> configured, type |-> "EOA"]
    BY <1>2, <2>1, Zenon DEF Settings!Matches
  <2>3. Settings!OwnerIsJustified' /\ owner'.type \in {"EOA", "MSIG"}
    BY <2>2 DEF Settings!OwnerIsJustified
  <2>4. /\ at = "owner" /\ at' = "rpc"
        /\ UNCHANGED <<Settings!tree, cwd, cmd, root, env, target, project>>
    BY <1>2, <2>1, Zenon DEF Settings!GetWorkflowOwner
  <2> QED BY <2>3, <2>4, TreeStays DEF SettingsInv, Settings!TypeOK
<1> QED BY <1>1, <1>2

LEMMA ValidateKeeps ==
  ASSUME SettingsInv, Settings!ValidateSettings PROVE SettingsInv'
<1>1. CASE Settings!Fails
  BY <1>1, FailsKeeps
<1>2. CASE ~Settings!Fails
  <2>1. /\ at = "rpc" /\ at' = "ready"
        /\ UNCHANGED <<Settings!tree, cwd, cmd, root, env, target, project, owner>>
    BY <1>2 DEF Settings!ValidateSettings
  <2> QED BY <2>1, TreeStays
       DEF SettingsInv, Settings!TypeOK, Settings!OwnerIsJustified
<1> QED BY <1>1, <1>2

LEMMA SettingsStep ==
  ASSUME Settings!CommandSettingsAssumption, SettingsInv,
         [Settings!Next]_(Settings!vars)
  PROVE  SettingsInv'
<1>1. CASE UNCHANGED Settings!vars
  <2>1. /\ UNCHANGED Settings!tree
        /\ UNCHANGED <<at, cwd, cmd, root, env, target, project, owner>>
    BY <1>1 DEF Settings!vars
  <2> QED BY <2>1, TreeStays
       DEF SettingsInv, Settings!TypeOK, Settings!OwnerIsJustified
<1> QED BY <1>1, InvokeKeeps, ProjectKeeps, ExecutionKeeps, EnvKeeps,
           TargetKeeps, SettingsKeeps, OwnerKeeps, ValidateKeeps
        DEF Settings!Next

LEMMA SettingsShow ==
  ASSUME SettingsInv
  PROVE  /\ Settings!TypeOK /\ Settings!EnvIsRight
         /\ Settings!SettingsOfTheProject /\ Settings!OwnerIsJustified
<1>1. Settings!EnvIsRight
  BY Zenon DEF SettingsInv, IsEnvFile, IsNearest, Settings!EnvIsRight
<1>2. Settings!SettingsOfTheProject
  <2>1. SUFFICES ASSUME project # Settings!Nowhere, root \in projects,
                        Settings!Above(root, cwd),
                        \A d \in projects :
                          Settings!Above(d, cwd) => Settings!Above(d, root)
                 PROVE  project = root
    BY Zenon DEF Settings!SettingsOfTheProject
  <2>2. Settings!Above(root, project) /\ Settings!Above(project, root)
    BY <2>1, Zenon DEF SettingsInv, IsNearest
  <2>3. project \in Settings!Dirs /\ root \in Settings!Dirs /\ IsTree
    BY <2>1 DEF SettingsInv, Settings!TypeOK
  <2>4. project <= root /\ root <= project
    BY <2>2, <2>3, AboveIsLess
  <2> QED BY <2>3, <2>4 DEF Settings!Dirs
<1> QED BY <1>1, <1>2 DEF SettingsInv

SettingsToolInv == On("settings") => SettingsInv

LEMMA SettingsSteps ==
  ASSUME On("settings"), [Next]_vars PROVE [Settings!Next]_(Settings!vars)
  BY DEF On, Next, vars, settingsVars, Settings!vars, Settings!tree

LEMMA SettingsInvariant == Spec => []SettingsToolInv
<1>1. Settings!CommandSettingsAssumption
  BY RecordCommandsAssumption DEF RecordCommandsAssumption
<1>2. Init => SettingsToolInv
  BY <1>1, SettingsStart DEF Init, SettingsToolInv
<1>3. SettingsToolInv /\ [Next]_vars => SettingsToolInv'
  BY <1>1, ConfigStays, SettingsSteps, SettingsStep DEF SettingsToolInv, On
<1> QED BY <1>2, <1>3, PTL DEF Spec

\* In every tree of directories, the environment file is the one --env names if
\* that is there and the nearest one otherwise, the project settings are those of
\* the project the command changed to, and a command other than a simulation that
\* broadcasts nothing acts for an account that the settings do not contradict.
THEOREM SettingsAreSound == Spec => []SettingsAreJustified
<1>1. SettingsToolInv => SettingsAreJustified
  BY SettingsShow DEF SettingsToolInv, SettingsAreJustified
<1> QED BY <1>1, SettingsInvariant, PTL
-----------------------------------------------------------------------------
(* The groups that are proved about in modules of their own *)

RegularP == INSTANCE WorkflowCommandsProofs WITH
  Type <- "regular", SkipConfirmation <- FALSE, MaxActive <- 1, MaxBlock <- 3
OfflineP == INSTANCE WorkflowCommandsProofs WITH
  Type <- "raw", SkipConfirmation <- FALSE, MaxActive <- 1, MaxBlock <- 3,
  Procs <- OneProc
ChangesetP == INSTANCE WorkflowCommandsProofs WITH
  Type <- "changeset", SkipConfirmation <- FALSE, MaxActive <- 1, MaxBlock <- 3,
  Procs <- OneProc
LEMMA RegularPIsModule ==
  /\ Regular!WorkflowCommandsAssumption => RegularP!WorkflowCommandsAssumption
  /\ Regular!Init => RegularP!Init
  /\ [Regular!Next]_(Regular!vars) => [RegularP!Next]_(RegularP!vars)
  BY ZenonT(60) DEF
     Regular!Cardinality, RegularP!Cardinality, Regular!IsFiniteSet,
     RegularP!IsFiniteSet, Regular!TxTypes, RegularP!TxTypes,
     Regular!WorkflowCommandsAssumption, RegularP!WorkflowCommandsAssumption,
     Regular!NoTx, RegularP!NoTx, Regular!NoName, RegularP!NoName,
     Regular!chainVars, RegularP!chainVars, Regular!outVars,
     RegularP!outVars, Regular!vars, RegularP!vars, Regular!CliTag,
     RegularP!CliTag, Regular!OtherTag, RegularP!OtherTag, Regular!Id,
     RegularP!Id, Regular!Listed, RegularP!Listed, Regular!Active,
     RegularP!Active, Regular!AfterUpsert, RegularP!AfterUpsert,
     Regular!SetStatus, RegularP!SetStatus, Regular!After, RegularP!After,
     Regular!Registered, RegularP!Registered, Regular!Accepts,
     RegularP!Accepts, Regular!Announces, RegularP!Announces, Regular!Land,
     RegularP!Land, Regular!OtherClient, RegularP!OtherClient,
     Regular!MineLate, RegularP!MineLate, Regular!SubmitPrepared,
     RegularP!SubmitPrepared, Regular!ApplyChangeset,
     RegularP!ApplyChangeset, Regular!Record, RegularP!Record, Regular!Idle,
     RegularP!Idle, Regular!NewCommand, RegularP!NewCommand, Regular!At,
     RegularP!At, Regular!Goto, RegularP!Goto, Regular!Finish,
     RegularP!Finish, Regular!LocalStep, RegularP!LocalStep, Regular!Start,
     RegularP!Start, Regular!StartDeploy, RegularP!StartDeploy,
     Regular!StartActivate, RegularP!StartActivate, Regular!StartPause,
     RegularP!StartPause, Regular!StartDelete, RegularP!StartDelete,
     Regular!ClientFails, RegularP!ClientFails, Regular!Connect,
     RegularP!Connect, Regular!ReadFails, RegularP!ReadFails,
     Regular!SeenStatus, RegularP!SeenStatus, Regular!DeployLookup,
     RegularP!DeployLookup, Regular!PendingFor, RegularP!PendingFor,
     Regular!CountSameName, RegularP!CountSameName, Regular!WithinLimit,
     RegularP!WithinLimit, Regular!CheckQuota, RegularP!CheckQuota,
     Regular!Upload, RegularP!Upload, Regular!Latest, RegularP!Latest,
     Regular!ActivateLookup, RegularP!ActivateLookup, Regular!Pausable,
     RegularP!Pausable, Regular!PauseLookup, RegularP!PauseLookup,
     Regular!DeleteLookup, RegularP!DeleteLookup, Regular!Confirm,
     RegularP!Confirm, Regular!UpsertTx, RegularP!UpsertTx,
     Regular!ActivateTx, RegularP!ActivateTx, Regular!PauseTx,
     RegularP!PauseTx, Regular!DeleteTx, RegularP!DeleteTx, Regular!NextTxs,
     RegularP!NextTxs, Regular!Send, RegularP!Send, Regular!IsChangeset,
     RegularP!IsChangeset, Regular!Report, RegularP!Report, Regular!Ready,
     RegularP!Ready, Regular!SubmitUpsert, RegularP!SubmitUpsert,
     Regular!SubmitActivate, RegularP!SubmitActivate, Regular!SubmitPause,
     RegularP!SubmitPause, Regular!DeleteFailed, RegularP!DeleteFailed,
     Regular!MaybeFirst, RegularP!MaybeFirst, Regular!SubmitDelete,
     RegularP!SubmitDelete, Regular!ReadChangesets, RegularP!ReadChangesets,
     Regular!Rewritten, RegularP!Rewritten, Regular!WriteChangesets,
     RegularP!WriteChangesets, Regular!Init, RegularP!Init, Regular!Step,
     RegularP!Step, Regular!Next, RegularP!Next, Regular!TxOutcomes,
     RegularP!TxOutcomes, Regular!ReceiptResult, RegularP!ReceiptResult,
     Regular!TxResults, RegularP!TxResults, Regular!Landed, RegularP!Landed,
     Regular!Succeeded, RegularP!Succeeded

LEMMA OfflinePIsModule ==
  /\ Offline!WorkflowCommandsAssumption => OfflineP!WorkflowCommandsAssumption
  /\ Offline!Init => OfflineP!Init
  /\ [Offline!Next]_(Offline!vars) => [OfflineP!Next]_(OfflineP!vars)
  BY ZenonT(60) DEF
     Offline!Cardinality, OfflineP!Cardinality, Offline!IsFiniteSet,
     OfflineP!IsFiniteSet, Offline!TxTypes, OfflineP!TxTypes,
     Offline!WorkflowCommandsAssumption, OfflineP!WorkflowCommandsAssumption,
     Offline!NoTx, OfflineP!NoTx, Offline!NoName, OfflineP!NoName,
     Offline!chainVars, OfflineP!chainVars, Offline!outVars,
     OfflineP!outVars, Offline!vars, OfflineP!vars, Offline!CliTag,
     OfflineP!CliTag, Offline!OtherTag, OfflineP!OtherTag, Offline!Id,
     OfflineP!Id, Offline!Listed, OfflineP!Listed, Offline!Active,
     OfflineP!Active, Offline!AfterUpsert, OfflineP!AfterUpsert,
     Offline!SetStatus, OfflineP!SetStatus, Offline!After, OfflineP!After,
     Offline!Registered, OfflineP!Registered, Offline!Accepts,
     OfflineP!Accepts, Offline!Announces, OfflineP!Announces, Offline!Land,
     OfflineP!Land, Offline!OtherClient, OfflineP!OtherClient,
     Offline!MineLate, OfflineP!MineLate, Offline!SubmitPrepared,
     OfflineP!SubmitPrepared, Offline!ApplyChangeset,
     OfflineP!ApplyChangeset, Offline!Record, OfflineP!Record, Offline!Idle,
     OfflineP!Idle, Offline!NewCommand, OfflineP!NewCommand, Offline!At,
     OfflineP!At, Offline!Goto, OfflineP!Goto, Offline!Finish,
     OfflineP!Finish, Offline!LocalStep, OfflineP!LocalStep, Offline!Start,
     OfflineP!Start, Offline!StartDeploy, OfflineP!StartDeploy,
     Offline!StartActivate, OfflineP!StartActivate, Offline!StartPause,
     OfflineP!StartPause, Offline!StartDelete, OfflineP!StartDelete,
     Offline!ClientFails, OfflineP!ClientFails, Offline!Connect,
     OfflineP!Connect, Offline!ReadFails, OfflineP!ReadFails,
     Offline!SeenStatus, OfflineP!SeenStatus, Offline!DeployLookup,
     OfflineP!DeployLookup, Offline!PendingFor, OfflineP!PendingFor,
     Offline!CountSameName, OfflineP!CountSameName, Offline!WithinLimit,
     OfflineP!WithinLimit, Offline!CheckQuota, OfflineP!CheckQuota,
     Offline!Upload, OfflineP!Upload, Offline!Latest, OfflineP!Latest,
     Offline!ActivateLookup, OfflineP!ActivateLookup, Offline!Pausable,
     OfflineP!Pausable, Offline!PauseLookup, OfflineP!PauseLookup,
     Offline!DeleteLookup, OfflineP!DeleteLookup, Offline!Confirm,
     OfflineP!Confirm, Offline!UpsertTx, OfflineP!UpsertTx,
     Offline!ActivateTx, OfflineP!ActivateTx, Offline!PauseTx,
     OfflineP!PauseTx, Offline!DeleteTx, OfflineP!DeleteTx, Offline!NextTxs,
     OfflineP!NextTxs, Offline!Send, OfflineP!Send, Offline!IsChangeset,
     OfflineP!IsChangeset, Offline!Report, OfflineP!Report, Offline!Ready,
     OfflineP!Ready, Offline!SubmitUpsert, OfflineP!SubmitUpsert,
     Offline!SubmitActivate, OfflineP!SubmitActivate, Offline!SubmitPause,
     OfflineP!SubmitPause, Offline!DeleteFailed, OfflineP!DeleteFailed,
     Offline!MaybeFirst, OfflineP!MaybeFirst, Offline!SubmitDelete,
     OfflineP!SubmitDelete, Offline!ReadChangesets, OfflineP!ReadChangesets,
     Offline!Rewritten, OfflineP!Rewritten, Offline!WriteChangesets,
     OfflineP!WriteChangesets, Offline!Init, OfflineP!Init, Offline!Step,
     OfflineP!Step, Offline!Next, OfflineP!Next, Offline!TxOutcomes,
     OfflineP!TxOutcomes, Offline!ReceiptResult, OfflineP!ReceiptResult,
     Offline!TxResults, OfflineP!TxResults, Offline!Landed, OfflineP!Landed,
     Offline!Succeeded, OfflineP!Succeeded

LEMMA ChangesetPIsModule ==
  /\ Changeset!WorkflowCommandsAssumption => ChangesetP!WorkflowCommandsAssumption
  /\ Changeset!Init => ChangesetP!Init
  /\ [Changeset!Next]_(Changeset!vars) => [ChangesetP!Next]_(ChangesetP!vars)
  BY ZenonT(60) DEF
     Changeset!Cardinality, ChangesetP!Cardinality, Changeset!IsFiniteSet,
     ChangesetP!IsFiniteSet, Changeset!TxTypes, ChangesetP!TxTypes,
     Changeset!WorkflowCommandsAssumption,
     ChangesetP!WorkflowCommandsAssumption, Changeset!NoTx, ChangesetP!NoTx,
     Changeset!NoName, ChangesetP!NoName, Changeset!chainVars,
     ChangesetP!chainVars, Changeset!outVars, ChangesetP!outVars,
     Changeset!vars, ChangesetP!vars, Changeset!CliTag, ChangesetP!CliTag,
     Changeset!OtherTag, ChangesetP!OtherTag, Changeset!Id, ChangesetP!Id,
     Changeset!Listed, ChangesetP!Listed, Changeset!Active,
     ChangesetP!Active, Changeset!AfterUpsert, ChangesetP!AfterUpsert,
     Changeset!SetStatus, ChangesetP!SetStatus, Changeset!After,
     ChangesetP!After, Changeset!Registered, ChangesetP!Registered,
     Changeset!Accepts, ChangesetP!Accepts, Changeset!Announces,
     ChangesetP!Announces, Changeset!Land, ChangesetP!Land,
     Changeset!OtherClient, ChangesetP!OtherClient, Changeset!MineLate,
     ChangesetP!MineLate, Changeset!SubmitPrepared,
     ChangesetP!SubmitPrepared, Changeset!ApplyChangeset,
     ChangesetP!ApplyChangeset, Changeset!Record, ChangesetP!Record,
     Changeset!Idle, ChangesetP!Idle, Changeset!NewCommand,
     ChangesetP!NewCommand, Changeset!At, ChangesetP!At, Changeset!Goto,
     ChangesetP!Goto, Changeset!Finish, ChangesetP!Finish,
     Changeset!LocalStep, ChangesetP!LocalStep, Changeset!Start,
     ChangesetP!Start, Changeset!StartDeploy, ChangesetP!StartDeploy,
     Changeset!StartActivate, ChangesetP!StartActivate, Changeset!StartPause,
     ChangesetP!StartPause, Changeset!StartDelete, ChangesetP!StartDelete,
     Changeset!ClientFails, ChangesetP!ClientFails, Changeset!Connect,
     ChangesetP!Connect, Changeset!ReadFails, ChangesetP!ReadFails,
     Changeset!SeenStatus, ChangesetP!SeenStatus, Changeset!DeployLookup,
     ChangesetP!DeployLookup, Changeset!PendingFor, ChangesetP!PendingFor,
     Changeset!CountSameName, ChangesetP!CountSameName,
     Changeset!WithinLimit, ChangesetP!WithinLimit, Changeset!CheckQuota,
     ChangesetP!CheckQuota, Changeset!Upload, ChangesetP!Upload,
     Changeset!Latest, ChangesetP!Latest, Changeset!ActivateLookup,
     ChangesetP!ActivateLookup, Changeset!Pausable, ChangesetP!Pausable,
     Changeset!PauseLookup, ChangesetP!PauseLookup, Changeset!DeleteLookup,
     ChangesetP!DeleteLookup, Changeset!Confirm, ChangesetP!Confirm,
     Changeset!UpsertTx, ChangesetP!UpsertTx, Changeset!ActivateTx,
     ChangesetP!ActivateTx, Changeset!PauseTx, ChangesetP!PauseTx,
     Changeset!DeleteTx, ChangesetP!DeleteTx, Changeset!NextTxs,
     ChangesetP!NextTxs, Changeset!Send, ChangesetP!Send,
     Changeset!IsChangeset, ChangesetP!IsChangeset, Changeset!Report,
     ChangesetP!Report, Changeset!Ready, ChangesetP!Ready,
     Changeset!SubmitUpsert, ChangesetP!SubmitUpsert,
     Changeset!SubmitActivate, ChangesetP!SubmitActivate,
     Changeset!SubmitPause, ChangesetP!SubmitPause, Changeset!DeleteFailed,
     ChangesetP!DeleteFailed, Changeset!MaybeFirst, ChangesetP!MaybeFirst,
     Changeset!SubmitDelete, ChangesetP!SubmitDelete,
     Changeset!ReadChangesets, ChangesetP!ReadChangesets,
     Changeset!Rewritten, ChangesetP!Rewritten, Changeset!WriteChangesets,
     ChangesetP!WriteChangesets, Changeset!Init, ChangesetP!Init,
     Changeset!Step, ChangesetP!Step, Changeset!Next, ChangesetP!Next,
     Changeset!TxOutcomes, ChangesetP!TxOutcomes, Changeset!ReceiptResult,
     ChangesetP!ReceiptResult, Changeset!TxResults, ChangesetP!TxResults,
     Changeset!Landed, ChangesetP!Landed, Changeset!Succeeded,
     ChangesetP!Succeeded

LEMMA RegularPIsSame ==
  /\ RegularP!PauseNotUndone => Regular!PauseNotUndone
  /\ RegularP!ChecksSuffice => Regular!ChecksSuffice
  /\ RegularP!RefusalsJustified => Regular!RefusalsJustified
  /\ RegularP!SuccessMeansDone => Regular!SuccessMeansDone
  BY Zenon DEF
     Regular!Cardinality, RegularP!Cardinality, Regular!At, RegularP!At,
     Regular!NextTxs, RegularP!NextTxs, Regular!UpsertTx, RegularP!UpsertTx,
     Regular!ActivateTx, RegularP!ActivateTx, Regular!PauseTx,
     RegularP!PauseTx, Regular!DeleteTx, RegularP!DeleteTx, Regular!Accepts,
     RegularP!Accepts, Regular!Announces, RegularP!Announces, Regular!After,
     RegularP!After, Regular!AfterUpsert, RegularP!AfterUpsert,
     Regular!SetStatus, RegularP!SetStatus, Regular!Registered,
     RegularP!Registered, Regular!Active, RegularP!Active, Regular!Id,
     RegularP!Id, Regular!CliTag, RegularP!CliTag, Regular!ChecksSuffice,
     RegularP!ChecksSuffice, Regular!PauseNotUndone, RegularP!PauseNotUndone,
     Regular!RefusalsJustified, RegularP!RefusalsJustified,
     Regular!SuccessMeansDone, RegularP!SuccessMeansDone, Regular!Gone,
     RegularP!Gone

LEMMA OfflinePIsSame ==
  /\ OfflineP!PauseNotUndone => Offline!PauseNotUndone
  /\ OfflineP!ChecksSuffice => Offline!ChecksSuffice
  BY Zenon DEF
     Offline!Cardinality, OfflineP!Cardinality, Offline!At, OfflineP!At,
     Offline!NextTxs, OfflineP!NextTxs, Offline!UpsertTx, OfflineP!UpsertTx,
     Offline!ActivateTx, OfflineP!ActivateTx, Offline!PauseTx,
     OfflineP!PauseTx, Offline!DeleteTx, OfflineP!DeleteTx, Offline!Accepts,
     OfflineP!Accepts, Offline!Announces, OfflineP!Announces, Offline!After,
     OfflineP!After, Offline!AfterUpsert, OfflineP!AfterUpsert,
     Offline!SetStatus, OfflineP!SetStatus, Offline!Registered,
     OfflineP!Registered, Offline!Active, OfflineP!Active, Offline!Id,
     OfflineP!Id, Offline!CliTag, OfflineP!CliTag, Offline!ChecksSuffice,
     OfflineP!ChecksSuffice, Offline!PauseNotUndone, OfflineP!PauseNotUndone

LEMMA ChangesetPIsSame ==
  /\ ChangesetP!PauseNotUndone => Changeset!PauseNotUndone
  /\ ChangesetP!AppendedStays => Changeset!AppendedStays
  BY Zenon DEF
     Changeset!PauseNotUndone, ChangesetP!PauseNotUndone,
     Changeset!AppendedStays, ChangesetP!AppendedStays
-----------------------------------------------------------------------------
(* Registering workflows *)

CommandsInv ==
  /\ On("regular") => RegularP!WorkInv
  /\ On("offline") => OfflineP!WorkInv
  /\ On("changeset") => ChangesetP!WorkInv

LEMMA CommandsAssumptions ==
  /\ RegularP!WorkflowCommandsAssumption
  /\ OfflineP!WorkflowCommandsAssumption
  /\ ChangesetP!WorkflowCommandsAssumption
  BY RecordCommandsAssumption, RegularPIsModule, OfflinePIsModule,
     ChangesetPIsModule DEF RecordCommandsAssumption

\* The groups that register workflows step as their modules do.
LEMMA CommandsSteps ==
  ASSUME [Next]_vars
  PROVE  /\ On("regular") => [RegularP!Next]_(RegularP!vars)
         /\ On("offline") => [OfflineP!Next]_(OfflineP!vars)
         /\ On("changeset") => [ChangesetP!Next]_(ChangesetP!vars)
  BY RegularSteps, OfflineSteps, ChangesetSteps, RegularPIsModule,
     OfflinePIsModule, ChangesetPIsModule

LEMMA CommandsInvariant == Spec => []CommandsInv
<1>1. Init => CommandsInv
  BY CommandsAssumptions, RegularPIsModule, OfflinePIsModule,
     ChangesetPIsModule, RegularP!InitInv, OfflineP!InitInv,
     ChangesetP!InitInv DEF Init, CommandsInv
<1>2. CommandsInv /\ [Next]_vars => CommandsInv'
  <2>1. SUFFICES ASSUME CommandsInv, [Next]_vars PROVE CommandsInv'
    OBVIOUS
  <2>2. On("regular") => RegularP!WorkInv'
    BY <2>1, CommandsAssumptions, CommandsSteps, RegularP!StepInv
       DEF CommandsInv
  <2>3. On("offline") => OfflineP!WorkInv'
    BY <2>1, CommandsAssumptions, CommandsSteps, OfflineP!StepInv
       DEF CommandsInv
  <2>4. On("changeset") => ChangesetP!WorkInv'
    BY <2>1, CommandsAssumptions, CommandsSteps, ChangesetP!StepInv
       DEF CommandsInv
  <2> QED BY <2>1, <2>2, <2>3, <2>4, ConfigStays DEF CommandsInv, On
<1> QED BY <1>1, <1>2, PTL DEF Spec

\* A paused workflow starts running again only by an activate, or by a deploy
\* that looked at the registry before the pause.
THEOREM PausesAreKept == Spec => PauseNotUndone
<1> DEFINE Kept == /\ On("regular") => Regular!PauseNotUndone
                   /\ On("offline") => Offline!PauseNotUndone
                   /\ On("changeset") => Changeset!PauseNotUndone
<1>1. CommandsInv /\ [Next]_vars => [Kept]_vars
  <2>1. SUFFICES ASSUME CommandsInv, [Next]_vars PROVE Kept
    OBVIOUS
  <2>2. On("regular") => RegularP!PauseNotUndone
    BY <2>1, CommandsAssumptions, CommandsSteps, RegularP!PausesStay
       DEF CommandsInv
  <2>3. On("offline") => OfflineP!PauseNotUndone
    BY <2>1, CommandsAssumptions, CommandsSteps, OfflineP!PausesStay
       DEF CommandsInv
  <2>4. On("changeset") => ChangesetP!PauseNotUndone
    BY <2>1, CommandsAssumptions, CommandsSteps, ChangesetP!PausesStay
       DEF CommandsInv
  <2> QED BY <2>2, <2>3, <2>4, RegularPIsSame, OfflinePIsSame, ChangesetPIsSame
<1> QED BY <1>1, CommandsInvariant, PTL DEF Spec, PauseNotUndone

\* What passes the checks of a command is accepted and announced, and what they
\* refuse for the quota would have been rejected.
THEOREM ChecksMatch == Spec => ChecksMatchContract
<1> DEFINE Suffice == /\ On("regular") => Regular!ChecksSuffice
                      /\ On("offline") => Offline!ChecksSuffice
<1>1. CommandsInv => Suffice
  <2>1. SUFFICES ASSUME CommandsInv PROVE Suffice
    OBVIOUS
  <2>2. On("regular") => RegularP!ChecksSuffice
    BY <2>1, CommandsAssumptions, RegularP!ChecksFit DEF CommandsInv
  <2>3. On("offline") => OfflineP!ChecksSuffice
    BY <2>1, CommandsAssumptions, OfflineP!ChecksFit DEF CommandsInv
  <2> QED BY <2>2, <2>3, RegularPIsSame, OfflinePIsSame
<1>2. CommandsInv /\ [Next]_vars =>
        (On("regular") => Regular!RefusalsJustified)
  <2>1. SUFFICES ASSUME CommandsInv, [Next]_vars, On("regular")
                 PROVE  Regular!RefusalsJustified
    OBVIOUS
  <2>2. RegularP!RefusalsJustified
    BY <2>1, CommandsAssumptions, CommandsSteps, RegularP!RefusalsFit
       DEF CommandsInv
  <2> QED BY <2>2, RegularPIsSame
<1>3. CommandsInv /\ Suffice' /\ [Next]_vars =>
        [/\ On("regular") => Regular!ChecksSuffice' /\ Regular!RefusalsJustified
         /\ On("offline") => Offline!ChecksSuffice']_vars
  <2>1. SUFFICES ASSUME CommandsInv, Suffice', [Next]_vars
        PROVE  /\ On("regular") => Regular!ChecksSuffice' /\ Regular!RefusalsJustified
               /\ On("offline") => Offline!ChecksSuffice'
    OBVIOUS
  <2>2. On("regular")' = On("regular") /\ On("offline")' = On("offline")
    BY <2>1, ConfigStays DEF On
  <2> QED BY <1>2, <2>1, <2>2
<1> QED BY <1>1, <1>3, CommandsInvariant, PTL DEF Spec, ChecksMatchContract
-----------------------------------------------------------------------------
(* The tool as a whole *)

LEMMA RegularPTypes == RegularP!TypeOK => Regular!TypeOK
  BY Zenon DEF
     Regular!Cardinality, RegularP!Cardinality, Regular!Active,
     RegularP!Active, Regular!CliTag, RegularP!CliTag, Regular!OtherTag,
     RegularP!OtherTag, Regular!NoTx, RegularP!NoTx, Regular!NoName,
     RegularP!NoName, Regular!Versions, RegularP!Versions, Regular!Ids,
     RegularP!Ids, Regular!Entry, RegularP!Entry, Regular!Transaction,
     RegularP!Transaction, Regular!Phases, RegularP!Phases, Regular!Results,
     RegularP!Results, Regular!Command, RegularP!Command, Regular!TypeOK,
     RegularP!TypeOK
LEMMA OfflinePTypes == OfflineP!TypeOK => Offline!TypeOK
  BY Zenon DEF
     Offline!Cardinality, OfflineP!Cardinality, Offline!Active,
     OfflineP!Active, Offline!CliTag, OfflineP!CliTag, Offline!OtherTag,
     OfflineP!OtherTag, Offline!NoTx, OfflineP!NoTx, Offline!NoName,
     OfflineP!NoName, Offline!Versions, OfflineP!Versions, Offline!Ids,
     OfflineP!Ids, Offline!Entry, OfflineP!Entry, Offline!Transaction,
     OfflineP!Transaction, Offline!Phases, OfflineP!Phases, Offline!Results,
     OfflineP!Results, Offline!Command, OfflineP!Command, Offline!TypeOK,
     OfflineP!TypeOK
LEMMA ChangesetPTypes == ChangesetP!TypeOK => Changeset!TypeOK
  BY Zenon DEF
     Changeset!Cardinality, ChangesetP!Cardinality, Changeset!Active,
     ChangesetP!Active, Changeset!CliTag, ChangesetP!CliTag,
     Changeset!OtherTag, ChangesetP!OtherTag, Changeset!NoTx, ChangesetP!NoTx,
     Changeset!NoName, ChangesetP!NoName, Changeset!Versions,
     ChangesetP!Versions, Changeset!Ids, ChangesetP!Ids, Changeset!Entry,
     ChangesetP!Entry, Changeset!Transaction, ChangesetP!Transaction,
     Changeset!Phases, ChangesetP!Phases, Changeset!Results,
     ChangesetP!Results, Changeset!Command, ChangesetP!Command,
     Changeset!TypeOK, ChangesetP!TypeOK
\* What every group keeps to itself has the types of its module: the registry
\* never runs more than the contract allows, a cached release is one that was
\* published, and so on.
THEOREM TypesAreKept == Spec => []TypeOK
<1> DEFINE Inv == /\ CommandsInv /\ SessionToolInv /\ ProjectToolInv
                  /\ UpdateToolInv /\ SettingsToolInv
<1>1. Inv => TypeOK
  <2> SUFFICES ASSUME Inv PROVE TypeOK
    OBVIOUS
  <2>1. /\ On("regular") => Regular!TypeOK
        /\ On("offline") => Offline!TypeOK
        /\ On("changeset") => Changeset!TypeOK
    BY RegularP!InvType, OfflineP!InvType, ChangesetP!InvType, RegularPTypes,
       OfflinePTypes, ChangesetPTypes DEF CommandsInv
  <2>2. /\ On("session") => Tool!TypeOK
        /\ On("init") => InitCmd!TypeOK
        /\ On("update") => Update!TypeOK
    BY DEF SessionToolInv, SessionInv, ProjectToolInv, ProjectInv,
           UpdateToolInv, UpdateInv
  <2>3. On("settings") => Settings!TypeOK
    BY RecordCommandsAssumption, SettingsShow
       DEF RecordCommandsAssumption, SettingsToolInv
  <2> QED BY <2>1, <2>2, <2>3 DEF TypeOK
<1> QED BY <1>1, CommandsInvariant, SessionInvariant, ProjectInvariant,
           UpdateInvariant, SettingsInvariant, PTL

\* A project that was initialised is complete.
LEMMA ProjectShows ==
  ASSUME ProjectInv PROVE InitCmd!SuccessIsComplete
<1> SUFFICES ASSUME cmd.at = "ok"
             PROVE  /\ \A f \in {InitCmd!Root("project.yaml"),
                                 InitCmd!Root(".env")}
                                \cup InitCmd!WorkflowFiles(cmd.wf) :
                         InitCmd!Present(f)
                    /\ cmd.template.lang = "Golang" =>
                         InitCmd!Present(InitCmd!Root("go.mod"))
  BY DEF InitCmd!SuccessIsComplete
<1>1. HasSettings /\ HasEnv
  BY DEF HasSettings, HasEnv, MadeSteps
<1>2. /\ InitCmd!Present(InitCmd!Root("project.yaml"))
      /\ InitCmd!Present(InitCmd!Root(".env"))
      /\ InitCmd!Present(<<cmd.wf, "code">>)
      /\ InitCmd!Present(<<cmd.wf, "workflow.yaml">>)
      /\ cmd.template.lang = "Golang" => InitCmd!Present(InitCmd!Root("go.mod"))
  BY <1>1 DEF ProjectInv, InitFilesInv
<1>3. \A f \in InitCmd!WorkflowFiles(cmd.wf) :
        f = <<cmd.wf, "code">> \/ f = <<cmd.wf, "workflow.yaml">>
  BY DEF InitCmd!WorkflowFiles
<1> QED BY <1>2, <1>3, Zenon

\* The changesets of commands that run one after the other.
FileToolInv(p) == On("changeset") => ChangesetP!FileInv(p)

LEMMA FileInvariant ==
  ASSUME NEW p, OneProc = {p} PROVE Spec => []FileToolInv(p)
<1>1. Init => FileToolInv(p)
  <2>1. SUFFICES ASSUME Init, On("changeset") PROVE ChangesetP!FileInv(p)
    BY DEF FileToolInv
  <2>2. ChangesetP!Init
    BY <2>1, ChangesetPIsModule DEF Init
  <2> QED BY <2>2 DEF ChangesetP!Init, ChangesetP!Idle, ChangesetP!Record,
                      ChangesetP!FileInv, ChangesetP!At
<1>2. CommandsInv /\ FileToolInv(p) /\ [Next]_vars => FileToolInv(p)'
  <2>1. SUFFICES ASSUME CommandsInv, FileToolInv(p), [Next]_vars,
                        On("changeset")'
                 PROVE  ChangesetP!FileInv(p)'
    BY DEF FileToolInv
  <2>2. On("changeset")
    BY <2>1, ConfigStays DEF On
  <2>3. ChangesetP!WorkInv /\ ChangesetP!FileInv(p)
    BY <2>1, <2>2 DEF CommandsInv, FileToolInv
  <2>4. [ChangesetP!Next]_(ChangesetP!vars) /\ p \in OneProc
    BY <2>1, <2>2, CommandsSteps
  <2> QED BY <2>3, <2>4, CommandsAssumptions, ChangesetP!FileKept
<1> QED BY <1>1, <1>2, CommandsInvariant, PTL DEF Spec

\* A command that reports success has done what it was asked; changesets are
\* written by commands that run one after the other.
THEOREM SuccessesAreDone ==
  ASSUME NEW p, OneProc = {p} PROVE Spec => SuccessMeansDone
<1> DEFINE Done == /\ On("changeset") => Changeset!AppendedStays
                   /\ On("init") => InitCmd!SuccessIsComplete
                   /\ On("update") => Update!BinaryIsWhole
<1>1. FileToolInv(p) /\ ProjectToolInv /\ UpdateToolInv => Done
  <2> SUFFICES ASSUME FileToolInv(p), ProjectToolInv, UpdateToolInv
               PROVE  Done
    OBVIOUS
  <2>1. On("changeset") => Changeset!AppendedStays
    <3>1. On("changeset") => ChangesetP!AppendedStays
      BY DEF FileToolInv, ChangesetP!FileInv, ChangesetP!AppendedStays
    <3> QED BY <3>1, ChangesetPIsSame
  <2>2. On("init") => InitCmd!SuccessIsComplete
    BY ProjectShows DEF ProjectToolInv
  <2>3. On("update") => Update!BinaryIsWhole
    BY DEF UpdateToolInv, UpdateInv
  <2> QED BY <2>1, <2>2, <2>3
<1>2. CommandsInv /\ Done' /\ [Next]_vars =>
        [/\ On("regular") => Regular!SuccessMeansDone
         /\ On("changeset") => Changeset!AppendedStays'
         /\ On("init") => InitCmd!SuccessIsComplete'
         /\ On("update") => Update!BinaryIsWhole']_vars
  <2>1. SUFFICES ASSUME CommandsInv, Done', [Next]_vars
        PROVE  /\ On("regular") => Regular!SuccessMeansDone
               /\ On("changeset") => Changeset!AppendedStays'
               /\ On("init") => InitCmd!SuccessIsComplete'
               /\ On("update") => Update!BinaryIsWhole'
    OBVIOUS
  <2>2. On("regular") => Regular!SuccessMeansDone
    BY <2>1, CommandsAssumptions, CommandsSteps, RegularP!SuccessDone,
       RegularPIsSame DEF CommandsInv
  <2>3. \A c : On(c)' = On(c)
    BY <2>1, ConfigStays DEF On
  <2> QED BY <2>1, <2>2, <2>3
<1> QED BY <1>1, <1>2, CommandsInvariant, FileInvariant, ProjectInvariant,
           UpdateInvariant, PTL DEF Spec, SuccessMeansDone
===============================================================================
