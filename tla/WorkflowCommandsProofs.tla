------------------------ MODULE WorkflowCommandsProofs -------------------------
(***************************************************************************)
(* Proofs about WorkflowCommands, for any numbers of processes, workflows, *)
(* versions and blocks, any limit and every way to send a transaction.     *)
(* WorkInv is inductive: the registry has one entry per name and tag, with *)
(* distinct times, and is within the limit (RegInv); no transaction that   *)
(* was sent or written down is from the future (TxsInv); and each command  *)
(* knows what its checks have established, at least as long as nobody      *)
(* changed the registry since its first read (CmdInv).                     *)
(***************************************************************************)
EXTENDS WorkflowCommands, TLAPS, FiniteSetTheorems


-----------------------------------------------------------------------------
(* Finite sets *)

LEMMA ImageFinite ==
  ASSUME NEW S, IsFiniteSet(S), NEW f, f = [x \in S |-> f[x]]
  PROVE  IsFiniteSet({f[x] : x \in S})
<1> DEFINE R == {f[x] : x \in S}
<1>1. f \in [S -> R] /\ \A y \in R : \E x \in S : f[x] = y
  OBVIOUS
<1>2. f \in Surjection(S, R)
  BY <1>1, Zenon DEF Surjection
<1> QED BY <1>2, FS_Surjection

LEMMA OneMore ==
  ASSUME NEW S, IsFiniteSet(S), NEW x
  PROVE  /\ IsFiniteSet(S \cup {x})
         /\ Cardinality(S) \in Nat /\ Cardinality(S \cup {x}) \in Nat
         /\ Cardinality(S \cup {x}) <= Cardinality(S) + 1
         /\ x \notin S => Cardinality(S \cup {x}) = Cardinality(S) + 1
<1>1. Cardinality(S) \in Nat
  BY FS_CardinalityType
<1>2. /\ IsFiniteSet(S \cup {x})
      /\ Cardinality(S \cup {x}) =
           IF x \in S THEN Cardinality(S) ELSE Cardinality(S) + 1
  BY FS_AddElement
<1> QED BY <1>1, <1>2

LEMMA Smaller ==
  ASSUME NEW S, IsFiniteSet(S), NEW T, T \subseteq S
  PROVE  /\ IsFiniteSet(T) /\ Cardinality(T) \in Nat
         /\ Cardinality(S) \in Nat /\ Cardinality(T) <= Cardinality(S)
<1>1. IsFiniteSet(T) /\ Cardinality(T) <= Cardinality(S)
  BY FS_Subset
<1> QED BY <1>1, FS_CardinalityType

\* One element taken out and one put in.
LEMMA Exchanged ==
  ASSUME NEW S, IsFiniteSet(S), NEW a \in S, NEW x, NEW T,
         T \subseteq (S \ {a}) \cup {x}
  PROVE  Cardinality(T) <= Cardinality(S)
<1>1. IsFiniteSet(S \ {a}) /\ Cardinality(S \ {a}) = Cardinality(S) - 1
  BY FS_RemoveElement
<1>2. Cardinality(S) \in Nat
  BY FS_CardinalityType
<1>3. /\ IsFiniteSet((S \ {a}) \cup {x})
      /\ Cardinality((S \ {a}) \cup {x}) <= Cardinality(S \ {a}) + 1
      /\ Cardinality((S \ {a}) \cup {x}) \in Nat
  BY <1>1, OneMore
<1>4. Cardinality(T) <= Cardinality((S \ {a}) \cup {x}) /\ Cardinality(T) \in Nat
  BY <1>3, Smaller
<1> QED BY <1>1, <1>2, <1>3, <1>4

-----------------------------------------------------------------------------
(* What a transaction makes of the registry *)

LEMMA AfterIs ==
  ASSUME NEW tx \in Transaction
  PROVE  /\ tx.op = "upsert" => After(tx) = AfterUpsert(tx)
         /\ tx.op = "activate" => After(tx) = SetStatus(tx.ids, "active")
         /\ tx.op = "pause" => After(tx) = SetStatus(tx.ids, "paused")
         /\ tx.op = "delete" => After(tx) = {e \in reg : Id(e) \notin tx.ids}
  BY Zenon DEF After

\* AfterUpsert and SetStatus, element by element.
Replaced(tx) == {e \in reg : e.name = tx.name /\ e.tag = tx.tag}
Kept(tx, e) ==
  IF e.name = tx.name /\ e.status = "active" /\ ~tx.keepAlive
  THEN [e EXCEPT !.status = "paused", !.changed = block + 1] ELSE e
Added(tx) ==
  [name |-> tx.name, tag |-> tx.tag, content |-> tx.content,
   status |-> tx.status, changed |-> block + 1,
   created |-> IF Replaced(tx) = {} THEN block + 1
               ELSE (CHOOSE e \in Replaced(tx) : TRUE).created]
Turned(ids, s, e) ==
  IF Id(e) \in ids /\ e.status # s
  THEN [e EXCEPT !.status = s, !.changed = block + 1] ELSE e

\* What an entry keeps when a transaction turns it, if at all, to status s.
Turns(e, f, s) ==
  /\ f \in Entry /\ f.name = e.name /\ f.tag = e.tag
  /\ f.content = e.content /\ f.created = e.created
  /\ f = e \/ (f.status = s /\ e.status # s /\ f.changed = block + 1)

LandsOn == reg \subseteq Entry /\ block \in Nat /\ block + 1 \in 0..MaxBlock

LEMMA KeptTurns ==
  ASSUME LandsOn, NEW tx \in Transaction, NEW e \in reg
  PROVE  /\ Turns(e, Kept(tx, e), "paused")
         /\ e.name = tx.name /\ ~tx.keepAlive => Kept(tx, e).status = "paused"
         /\ Kept(tx, e) # e => e.name = tx.name
<1> DEFINE f == [e EXCEPT !.status = "paused", !.changed = block + 1]
<1>1. e \in Entry
  BY DEF LandsOn
<1>2. f \in Entry
  BY <1>1, Zenon DEF LandsOn, Entry
<1>3. /\ f.name = e.name /\ f.tag = e.tag /\ f.content = e.content
      /\ f.created = e.created /\ f.status = "paused" /\ f.changed = block + 1
  BY <1>1 DEF Entry
<1>4. Kept(tx, e) = IF e.name = tx.name /\ e.status = "active" /\ ~tx.keepAlive
                    THEN f ELSE e
  BY DEF Kept
<1>5. e.status \in {"active", "paused"}
  BY <1>1 DEF Entry
<1> HIDE DEF f
<1> QED BY <1>1, <1>2, <1>3, <1>4, <1>5 DEF Turns

LEMMA TurnedTurns ==
  ASSUME LandsOn, NEW ids, NEW s \in {"active", "paused"}, NEW e \in reg
  PROVE  /\ Turns(e, Turned(ids, s, e), s)
         /\ Id(e) \in ids => Turned(ids, s, e).status = s
         /\ Id(e) \notin ids => Turned(ids, s, e) = e
<1> DEFINE f == [e EXCEPT !.status = s, !.changed = block + 1]
<1>1. e \in Entry
  BY DEF LandsOn
<1>2. f \in Entry
  BY <1>1, Zenon DEF LandsOn, Entry
<1>3. /\ f.name = e.name /\ f.tag = e.tag /\ f.content = e.content
      /\ f.created = e.created /\ f.status = s /\ f.changed = block + 1
  BY <1>1 DEF Entry
<1>4. Turned(ids, s, e) = IF Id(e) \in ids /\ e.status # s THEN f ELSE e
  BY DEF Turned
<1> HIDE DEF f
<1> QED BY <1>1, <1>2, <1>3, <1>4 DEF Turns

LEMMA AddedIs ==
  ASSUME LandsOn, NEW tx \in Transaction, tx.op = "upsert"
  PROVE  /\ Added(tx) \in Entry
         /\ Added(tx).name = tx.name /\ Added(tx).tag = tx.tag
         /\ Added(tx).content = tx.content /\ Added(tx).status = tx.status
         /\ Added(tx).changed = block + 1
         /\ \/ Replaced(tx) = {} /\ Added(tx).created = block + 1
            \/ \E e \in Replaced(tx) : Added(tx).created = e.created
<1> DEFINE t == IF Replaced(tx) = {} THEN block + 1
                ELSE (CHOOSE e \in Replaced(tx) : TRUE).created
<1>1. /\ tx.name \in Names /\ tx.tag \in {CliTag, OtherTag}
      /\ tx.content \in Versions /\ tx.status \in {"active", "paused"}
  BY DEF Transaction
<1>2. \/ Replaced(tx) = {} /\ t = block + 1
      \/ \E e \in Replaced(tx) : t = e.created
  OBVIOUS
<1>3. t \in 0..MaxBlock /\ block + 1 \in 0..MaxBlock
  BY <1>2 DEF LandsOn, Replaced, Entry
<1> HIDE DEF t
<1> DEFINE r == [name |-> tx.name, tag |-> tx.tag, content |-> tx.content,
                 status |-> tx.status, changed |-> block + 1, created |-> t]
<1>4. Added(tx) = r
  BY Zenon DEF Added, t
<1>5. r \in Entry
  BY <1>1, <1>3, Zenon DEF Entry
<1> QED BY <1>2, <1>4, <1>5

LEMMA AfterParts ==
  ASSUME NEW tx \in Transaction
  PROVE  /\ tx.op = "upsert" =>
              After(tx) = {Kept(tx, e) : e \in reg \ Replaced(tx)} \cup {Added(tx)}
         /\ tx.op = "activate" =>
              After(tx) = {Turned(tx.ids, "active", e) : e \in reg}
         /\ tx.op = "pause" =>
              After(tx) = {Turned(tx.ids, "paused", e) : e \in reg}
         /\ tx.op = "delete" => After(tx) = {e \in reg : Id(e) \notin tx.ids}
<1>1. AfterUpsert(tx) = {Kept(tx, e) : e \in reg \ Replaced(tx)} \cup {Added(tx)}
  BY Zenon DEF AfterUpsert, Kept, Added, Replaced
<1>2. \A s : SetStatus(tx.ids, s) = {Turned(tx.ids, s, e) : e \in reg}
  BY DEF SetStatus, Turned
<1> QED BY <1>1, <1>2, AfterIs

\* Where an entry of the registry after tx comes from.
LEMMA Origin ==
  ASSUME LandsOn, NEW tx \in Transaction, NEW f \in After(tx)
  PROVE  \/ \E e \in reg :
              \/ tx.op = "upsert" /\ Turns(e, f, "paused") /\ e \notin Replaced(tx)
              \/ tx.op = "activate" /\ Turns(e, f, "active")
              \/ tx.op = "pause" /\ Turns(e, f, "paused")
              \/ tx.op = "delete" /\ f = e
         \/ tx.op = "upsert" /\ f = Added(tx)
<1>1. tx.op \in {"upsert", "activate", "pause", "delete"}
  BY DEF Transaction
<1>2. CASE tx.op = "upsert"
  <2>1. f = Added(tx) \/ \E e \in reg \ Replaced(tx) : f = Kept(tx, e)
    BY <1>2, AfterParts
  <2> QED BY <1>2, <2>1, KeptTurns
<1>3. CASE tx.op = "activate"
  <2>1. \E e \in reg : f = Turned(tx.ids, "active", e)
    BY <1>3, AfterParts
  <2> QED BY <1>3, <2>1, TurnedTurns
<1>4. CASE tx.op = "pause"
  <2>1. \E e \in reg : f = Turned(tx.ids, "paused", e)
    BY <1>4, AfterParts
  <2> QED BY <1>4, <2>1, TurnedTurns
<1>5. CASE tx.op = "delete"
  BY <1>5, AfterParts
<1> QED BY <1>1, <1>2, <1>3, <1>4, <1>5

-----------------------------------------------------------------------------
(* The registry *)

RegInv ==
  /\ reg \subseteq Entry /\ block \in 0..MaxBlock /\ IsFiniteSet(reg)
  /\ \A e, f \in reg : e.name = f.name /\ e.tag = f.tag => e = f
  /\ Cardinality(Active(reg)) <= MaxActive
  /\ \A e \in reg : /\ e.changed <= block /\ e.created <= block
                    /\ e.tag = OtherTag <=> e.content = OtherContent

\* A transaction built from what was read at tx.asOf undoes no pause that came
\* before: what was paused then is registered as paused.
FreshTx(tx) ==
  tx.op = "upsert" =>
    /\ tx.tag = OtherTag <=> tx.content = OtherContent
    /\ tx.asOf <= block
    /\ tx.status = "active" =>
         \A e \in reg : /\ e.name = tx.name /\ e.tag = tx.tag
                        /\ e.status = "paused"
                        => tx.asOf < e.changed

\* What the registry may become: an entry that changes bears the date.
RegGoes ==
  \/ UNCHANGED <<reg, block>>
  \/ /\ block' = block + 1
     /\ \A f \in reg' :
          /\ f \in reg \/ f.changed = block'
          /\ \/ f.created = block'
             \/ \E e \in reg : /\ e.name = f.name /\ e.tag = f.tag
                               /\ e.created = f.created

LEMMA FreshStays ==
  ASSUME RegInv, RegGoes, NEW tx \in Transaction, FreshTx(tx)
  PROVE  FreshTx(tx)'
<1>1. SUFFICES ASSUME tx.op = "upsert", block' = block + 1,
                      \A f \in reg' : f \in reg \/ f.changed = block'
               PROVE  FreshTx(tx)'
  BY DEF RegGoes, FreshTx
<1>2. block \in Nat /\ tx.asOf \in Nat /\ tx.asOf <= block
  BY <1>1 DEF RegInv, FreshTx, Transaction
<1> QED BY <1>1, <1>2 DEF FreshTx

\* No two entries of the same name and tag come of two different ones.
LEMMA StaysUnique ==
  ASSUME RegInv, LandsOn, NEW tx \in Transaction,
         NEW f \in After(tx), NEW g \in After(tx), f.name = g.name, f.tag = g.tag
  PROVE  f = g
<1>1. CASE tx.op = "upsert"
  <2>1. ASSUME NEW h \in After(tx), h # Added(tx)
        PROVE  \E e \in reg \ Replaced(tx) :
                 h = Kept(tx, e) /\ h.name = e.name /\ h.tag = e.tag
    BY <1>1, <2>1, AfterParts, KeptTurns DEF Turns
  <2>2. ASSUME NEW h \in After(tx), h # Added(tx)
        PROVE  ~(h.name = Added(tx).name /\ h.tag = Added(tx).tag)
    BY <1>1, <2>1, <2>2, AddedIs DEF Replaced
  <2>3. CASE f # Added(tx) /\ g # Added(tx)
    BY <2>1, <2>3 DEF RegInv
  <2> QED BY <2>2, <2>3
<1>2. CASE tx.op = "activate"
  <2>1. ASSUME NEW h \in After(tx)
        PROVE  \E e \in reg : /\ h = Turned(tx.ids, "active", e)
                              /\ h.name = e.name /\ h.tag = e.tag
    BY <1>2, AfterParts, TurnedTurns DEF Turns
  <2> QED BY <2>1 DEF RegInv
<1>3. CASE tx.op = "pause"
  <2>1. ASSUME NEW h \in After(tx)
        PROVE  \E e \in reg : /\ h = Turned(tx.ids, "paused", e)
                              /\ h.name = e.name /\ h.tag = e.tag
    BY <1>3, AfterParts, TurnedTurns DEF Turns
  <2> QED BY <2>1 DEF RegInv
<1>4. CASE tx.op = "delete"
  BY <1>4, AfterParts DEF RegInv
<1> QED BY <1>1, <1>2, <1>3, <1>4 DEF Transaction

LEMMA StaysFinite ==
  ASSUME RegInv, NEW tx \in Transaction PROVE IsFiniteSet(After(tx))
<1>1. \A s : IsFiniteSet({Turned(tx.ids, s, e) : e \in reg})
  <2> TAKE s
  <2> DEFINE f == [e \in reg |-> Turned(tx.ids, s, e)]
  <2>1. IsFiniteSet({f[e] : e \in reg})
    BY ImageFinite DEF RegInv
  <2>2. {f[e] : e \in reg} = {Turned(tx.ids, s, e) : e \in reg}
    OBVIOUS
  <2> QED BY <2>1, <2>2
<1>2. IsFiniteSet({Kept(tx, e) : e \in reg \ Replaced(tx)} \cup {Added(tx)})
  <2> DEFINE S == reg \ Replaced(tx)
  <2> DEFINE f == [e \in S |-> Kept(tx, e)]
  <2>1. IsFiniteSet(S)
    BY FS_Subset DEF RegInv
  <2>2. IsFiniteSet({f[e] : e \in S})
    BY <2>1, ImageFinite
  <2>3. {f[e] : e \in S} = {Kept(tx, e) : e \in S}
    OBVIOUS
  <2> QED BY <2>2, <2>3, OneMore
<1>3. IsFiniteSet({e \in reg : Id(e) \notin tx.ids})
  BY FS_Subset DEF RegInv
<1> QED BY <1>1, <1>2, <1>3, AfterParts DEF Transaction

LEMMA Lands ==
  ASSUME WorkflowCommandsAssumption, RegInv, NEW tx \in Transaction, FreshTx(tx),
         Accepts(tx), Land(tx)
  PROVE  /\ RegInv' /\ RegGoes /\ block' = block + 1 /\ reg' = After(tx)
         /\ last' = tx /\ LandsOn
<1>1. /\ block' = block + 1 /\ reg' = After(tx) /\ last' = tx
      /\ block < MaxBlock
  BY DEF Land
<1>2. LandsOn
  BY <1>1 DEF LandsOn, RegInv, WorkflowCommandsAssumption
<1>3. ASSUME NEW f \in After(tx)
      PROVE  /\ f \in Entry
             /\ f \in reg \/ f.changed = block'
             /\ \/ f.created = block'
                \/ \E e \in reg : /\ e.name = f.name /\ e.tag = f.tag
                                  /\ e.created = f.created
             /\ f.tag = OtherTag <=> f.content = OtherContent
  <2>1. CASE tx.op = "upsert" /\ f = Added(tx)
    <3>1. f \in Entry /\ f.changed = block' /\ f.name = tx.name /\ f.tag = tx.tag
          /\ f.content = tx.content
      BY <1>1, <1>2, <2>1, AddedIs
    <3>2. \/ f.created = block'
          \/ \E e \in reg : /\ e.name = f.name /\ e.tag = f.tag
                            /\ e.created = f.created
      BY <1>1, <1>2, <2>1, <3>1, AddedIs DEF Replaced
    <3> QED BY <2>1, <3>1, <3>2 DEF FreshTx
  <2>2. CASE \E e \in reg, s \in {"active", "paused"} : Turns(e, f, s)
    BY <1>1, <2>2 DEF RegInv, Turns
  <2>3. CASE f \in reg
    BY <2>3 DEF RegInv
  <2> QED BY <1>2, <2>1, <2>2, <2>3, Origin
<1>4. RegGoes
  BY <1>1, <1>3 DEF RegGoes
<1>5. RegInv'
  <2>1. reg' \subseteq Entry /\ block' \in 0..MaxBlock /\ IsFiniteSet(reg')
    BY <1>1, <1>2, <1>3, StaysFinite DEF LandsOn
  <2>2. \A e, f \in reg' : e.name = f.name /\ e.tag = f.tag => e = f
    BY <1>1, <1>2, StaysUnique
  <2>3. Cardinality(Active(reg')) <= MaxActive
    BY <1>1 DEF Accepts
  <2>4. ASSUME NEW f \in reg' PROVE f.changed <= block' /\ f.created <= block'
    BY <1>1, <1>3 DEF RegInv, Entry
  <2> QED BY <1>1, <1>3, <2>1, <2>2, <2>3, <2>4 DEF RegInv, Active
<1> QED BY <1>1, <1>2, <1>4, <1>5

LEMMA UndoesNoPause ==
  ASSUME RegInv, LandsOn, NEW tx \in Transaction, FreshTx(tx), reg' = After(tx),
         last' = tx
  PROVE  PauseNotUndone
<1>1. SUFFICES ASSUME NEW e \in reg, NEW f \in reg', e.name = f.name,
                      e.tag = f.tag, e.status = "paused", f.status = "active",
                      tx.op # "activate"
               PROVE  tx.asOf < e.changed
  BY DEF PauseNotUndone
<1>2. f \notin reg
  BY <1>1 DEF RegInv
<1>3. tx.op = "upsert" /\ f = Added(tx)
  BY <1>1, <1>2, Origin DEF Turns
<1> QED BY <1>1, <1>3, AddedIs DEF FreshTx

-----------------------------------------------------------------------------
(* What is known of a command at each of its phases *)

\* The command is a deploy or a delete, ..., where its phase says so.
PhaseInv(c) ==
  /\ c.op # "none" => c.name \in Names
  /\ c.op = "none" => c.phase \in {"idle", "done"}
  /\ c.op = "deploy" => c.content \in Contents
  /\ c.op = "activate" => c.pending = 1
  /\ c.phase # "done" => c.result = "none"
  /\ c.phase \in {"connect", "lookup"} =>
       c.pending = 1 /\ c.seen = "none" /\ ~c.failed
  /\ c.phase \in {"sameName", "upload"} => c.op = "deploy"
  /\ c.phase = "quota" => c.op \in {"deploy", "activate"}
  /\ c.phase = "confirm" => c.op \in {"deploy", "delete"}
  /\ c.phase \in {"csRead", "csWrite"} =>
       Type = "changeset" /\ c.payload \in Transaction

\* A deploy that saw no pause saw all there were.
SeenInv(c) ==
  c.op = "deploy" /\ c.seen # "paused"
    /\ c.phase \in {"sameName", "confirm", "quota", "upload", "submit"} =>
    \A e \in reg : e.name = c.name /\ e.tag = CliTag /\ e.status = "paused" =>
      c.seenAt < e.changed

DataInv(c) ==
  /\ c.seenAt <= block
  /\ FreshTx(c.payload)
  /\ \A tx \in c.copy : FreshTx(tx)

\* What the checks have established, if nothing has changed since.
IsNew(c) == c.seen = "none" /\ \A e \in Listed(c.name) : e.tag # CliTag
IsUpdate(c) == \E e \in Listed(c.name) : e.tag = CliTag /\ e.status = c.seen
HasRoom == Cardinality(Active(reg)) + 1 <= MaxActive
NoneRuns(c) == Active(Listed(c.name)) = {}

DeployInv(c) ==
  /\ c.phase \in {"sameName", "quota"} => IsNew(c)
  /\ c.phase = "quota" => c.pending = 1 /\ NoneRuns(c)
  /\ c.phase = "confirm" => IsUpdate(c)
  /\ c.phase \in {"upload", "submit"} =>
       IsUpdate(c) \/ (IsNew(c) /\ (~NoneRuns(c) \/ HasRoom))

ReadyInv(c) ==
  c.seenAt = block =>
    /\ c.op = "deploy" => DeployInv(c)
    /\ c.op = "activate" /\ c.phase \in {"quota", "submit"} =>
         \E e \in reg : c.listed = {Id(e)} /\ e.status = "paused"
    /\ c.op = "activate" /\ c.phase = "submit" => HasRoom
    /\ c.op = "pause" /\ c.phase = "submit" =>
         /\ c.listed # {}
         /\ \A id \in c.listed : \E e \in reg : Id(e) = id /\ e.status = "active"
    /\ c.op = "delete" /\ c.phase \in {"confirm", "submit"} =>
         Registered(c.todo)

\* Nothing with the name and the kind of tag of id is older than t.
OnlySince(id, t) ==
  \A e \in reg :
    e.name = id[1] /\ (e.content = OtherContent <=> id[2] = OtherContent) =>
      t < e.created

RoundsInv(c) ==
  Type = "regular" /\ c.op = "delete" /\ c.phase \in {"confirm", "submit"}
    /\ ~c.failed =>
    \A id \in c.listed \ c.todo : OnlySince(id, c.seenAt)

CmdInv(c) ==
  PhaseInv(c) /\ SeenInv(c) /\ DataInv(c) /\ ReadyInv(c) /\ RoundsInv(c)

TxsInv ==
  \A tx \in late \cup prepared \cup csFile : tx \in Transaction /\ FreshTx(tx)

WorkInv ==
  /\ RegInv /\ TxsInv
  /\ started \in 0..MaxCommands /\ last \in Transaction \cup {NoTx}
  /\ cli \in [Procs -> Command] /\ \A p \in Procs : CmdInv(cli[p])

\* The registry may change under a command.
LEMMA CmdStays ==
  ASSUME RegInv, RegInv', RegGoes, NEW c \in Command, CmdInv(c)
  PROVE  CmdInv(c)'
<1>1. CASE UNCHANGED <<reg, block>>
  BY <1>1
     DEF CmdInv, PhaseInv, SeenInv, DataInv, ReadyInv, RoundsInv, FreshTx,
         DeployInv, IsNew, IsUpdate, HasRoom, NoneRuns, Listed, Active,
         Registered, OnlySince
<1>2. CASE /\ block' = block + 1
           /\ \A f \in reg' :
                /\ f \in reg \/ f.changed = block'
                /\ \/ f.created = block'
                   \/ \E e \in reg : /\ e.name = f.name /\ e.tag = f.tag
                                     /\ e.created = f.created
  <2>1. /\ block \in Nat /\ c.seenAt \in Nat /\ c.seenAt <= block
        /\ c.seenAt < block' /\ c.seenAt # block'
    BY <1>2 DEF RegInv, CmdInv, DataInv, Command
  <2>2. PhaseInv(c)' /\ ReadyInv(c)'
    BY <2>1 DEF CmdInv, PhaseInv, ReadyInv
  <2>3. SeenInv(c)'
    BY <1>2, <2>1 DEF CmdInv, SeenInv
  <2>4. DataInv(c)'
    <3>1. ASSUME NEW tx \in Transaction \cup {NoTx}, FreshTx(tx) PROVE FreshTx(tx)'
      <4>1. CASE tx \in Transaction
        BY <3>1, <4>1, FreshStays
      <4>2. CASE tx = NoTx
        BY <4>2 DEF FreshTx, NoTx
      <4> QED BY <4>1, <4>2
    <3>2. c.payload \in Transaction \cup {NoTx} /\ c.copy \subseteq Transaction
      BY DEF Command
    <3> QED BY <1>2, <2>1, <3>1, <3>2 DEF CmdInv, DataInv
  <2>5. RoundsInv(c)'
    <3>1. ASSUME NEW id, OnlySince(id, c.seenAt) PROVE OnlySince(id, c.seenAt)'
      <4>1. SUFFICES ASSUME NEW f \in reg', f.name = id[1],
                            f.content = OtherContent <=> id[2] = OtherContent
                     PROVE  c.seenAt < f.created
        BY DEF OnlySince
      <4>2. CASE f.created = block'
        BY <2>1, <4>2
      <4>3. CASE \E e \in reg : /\ e.name = f.name /\ e.tag = f.tag
                                /\ e.created = f.created
        BY <3>1, <4>1, <4>3 DEF OnlySince, RegInv
      <4> QED BY <1>2, <4>2, <4>3
    <3> QED BY <3>1 DEF CmdInv, RoundsInv
  <2> QED BY <2>2, <2>3, <2>4, <2>5 DEF CmdInv
<1> QED BY <1>1, <1>2 DEF RegGoes

-----------------------------------------------------------------------------
(* Steps of a command *)

Becomes(p, c) == cli' = [cli EXCEPT ![p] = c] /\ c \in Command

\* p changes its record, in a registry that goes on as it may.
LEMMA ProcessKeeps ==
  ASSUME WorkInv, RegInv', RegGoes, TxsInv', started' \in 0..MaxCommands,
         last' \in Transaction \cup {NoTx},
         NEW p \in Procs, NEW c, Becomes(p, c), CmdInv(c)'
  PROVE  WorkInv'
<1>1. cli' \in [Procs -> Command]
  BY DEF Becomes, WorkInv
<1>2. ASSUME NEW q \in Procs PROVE CmdInv(cli[q])'
  <2>1. CASE q = p
    <3>1. cli'[q] = c
      BY <2>1 DEF Becomes, WorkInv
    <3> QED BY <3>1
  <2>2. CASE q # p
    <3>1. cli'[q] = cli[q] /\ cli[q] \in Command /\ CmdInv(cli[q])
      BY <2>2 DEF Becomes, WorkInv
    <3>2. ASSUME NEW e \in Command, CmdInv(e) PROVE CmdInv(e)'
      BY <3>2, CmdStays DEF WorkInv
    <3>3. PICK e \in Command : e = cli[q] /\ CmdInv(e)
      BY <3>1
    <3>4. CmdInv(e)'
      BY <3>2, <3>3
    <3>5. cli'[q] = e
      BY <3>1, <3>3
    <3> QED BY <3>4, <3>5
  <2> QED BY <2>1, <2>2
<1> QED BY <1>1, <1>2 DEF WorkInv

\* The registry and what is under way stay as they are.
LEMMA LocalKeeps ==
  ASSUME WorkInv, UNCHANGED <<chainVars, outVars>>, started' \in 0..MaxCommands,
         NEW p \in Procs, NEW c, Becomes(p, c), CmdInv(c)
  PROVE  WorkInv'
<1>1. UNCHANGED <<reg, block, last, late, prepared, csFile>>
  BY DEF chainVars, outVars
<1>2. RegInv' /\ RegGoes /\ last' \in Transaction \cup {NoTx}
  BY <1>1 DEF WorkInv, RegInv, RegGoes, Active
<1>3. \A tx : FreshTx(tx)' = FreshTx(tx)
  BY <1>1 DEF FreshTx
<1>4. TxsInv'
  BY <1>1, <1>3 DEF WorkInv, TxsInv
<1>5. CmdInv(c)'
  BY <1>2, CmdStays DEF WorkInv, Becomes
<1> QED BY <1>2, <1>4, <1>5, ProcessKeeps

\* What a step that only moves p's command on leaves of it.
SameData(c, d) ==
  /\ d.op = c.op /\ d.name = c.name /\ d.content = c.content
  /\ d.seen = c.seen /\ d.seenAt = c.seenAt /\ d.pending = c.pending
  /\ d.listed = c.listed /\ d.todo = c.todo /\ d.failed = c.failed
  /\ d.payload = c.payload /\ d.copy = c.copy

LEMMA GotoIs ==
  ASSUME WorkInv, NEW p \in Procs, NEW phase \in Phases, Goto(p, phase)
  PROVE  \E c \in Command : /\ Becomes(p, c) /\ SameData(cli[p], c)
                            /\ c.phase = phase /\ c.result = cli[p].result
<1> DEFINE c == [cli[p] EXCEPT !.phase = phase]
<1>1. cli[p] \in Command
  BY DEF WorkInv
<1>2. c \in Command
  BY <1>1, Zenon DEF Command
<1>3. SameData(cli[p], c) /\ c.phase = phase /\ c.result = cli[p].result
  BY <1>1, SMT DEF Command, SameData
<1>4. cli' = [cli EXCEPT ![p] = c]
  BY DEF Goto
<1> HIDE DEF c
<1> QED BY <1>2, <1>3, <1>4 DEF Becomes

LEMMA FinishIs ==
  ASSUME WorkInv, NEW p \in Procs, NEW r \in Results, Finish(p, r)
  PROVE  \E c \in Command : /\ Becomes(p, c) /\ SameData(cli[p], c)
                            /\ c.phase = "done" /\ c.result = r
<1> DEFINE c == [cli[p] EXCEPT !.phase = "done", !.result = r]
<1>1. cli[p] \in Command
  BY DEF WorkInv
<1>2. c \in Command
  BY <1>1, Zenon DEF Command, Phases
<1>3. SameData(cli[p], c) /\ c.phase = "done" /\ c.result = r
  BY <1>1, SMT DEF Command, SameData
<1>4. cli' = [cli EXCEPT ![p] = c]
  BY DEF Finish
<1> HIDE DEF c
<1> QED BY <1>2, <1>3, <1>4 DEF Becomes

\* Of a command that is over, or that writes its changeset, little is known.
LEMMA DoneInv ==
  ASSUME NEW c \in Command, NEW d \in Command, SameData(c, d), CmdInv(c),
         d.phase = "done"
  PROVE  CmdInv(d)
<1>1. PhaseInv(d) /\ SeenInv(d) /\ RoundsInv(d)
  BY DEF SameData, CmdInv, PhaseInv, SeenInv, RoundsInv
<1>2. DataInv(d)
  BY DEF SameData, CmdInv, DataInv
<1>3. ReadyInv(d)
  BY DEF ReadyInv, DeployInv
<1> QED BY <1>1, <1>2, <1>3 DEF CmdInv

LEMMA Locally ==
  ASSUME LocalStep, WorkInv
  PROVE  /\ UNCHANGED <<chainVars, outVars>> /\ started' \in 0..MaxCommands
  BY DEF LocalStep, WorkInv

LEMMA FinishKeeps ==
  ASSUME WorkInv, NEW p \in Procs, NEW r \in Results, Finish(p, r), LocalStep
  PROVE  WorkInv'
<1>1. PICK c \in Command : /\ Becomes(p, c) /\ SameData(cli[p], c)
                           /\ c.phase = "done"
  BY FinishIs
<1>2. cli[p] \in Command /\ CmdInv(cli[p])
  BY DEF WorkInv
<1>3. CmdInv(c)
  BY <1>1, <1>2, DoneInv
<1> QED BY <1>1, <1>3, Locally, LocalKeeps

LEMMA GoesOn ==
  ASSUME WorkInv, NEW p \in Procs, NEW phase \in Phases, Goto(p, phase), LocalStep,
         \A c \in Command :
           SameData(cli[p], c) /\ c.phase = phase /\ c.result = cli[p].result
             => CmdInv(c)
  PROVE  WorkInv'
<1>1. PICK c \in Command : /\ Becomes(p, c) /\ SameData(cli[p], c)
                           /\ c.phase = phase /\ c.result = cli[p].result
  BY GotoIs
<1>2. CmdInv(c)
  BY <1>1
<1> QED BY <1>1, <1>2, Locally, LocalKeeps

LEMMA ConnectStep ==
  ASSUME WorkInv, NEW p \in Procs, Connect(p) PROVE WorkInv'
<1>1. cli[p] \in Command /\ CmdInv(cli[p]) /\ cli[p].phase = "connect"
  BY DEF WorkInv, Connect, At
<1>2. ASSUME NEW c \in Command, SameData(cli[p], c), c.phase = "lookup",
             c.result = cli[p].result
      PROVE  CmdInv(c)
  BY <1>1, <1>2 DEF SameData, CmdInv, PhaseInv, SeenInv, DataInv, ReadyInv,
                    RoundsInv, DeployInv
<1> QED BY <1>2, GoesOn DEF Connect, Phases

LEMMA UploadStep ==
  ASSUME WorkInv, NEW p \in Procs, Upload(p) PROVE WorkInv'
<1>1. cli[p] \in Command /\ CmdInv(cli[p]) /\ cli[p].phase = "upload"
  BY DEF WorkInv, Upload, At
<1>2. ASSUME NEW c \in Command, SameData(cli[p], c), c.phase = "submit",
             c.result = cli[p].result
      PROVE  CmdInv(c)
  <2>1. c.op = "deploy" /\ cli[p].op = "deploy"
    BY <1>1, <1>2 DEF CmdInv, PhaseInv, SameData
  <2>2. PhaseInv(c) /\ SeenInv(c) /\ DataInv(c) /\ RoundsInv(c)
    BY <1>1, <1>2, <2>1 DEF SameData, CmdInv, PhaseInv, SeenInv, DataInv, RoundsInv
  <2>3. ReadyInv(c)
    BY <1>1, <1>2, <2>1
       DEF SameData, CmdInv, ReadyInv, DeployInv, IsUpdate, IsNew, NoneRuns
  <2> QED BY <2>2, <2>3 DEF CmdInv
<1>3. CASE Goto(p, "submit")
  BY <1>2, <1>3, GoesOn DEF Upload, Phases
<1>4. CASE Finish(p, "error")
  BY <1>4, FinishKeeps DEF Upload, Results
<1> QED BY <1>3, <1>4 DEF Upload

LEMMA ConfirmStep ==
  ASSUME WorkInv, NEW p \in Procs, Confirm(p) PROVE WorkInv'
<1> DEFINE next == IF cli[p].op = "deploy" THEN "upload" ELSE "submit"
<1>1. cli[p] \in Command /\ CmdInv(cli[p]) /\ cli[p].phase = "confirm"
  BY DEF WorkInv, Confirm, At
<1>2. ASSUME NEW c \in Command, SameData(cli[p], c), c.phase = next,
             c.result = cli[p].result
      PROVE  CmdInv(c)
  <2>1. cli[p].op \in {"deploy", "delete"} /\ c.op = cli[p].op
    BY <1>1, <1>2 DEF CmdInv, PhaseInv, SameData
  <2>2. PhaseInv(c) /\ SeenInv(c) /\ DataInv(c)
    BY <1>1, <1>2, <2>1 DEF SameData, CmdInv, PhaseInv, SeenInv, DataInv
  <2>3. RoundsInv(c)
    BY <1>1, <1>2, <2>1 DEF SameData, CmdInv, RoundsInv
  <2>4. ReadyInv(c)
    BY <1>1, <1>2, <2>1 DEF SameData, CmdInv, ReadyInv, DeployInv, IsUpdate
  <2> QED BY <2>2, <2>3, <2>4 DEF CmdInv
<1>3. CASE Goto(p, next)
  <2>1. next \in Phases
    BY DEF Phases
  <2> HIDE DEF next
  <2> QED BY <1>2, <1>3, <2>1, GoesOn DEF Confirm
<1>4. CASE Finish(p, "error") \/ Finish(p, "nothing")
  BY <1>4, FinishKeeps DEF Confirm, Results
<1> QED BY <1>3, <1>4 DEF Confirm

LEMMA CheckQuotaStep ==
  ASSUME WorkInv, NEW p \in Procs, CheckQuota(p) PROVE WorkInv'
<1> DEFINE next == IF cli[p].op = "deploy" THEN "upload" ELSE "submit"
<1>1. cli[p] \in Command /\ CmdInv(cli[p]) /\ cli[p].phase = "quota"
  BY DEF WorkInv, CheckQuota, At
<1>2. ASSUME WithinLimit(cli[p].pending),
             NEW c \in Command, SameData(cli[p], c), c.phase = next,
             c.result = cli[p].result
      PROVE  CmdInv(c)
  <2>1. cli[p].op \in {"deploy", "activate"} /\ c.op = cli[p].op
    BY <1>1, <1>2 DEF CmdInv, PhaseInv, SameData
  <2>2. PhaseInv(c) /\ SeenInv(c) /\ DataInv(c) /\ RoundsInv(c)
    BY <1>1, <1>2, <2>1 DEF SameData, CmdInv, PhaseInv, SeenInv, DataInv, RoundsInv
  <2>3. cli[p].pending = 1 => HasRoom
    BY <1>2 DEF WithinLimit, HasRoom
  <2>4. c.op = "activate" => HasRoom
    BY <1>1, <2>1, <2>3 DEF CmdInv, PhaseInv
  <2>5. c.seenAt = block /\ c.op = "deploy" => IsNew(c) /\ HasRoom
    BY <1>1, <1>2, <2>1, <2>3 DEF SameData, CmdInv, ReadyInv, DeployInv, IsNew
  <2>6. c.seenAt = block /\ c.op = "activate" =>
          \E e \in reg : c.listed = {Id(e)} /\ e.status = "paused"
    BY <1>1, <1>2, <2>1 DEF SameData, CmdInv, ReadyInv
  <2>7. ReadyInv(c)
    BY <1>2, <2>1, <2>4, <2>5, <2>6 DEF ReadyInv, DeployInv
  <2> QED BY <2>2, <2>7 DEF CmdInv
<1>3. CASE WithinLimit(cli[p].pending)
  <2>1. next \in Phases /\ Goto(p, next)
    BY <1>3 DEF Phases, CheckQuota
  <2> HIDE DEF next
  <2> QED BY <1>2, <1>3, <2>1, GoesOn DEF CheckQuota
<1>4. CASE ~WithinLimit(cli[p].pending)
  BY <1>4, FinishKeeps DEF CheckQuota, Results
<1> QED BY <1>3, <1>4
-----------------------------------------------------------------------------
(* Lookups *)

LEMMA ClientFailsStep ==
  ASSUME WorkInv, NEW p \in Procs, ClientFails(p) \/ ReadFails(p) PROVE WorkInv'
<1>1. Finish(p, "error") /\ LocalStep
  BY DEF ClientFails, ReadFails
<1> QED BY <1>1, FinishKeeps DEF Results

LEMMA StartStep ==
  ASSUME WorkflowCommandsAssumption, WorkInv, NEW p \in Procs, NEW n \in Names,
         NEW c \in Versions,
         NEW op \in {"deploy", "activate", "pause", "delete"},
         op = "deploy" => c \in Contents, Start(p, op, n, c)
  PROVE  WorkInv'
<1> DEFINE d == [op |-> op, phase |-> "connect", result |-> "none", name |-> n,
                 content |-> c, seen |-> "none", seenAt |-> 0, pending |-> 1,
                 listed |-> {}, todo |-> {}, failed |-> FALSE, payload |-> NoTx,
                 copy |-> {}]
<1>1. d = NewCommand(op, n, c)
  BY DEF NewCommand, Record
<1>2. d \in Command
  <2>1. /\ 0 \in 0..MaxBlock /\ 1 \in {0, 1}
        /\ "connect" \in Phases /\ "none" \in Results
        /\ op \in {"none", "deploy", "activate", "pause", "delete"}
        /\ n \in Names \cup {NoName} /\ NoTx \in Transaction \cup {NoTx}
        /\ {} \in SUBSET Ids /\ {} \in SUBSET Transaction /\ FALSE \in BOOLEAN
        /\ "none" \in {"none", "active", "paused"}
    BY DEF WorkflowCommandsAssumption, Phases, Results
  <2> QED BY <2>1, Zenon DEF Command
<1>3. cli' = [cli EXCEPT ![p] = d]
  BY <1>1, Zenon DEF Start
<1>5. started' \in 0..MaxCommands
  BY DEF Start, WorkInv, WorkflowCommandsAssumption
<1>4. CmdInv(d)
  <2>1. PhaseInv(d) /\ SeenInv(d) /\ RoundsInv(d) /\ ReadyInv(d)
    BY DEF PhaseInv, SeenInv, RoundsInv, ReadyInv, DeployInv
  <2>2. DataInv(d)
    BY DEF DataInv, FreshTx, NoTx, WorkInv, RegInv
  <2> QED BY <2>1, <2>2 DEF CmdInv
<1> HIDE DEF d
<1> QED BY <1>2, <1>3, <1>4, <1>5, LocalKeeps DEF Becomes, Start

LEMMA SeenStatusIs ==
  ASSUME RegInv, NEW n \in Names
  PROVE  LET s == SeenStatus(n)
         IN /\ s \in {"none", "active", "paused"}
            /\ s = "none" <=> \A e \in Listed(n) : e.tag # CliTag
            /\ s # "none" => \E e \in Listed(n) : e.tag = CliTag /\ e.status = s
            /\ s # "paused" =>
                 ~\E e \in reg : e.name = n /\ e.tag = CliTag /\ e.status = "paused"
<1> DEFINE mine == {e \in Listed(n) : e.tag = CliTag}
<1>1. CASE mine = {}
  <2>1. SeenStatus(n) = "none"
    BY <1>1 DEF SeenStatus
  <2> QED BY <1>1, <2>1 DEF Listed
<1>2. CASE mine # {}
  <2>1. PICK e \in mine : e = CHOOSE f \in mine : TRUE
    BY <1>2
  <2>2. SeenStatus(n) = e.status
    BY <1>2, <2>1, Zenon DEF SeenStatus
  <2>3. e \in reg /\ e.name = n /\ e.tag = CliTag /\ e.status \in {"active", "paused"}
    BY <2>1 DEF Listed, RegInv, Entry
  <2>4. \A f \in reg : f.name = n /\ f.tag = CliTag => f = e
    BY <2>3 DEF RegInv
  <2> QED BY <2>1, <2>2, <2>3, <2>4 DEF Listed
<1> QED BY <1>1, <1>2

LEMMA DeployLookupStep ==
  ASSUME WorkInv, NEW p \in Procs, DeployLookup(p) PROVE WorkInv'
<1> DEFINE n == cli[p].name
<1> DEFINE new == \A e \in Listed(n) : e.tag # CliTag
<1> DEFINE next == IF new THEN "sameName" ELSE "confirm"
<1> DEFINE d == [cli[p] EXCEPT !.phase = next, !.seen = SeenStatus(n),
                               !.seenAt = block]
<1>1. /\ cli[p] \in Command /\ CmdInv(cli[p]) /\ cli[p].phase = "lookup"
      /\ cli[p].op = "deploy" /\ n \in Names
  BY DEF WorkInv, DeployLookup, At, CmdInv, PhaseInv
<1>2. CASE Finish(p, "error")
  BY <1>2, FinishKeeps DEF DeployLookup, Results
<1>3. CASE cli' = [cli EXCEPT ![p] = d]
  <2>1. /\ SeenStatus(n) \in {"none", "active", "paused"}
        /\ SeenStatus(n) = "none" <=> new
        /\ SeenStatus(n) # "none" =>
             \E e \in Listed(n) : e.tag = CliTag /\ e.status = SeenStatus(n)
        /\ SeenStatus(n) # "paused" =>
             ~\E e \in reg : e.name = n /\ e.tag = CliTag /\ e.status = "paused"
    BY <1>1, SeenStatusIs DEF WorkInv
  <2>2. block \in 0..MaxBlock /\ next \in Phases
    BY DEF WorkInv, RegInv, Phases
  <2>3. d \in Command
    BY <1>1, <2>1, <2>2, Zenon DEF Command
  <2>4. /\ d.op = "deploy" /\ d.phase = next /\ d.name = n /\ d.result = cli[p].result
        /\ d.content = cli[p].content /\ d.seen = SeenStatus(n) /\ d.seenAt = block
        /\ d.pending = cli[p].pending /\ d.payload = cli[p].payload
        /\ d.copy = cli[p].copy
    BY <1>1, SMT DEF Command
  <2>5. (next = "sameName" /\ new) \/ (next = "confirm" /\ ~new)
    BY Zenon
  <2> HIDE DEF d, next
  <2>6. PhaseInv(d)
    BY <1>1, <2>4, <2>5 DEF CmdInv, PhaseInv
  <2>7. SeenInv(d)
    BY <2>1, <2>4 DEF SeenInv
  <2>8. DataInv(d) /\ RoundsInv(d)
    BY <1>1, <2>2, <2>4 DEF CmdInv, DataInv, RoundsInv
  <2>9. ReadyInv(d)
    BY <2>1, <2>4, <2>5 DEF ReadyInv, DeployInv, IsNew, IsUpdate
  <2>10. CmdInv(d)
    BY <2>6, <2>7, <2>8, <2>9 DEF CmdInv
  <2> QED BY <1>3, <2>3, <2>10, Locally, LocalKeeps DEF Becomes, DeployLookup
<1> QED BY <1>2, <1>3, Zenon DEF DeployLookup

LEMMA CountSameNameStep ==
  ASSUME WorkInv, NEW p \in Procs, CountSameName(p) PROVE WorkInv'
<1> DEFINE running == Active(Listed(cli[p].name))
<1> DEFINE n == PendingFor(Cardinality(running))
<1> DEFINE next == IF n = 0 THEN "upload" ELSE "quota"
<1> DEFINE d == [cli[p] EXCEPT !.pending = n, !.phase = next]
<1>1. /\ cli[p] \in Command /\ CmdInv(cli[p]) /\ cli[p].phase = "sameName"
      /\ cli[p].op = "deploy"
  BY DEF WorkInv, CountSameName, At, CmdInv, PhaseInv
<1>2. (n = 0 /\ running # {}) \/ (n = 1 /\ running = {})
  <2>1. IsFiniteSet(running)
    BY FS_Subset DEF WorkInv, RegInv, Active, Listed
  <2>2. Cardinality(running) \in Nat /\ (Cardinality(running) = 0 <=> running = {})
    BY <2>1, FS_CardinalityType, FS_EmptySet
  <2> QED BY <2>2 DEF PendingFor
<1>3. (n = 0 /\ next = "upload") \/ (n = 1 /\ next = "quota")
  BY <1>2
<1>4. d \in Command
  <2>1. n \in {0, 1} /\ next \in Phases
    BY <1>3 DEF Phases
  <2> QED BY <1>1, <2>1, Zenon DEF Command
<1>5. /\ d.op = cli[p].op /\ d.phase = next /\ d.name = cli[p].name
      /\ d.content = cli[p].content /\ d.seen = cli[p].seen
      /\ d.seenAt = cli[p].seenAt /\ d.pending = n /\ d.payload = cli[p].payload
      /\ d.copy = cli[p].copy /\ d.result = cli[p].result
  BY <1>1, SMT DEF Command
<1>6. cli' = [cli EXCEPT ![p] = d]
  BY Zenon DEF CountSameName
<1>7. NoneRuns(d) <=> running = {}
  BY <1>5 DEF NoneRuns
<1> HIDE DEF d, n, next, running
<1>8. PhaseInv(d) /\ SeenInv(d) /\ DataInv(d) /\ RoundsInv(d)
  BY <1>1, <1>3, <1>5 DEF CmdInv, PhaseInv, SeenInv, DataInv, RoundsInv
<1>9. ReadyInv(d)
  BY <1>1, <1>2, <1>3, <1>5, <1>7 DEF CmdInv, ReadyInv, DeployInv, IsNew
<1> QED BY <1>4, <1>6, <1>8, <1>9, Locally, LocalKeeps DEF Becomes, CmdInv, CountSameName

\* Of the at most two versions of a name one was created last.
LEMMA LatestIs ==
  ASSUME RegInv, NEW n, Listed(n) # {}
  PROVE  Latest(n) \in Listed(n)
<1>1. \A e, f \in Listed(n) : e.tag = f.tag => e = f
  BY DEF Listed, RegInv
<1>2. \A e \in Listed(n) : e.created \in Nat /\ e.tag \in {CliTag, OtherTag}
  BY DEF Listed, RegInv, Entry
<1>3. \E e \in Listed(n) : \A f \in Listed(n) : f.created <= e.created
  <2>1. PICK e \in Listed(n) : TRUE
    OBVIOUS
  <2>2. CASE \A f \in Listed(n) : f.created <= e.created
    BY <2>2
  <2>3. CASE \E f \in Listed(n) : ~(f.created <= e.created)
    <3>1. PICK f \in Listed(n) : ~(f.created <= e.created)
      BY <2>3
    <3>2. e.created <= f.created /\ e.tag # f.tag
      BY <1>1, <1>2, <3>1
    <3>3. \A g \in Listed(n) : g = e \/ g = f
      BY <1>1, <1>2, <3>2
    <3> QED BY <1>2, <3>2, <3>3
  <2> QED BY <2>2, <2>3
<1> QED BY <1>3, Zenon DEF Latest

LEMMA IdIs ==
  ASSUME RegInv, NEW e \in reg
  PROVE  Id(e) \in Ids /\ Id(e) = <<e.name, e.content>>
  BY DEF RegInv, Id, Ids, Entry

LEMMA ActivateLookupStep ==
  ASSUME WorkInv, NEW p \in Procs, ActivateLookup(p) PROVE WorkInv'
<1> DEFINE n == cli[p].name
<1> DEFINE ids == {Id(Latest(n))}
<1> DEFINE d == [cli[p] EXCEPT !.phase = "quota", !.seenAt = block, !.listed = ids]
<1>1. /\ cli[p] \in Command /\ CmdInv(cli[p]) /\ cli[p].phase = "lookup"
      /\ cli[p].op = "activate"
  BY DEF WorkInv, ActivateLookup, At
<1>2. CASE Listed(n) = {} \/ (Listed(n) # {} /\ Latest(n).status # "paused")
  BY <1>2, FinishKeeps DEF ActivateLookup, Results
<1>3. CASE ~(Listed(n) = {} \/ (Listed(n) # {} /\ Latest(n).status # "paused"))
  <2>1. Latest(n) \in reg /\ Latest(n).status = "paused"
    BY <1>3, LatestIs DEF WorkInv, Listed
  <2>2. block \in 0..MaxBlock /\ "quota" \in Phases /\ ids \in SUBSET Ids
    BY <2>1, IdIs DEF WorkInv, RegInv, Phases
  <2>3. d \in Command
    BY <1>1, <2>2, Zenon DEF Command
  <2>4. /\ d.op = "activate" /\ d.phase = "quota" /\ d.name = n
        /\ d.seenAt = block /\ d.listed = ids /\ d.pending = cli[p].pending
        /\ d.payload = cli[p].payload /\ d.copy = cli[p].copy
        /\ d.result = cli[p].result
    BY <1>1, SMT DEF Command
  <2>5. cli' = [cli EXCEPT ![p] = d]
    BY <1>3, Zenon DEF ActivateLookup
  <2> HIDE DEF d
  <2>6. PhaseInv(d) /\ SeenInv(d) /\ RoundsInv(d)
    BY <1>1, <2>4 DEF CmdInv, PhaseInv, SeenInv, RoundsInv
  <2>7. DataInv(d)
    BY <1>1, <2>2, <2>4 DEF CmdInv, DataInv
  <2>8. ReadyInv(d)
    BY <2>1, <2>4 DEF ReadyInv
  <2> QED BY <2>3, <2>5, <2>6, <2>7, <2>8, Locally, LocalKeeps
          DEF Becomes, CmdInv, ActivateLookup
<1> QED BY <1>2, <1>3

LEMMA PauseLookupStep ==
  ASSUME WorkInv, NEW p \in Procs, PauseLookup(p) PROVE WorkInv'
<1> DEFINE ids == {Id(e) : e \in Pausable(cli[p].name)}
<1> DEFINE d == [cli[p] EXCEPT !.phase = "submit", !.listed = ids, !.seenAt = block]
<1>1. /\ cli[p] \in Command /\ CmdInv(cli[p]) /\ cli[p].phase = "lookup"
      /\ cli[p].op = "pause"
  BY DEF WorkInv, PauseLookup, At
<1>2. CASE ids = {}
  BY <1>2, FinishKeeps DEF PauseLookup, Results
<1>3. CASE ids # {}
  <2>1. \A id \in ids : \E e \in reg : Id(e) = id /\ e.status = "active"
    BY DEF Pausable, Active, Listed
  <2>2. block \in 0..MaxBlock /\ "submit" \in Phases /\ ids \in SUBSET Ids
    BY <2>1, IdIs DEF WorkInv, RegInv, Phases
  <2>3. d \in Command
    BY <1>1, <2>2, Zenon DEF Command
  <2>4. /\ d.op = "pause" /\ d.phase = "submit" /\ d.name = cli[p].name
        /\ d.seenAt = block /\ d.listed = ids /\ d.pending = cli[p].pending
        /\ d.payload = cli[p].payload /\ d.copy = cli[p].copy
        /\ d.result = cli[p].result
    BY <1>1, SMT DEF Command
  <2>5. cli' = [cli EXCEPT ![p] = d]
    BY <1>3, Zenon DEF PauseLookup
  <2> HIDE DEF d, ids
  <2>6. PhaseInv(d) /\ SeenInv(d) /\ RoundsInv(d)
    BY <1>1, <2>4 DEF CmdInv, PhaseInv, SeenInv, RoundsInv
  <2>7. DataInv(d)
    BY <1>1, <2>2, <2>4 DEF CmdInv, DataInv
  <2>8. ReadyInv(d)
    BY <1>3, <2>1, <2>4 DEF ReadyInv
  <2> QED BY <2>3, <2>5, <2>6, <2>7, <2>8, Locally, LocalKeeps
          DEF Becomes, CmdInv, PauseLookup
<1> QED BY <1>2, <1>3

LEMMA DeleteLookupStep ==
  ASSUME WorkInv, NEW p \in Procs, DeleteLookup(p) PROVE WorkInv'
<1> DEFINE ids == {Id(e) : e \in Listed(cli[p].name)}
<1> DEFINE d == [cli[p] EXCEPT !.phase = "confirm", !.listed = ids,
                               !.todo = ids, !.seenAt = block]
<1>1. /\ cli[p] \in Command /\ CmdInv(cli[p]) /\ cli[p].phase = "lookup"
      /\ cli[p].op = "delete"
  BY DEF WorkInv, DeleteLookup, At
<1>2. CASE ids = {}
  BY <1>2, FinishKeeps DEF DeleteLookup, Results
<1>3. CASE ids # {}
  <2>1. ids \subseteq {Id(e) : e \in reg}
    BY DEF Listed
  <2>2. block \in 0..MaxBlock /\ "confirm" \in Phases /\ ids \in SUBSET Ids
    BY <2>1, IdIs DEF WorkInv, RegInv, Phases
  <2>3. d \in Command
    BY <1>1, <2>2, Zenon DEF Command
  <2>4. /\ d.op = "delete" /\ d.phase = "confirm" /\ d.name = cli[p].name
        /\ d.seenAt = block /\ d.listed = ids /\ d.todo = ids
        /\ d.payload = cli[p].payload /\ d.copy = cli[p].copy
        /\ d.result = cli[p].result /\ d.pending = cli[p].pending
    BY <1>1, SMT DEF Command
  <2>5. cli' = [cli EXCEPT ![p] = d]
    BY <1>3, Zenon DEF DeleteLookup
  <2> HIDE DEF d, ids
  <2>6. PhaseInv(d) /\ SeenInv(d) /\ RoundsInv(d)
    BY <1>1, <2>4 DEF CmdInv, PhaseInv, SeenInv, RoundsInv
  <2>7. DataInv(d)
    BY <1>1, <2>2, <2>4 DEF CmdInv, DataInv
  <2>8. ReadyInv(d)
    BY <2>1, <2>4 DEF ReadyInv, Registered
  <2> QED BY <2>3, <2>5, <2>6, <2>7, <2>8, Locally, LocalKeeps
          DEF Becomes, CmdInv, DeleteLookup
<1> QED BY <1>2, <1>3

LEMMA ReadChangesetsStep ==
  ASSUME WorkInv, NEW p \in Procs, ReadChangesets(p) PROVE WorkInv'
<1> DEFINE d == [cli[p] EXCEPT !.phase = "csWrite", !.copy = csFile]
<1>1. cli[p] \in Command /\ CmdInv(cli[p]) /\ cli[p].phase = "csRead"
  BY DEF WorkInv, ReadChangesets, At
<1>2. CASE Finish(p, "error")
  BY <1>2, FinishKeeps DEF ReadChangesets, Results
<1>3. CASE cli' = [cli EXCEPT ![p] = d]
  <2>1. "csWrite" \in Phases /\ csFile \in SUBSET Transaction
    BY DEF WorkInv, TxsInv, Phases
  <2>2. d \in Command
    BY <1>1, <2>1, Zenon DEF Command
  <2>3. /\ d.phase = "csWrite" /\ d.copy = csFile /\ d.op = cli[p].op
        /\ d.name = cli[p].name /\ d.content = cli[p].content
        /\ d.pending = cli[p].pending /\ d.result = cli[p].result
        /\ d.payload = cli[p].payload /\ d.seenAt = cli[p].seenAt
    BY <1>1, SMT DEF Command
  <2> HIDE DEF d
  <2>4. PhaseInv(d) /\ SeenInv(d) /\ RoundsInv(d) /\ ReadyInv(d)
    BY <1>1, <2>3 DEF CmdInv, PhaseInv, SeenInv, RoundsInv, ReadyInv, DeployInv
  <2>5. DataInv(d)
    BY <1>1, <2>3 DEF CmdInv, DataInv, WorkInv, TxsInv
  <2> QED BY <1>3, <2>2, <2>4, <2>5, Locally, LocalKeeps
          DEF Becomes, CmdInv, ReadChangesets
<1> QED BY <1>2, <1>3, Zenon DEF ReadChangesets

LEMMA WriteChangesetsStep ==
  ASSUME WorkInv, NEW p \in Procs, WriteChangesets(p) PROVE WorkInv'
<1>1. PICK r \in {"error", "ok"} :
        /\ Finish(p, r)
        /\ csFile' = csFile \/ csFile' = Rewritten(cli[p].copy, cli[p].payload)
  BY DEF WriteChangesets
<1>2. PICK c \in Command : /\ Becomes(p, c) /\ SameData(cli[p], c)
                           /\ c.phase = "done"
  BY <1>1, FinishIs DEF Results
<1>3. /\ cli[p] \in Command /\ CmdInv(cli[p]) /\ cli[p].phase = "csWrite"
  BY DEF WorkInv, WriteChangesets, At
<1>4. CmdInv(c)
  BY <1>2, <1>3, DoneInv
<1>5. UNCHANGED <<reg, block, last, late, prepared, started>>
  BY DEF WriteChangesets, chainVars
<1>6. /\ RegInv' /\ RegGoes /\ last' \in Transaction \cup {NoTx}
      /\ started' \in 0..MaxCommands
  BY <1>5 DEF WorkInv, RegInv, RegGoes, Active
<1>7. CmdInv(c)'
  BY <1>2, <1>4, <1>6, CmdStays DEF WorkInv, Becomes
<1>8. \A tx \in csFile' : tx \in Transaction /\ FreshTx(tx)
  <2>1. cli[p].payload \in Transaction /\ FreshTx(cli[p].payload)
        /\ cli[p].copy \subseteq Transaction /\ \A tx \in cli[p].copy : FreshTx(tx)
    BY <1>3 DEF CmdInv, PhaseInv, DataInv, Command
  <2> QED BY <1>1, <2>1 DEF WorkInv, TxsInv, Rewritten
<1>9. \A tx : FreshTx(tx)' = FreshTx(tx)
  BY <1>5 DEF FreshTx
<1>10. TxsInv'
  BY <1>5, <1>8, <1>9 DEF WorkInv, TxsInv
<1> QED BY <1>2, <1>6, <1>7, <1>10, ProcessKeeps
-----------------------------------------------------------------------------
(* Sending *)

LEMMA Sent ==
  ASSUME WorkflowCommandsAssumption, WorkInv, NEW tx \in Transaction,
         FreshTx(tx), NEW r, Send(tx, r)
  PROVE  /\ RegInv' /\ RegGoes /\ TxsInv'
         /\ started' \in 0..MaxCommands /\ last' \in Transaction \cup {NoTx}
         /\ UNCHANGED csFile
         /\ Landed(r) => /\ Accepts(tx) /\ LandsOn /\ last' = tx
                         /\ block' = block + 1 /\ reg' = After(tx)
         /\ ~Landed(r) => UNCHANGED <<reg, block>>
         /\ Type = "regular" => r # "prepared"
         /\ Type = "regular" /\ Succeeded(r) => Landed(r)
<1>1. r \in TxResults(Type, SkipConfirmation, Accepts(tx), Announces(tx))
  BY DEF Send
<1>2. /\ Landed(r) => Accepts(tx)
      /\ Type = "regular" => r # "prepared"
      /\ Type = "regular" /\ Succeeded(r) => Landed(r)
  BY <1>1 DEF TxResults, Landed, Succeeded, ReceiptResult
<1>3. RegInv' /\ RegGoes /\ last' \in Transaction \cup {NoTx}
      /\ (Landed(r) => /\ LandsOn /\ last' = tx /\ block' = block + 1
                       /\ reg' = After(tx))
      /\ (~Landed(r) => UNCHANGED <<reg, block>>)
  <2>1. CASE Landed(r)
    <3>1. Land(tx)
      BY <2>1 DEF Send
    <3> QED BY <1>2, <2>1, <3>1, Lands DEF WorkInv
  <2>2. CASE ~Landed(r)
    <3>1. UNCHANGED <<reg, block, last>>
      BY <2>2 DEF Send, chainVars
    <3> QED BY <2>2, <3>1 DEF WorkInv, RegInv, RegGoes, Active
  <2> QED BY <2>1, <2>2
<1>4. started' = started /\ csFile' = csFile
      /\ late' \subseteq late \cup {tx} /\ prepared' \subseteq prepared \cup {tx}
  BY DEF Send
<1>5. \A t \in late' \cup prepared' \cup csFile' : t \in Transaction /\ FreshTx(t)
  BY <1>4 DEF WorkInv, TxsInv
<1>6. \A t \in Transaction : FreshTx(t) => FreshTx(t)'
  BY <1>3, FreshStays DEF WorkInv
<1>7. TxsInv'
  BY <1>5, <1>6 DEF TxsInv
<1> QED BY <1>2, <1>3, <1>4, <1>7 DEF WorkInv

LEMMA ReportIs ==
  ASSUME WorkInv, NEW p \in Procs, NEW payload \in Transaction, NEW r,
         Report(p, payload, r)
  PROVE  \E c \in Command :
           /\ Becomes(p, c) /\ c.op = cli[p].op /\ c.name = cli[p].name
           /\ c.content = cli[p].content /\ c.seenAt = cli[p].seenAt
           /\ c.pending = cli[p].pending /\ c.copy = cli[p].copy
           /\ \/ /\ Type = "changeset" /\ c.phase = "csRead" /\ c.payload = payload
                 /\ c.result = cli[p].result
              \/ /\ c.phase = "done" /\ c.payload = cli[p].payload
                 /\ c.result = (IF Succeeded(r) THEN "ok" ELSE "error")
<1>1. CASE IsChangeset(r)
  <2> DEFINE d == [cli[p] EXCEPT !.phase = "csRead", !.payload = payload]
  <2>1. cli[p] \in Command /\ "csRead" \in Phases /\ payload \in Transaction \cup {NoTx}
    BY DEF WorkInv, Phases
  <2>2. d \in Command
    BY <2>1, Zenon DEF Command
  <2>3. /\ d.op = cli[p].op /\ d.name = cli[p].name
        /\ d.content = cli[p].content /\ d.seenAt = cli[p].seenAt
        /\ d.pending = cli[p].pending /\ d.copy = cli[p].copy
        /\ d.phase = "csRead" /\ d.payload = payload /\ d.result = cli[p].result
    BY <2>1, SMT DEF Command
  <2>4. cli' = [cli EXCEPT ![p] = d]
    BY <1>1, Zenon DEF Report
  <2> HIDE DEF d
  <2> QED BY <1>1, <2>2, <2>3, <2>4 DEF Becomes, IsChangeset
<1>2. CASE ~IsChangeset(r)
  <2> DEFINE result == IF Succeeded(r) THEN "ok" ELSE "error"
  <2>1. result \in Results
    BY DEF Results
  <2>2. Finish(p, result)
    BY <1>2 DEF Report
  <2> HIDE DEF result
  <2>3. PICK c \in Command : /\ Becomes(p, c) /\ SameData(cli[p], c)
                             /\ c.phase = "done" /\ c.result = result
    BY <2>1, <2>2, FinishIs
  <2> QED BY <2>3 DEF SameData, result
<1> QED BY <1>1, <1>2

\* A command that has sent its transaction, or prepared it.
LEMMA ReportKeeps ==
  ASSUME WorkflowCommandsAssumption, WorkInv, NEW p \in Procs, At(p, "submit"),
         NEW tx \in Transaction, FreshTx(tx), NEW payload \in Transaction,
         FreshTx(payload), NEW r, Send(tx, r), Report(p, payload, r)
  PROVE  WorkInv'
<1>1. PICK c \in Command :
        /\ Becomes(p, c) /\ c.op = cli[p].op /\ c.name = cli[p].name
        /\ c.content = cli[p].content /\ c.seenAt = cli[p].seenAt
        /\ c.pending = cli[p].pending /\ c.copy = cli[p].copy
        /\ \/ /\ Type = "changeset" /\ c.phase = "csRead" /\ c.payload = payload
              /\ c.result = cli[p].result
           \/ c.phase = "done" /\ c.payload = cli[p].payload
  BY ReportIs
<1>2. cli[p] \in Command /\ CmdInv(cli[p]) /\ cli[p].phase = "submit"
  BY DEF WorkInv, At
<1>3. PhaseInv(c) /\ SeenInv(c) /\ RoundsInv(c) /\ ReadyInv(c)
  BY <1>1, <1>2 DEF CmdInv, PhaseInv, SeenInv, RoundsInv, ReadyInv, DeployInv
<1>4. DataInv(c)
  BY <1>1, <1>2 DEF CmdInv, DataInv
<1>5. CmdInv(c)
  BY <1>3, <1>4 DEF CmdInv
<1>6. /\ RegInv' /\ RegGoes /\ TxsInv' /\ started' \in 0..MaxCommands
      /\ last' \in Transaction \cup {NoTx}
  BY Sent
<1>7. CmdInv(c)'
  BY <1>5, <1>6, CmdStays DEF WorkInv
<1> QED BY <1>1, <1>6, <1>7, ProcessKeeps

LEMMA UpsertTxIs ==
  ASSUME WorkflowCommandsAssumption, WorkInv, NEW p \in Procs, Ready(p, "deploy")
  PROVE  UpsertTx(p) \in Transaction /\ FreshTx(UpsertTx(p))
<1> DEFINE c == cli[p]
<1> DEFINE status == IF c.seen = "none" THEN "active" ELSE c.seen
<1> DEFINE tx == [op |-> "upsert", name |-> c.name, tag |-> CliTag,
                  content |-> c.content, keepAlive |-> FALSE, asOf |-> c.seenAt,
                  status |-> status]
<1>1. /\ c \in Command /\ CmdInv(c) /\ c.phase = "submit" /\ c.op = "deploy"
  BY DEF WorkInv, Ready, At
<1>2. /\ c.name \in Names /\ c.content \in Contents /\ c.seenAt \in 0..MaxBlock
      /\ c.seen \in {"none", "active", "paused"} /\ c.seenAt <= block
  BY <1>1 DEF CmdInv, PhaseInv, DataInv, Command
<1>3. status \in {"active", "paused"} /\ (status = "active" => c.seen # "paused")
  BY <1>2
<1>4. tx = UpsertTx(p)
  BY Zenon DEF UpsertTx
<1>5. tx \in [op : {"upsert"}, name : Names, tag : {CliTag, OtherTag},
              asOf : 0..MaxBlock, content : Versions,
              status : {"active", "paused"}, keepAlive : BOOLEAN]
  <2>1. /\ "upsert" \in {"upsert"} /\ CliTag \in {CliTag, OtherTag}
        /\ c.content \in Versions /\ FALSE \in BOOLEAN
    BY <1>2 DEF Versions
  <2> HIDE DEF status
  <2> QED BY <1>2, <1>3, <2>1, Zenon
<1>6. FreshTx(tx)
  <2>1. c.content # OtherContent
    BY <1>2 DEF WorkflowCommandsAssumption
  <2>2. status = "active" =>
          \A e \in reg : e.name = c.name /\ e.tag = CliTag /\ e.status = "paused" =>
            c.seenAt < e.changed
    BY <1>1, <1>3 DEF CmdInv, SeenInv
  <2> HIDE DEF status
  <2> QED BY <1>2, <2>1, <2>2 DEF FreshTx, CliTag, OtherTag
<1> QED BY <1>4, <1>5, <1>6 DEF Transaction

LEMMA ListTxIs ==
  ASSUME NEW op \in {"activate", "pause", "delete"}, NEW ids \in SUBSET Ids
  PROVE  /\ [op |-> op, ids |-> ids] \in Transaction
         /\ FreshTx([op |-> op, ids |-> ids])
  BY DEF Transaction, FreshTx

LEMMA SubmitUpsertStep ==
  ASSUME WorkflowCommandsAssumption, WorkInv, NEW p \in Procs, SubmitUpsert(p)
  PROVE  WorkInv'
  BY UpsertTxIs, ReportKeeps DEF SubmitUpsert, Ready

LEMMA SubmitActivateStep ==
  ASSUME WorkflowCommandsAssumption, WorkInv, NEW p \in Procs, SubmitActivate(p)
  PROVE  WorkInv'
<1>1. cli[p].listed \in SUBSET Ids
  BY DEF WorkInv, Command
<1>2. /\ ActivateTx(cli[p].listed) \in Transaction
      /\ FreshTx(ActivateTx(cli[p].listed))
  BY <1>1, ListTxIs DEF ActivateTx
<1> QED BY <1>2, ReportKeeps DEF SubmitActivate, Ready

LEMMA SubmitPauseStep ==
  ASSUME WorkflowCommandsAssumption, WorkInv, NEW p \in Procs, SubmitPause(p)
  PROVE  WorkInv'
<1>1. cli[p].listed \in SUBSET Ids
  BY DEF WorkInv, Command
<1>2. /\ PauseTx(cli[p].listed) \in Transaction /\ FreshTx(PauseTx(cli[p].listed))
      /\ \A first \in cli[p].listed :
           PauseTx({first}) \in Transaction /\ FreshTx(PauseTx({first}))
  BY <1>1, ListTxIs DEF PauseTx
<1> QED BY <1>2, ReportKeeps DEF SubmitPause, Ready

LEMMA DeletesOne ==
  ASSUME NEW id \in Ids
  PROVE  /\ DeleteTx(id) \in Transaction /\ FreshTx(DeleteTx(id))
         /\ DeleteTx(id).op = "delete" /\ DeleteTx(id).ids = {id}
  BY ListTxIs DEF DeleteTx

\* A version that was deleted is not there, and nothing else of its kind.
LEMMA DeletedIsGone ==
  ASSUME RegInv, NEW id \in Ids, Accepts(DeleteTx(id)),
         reg' = After(DeleteTx(id)), NEW t
  PROVE  OnlySince(id, t)'
<1>1. reg' = {e \in reg : Id(e) # id}
  BY DeletesOne, AfterIs
<1>2. PICK e \in reg : Id(e) = id
  BY DeletesOne DEF Accepts, Registered
<1>3. e.name = id[1] /\ e.content = id[2]
  BY <1>2, IdIs DEF Ids
<1>4. ASSUME NEW f \in reg', f.name = id[1],
             f.content = OtherContent <=> id[2] = OtherContent
      PROVE  FALSE
  <2>1. f \in reg /\ Id(f) # id
    BY <1>1, <1>4
  <2>2. f.tag = e.tag
    BY <1>3, <1>4, <2>1 DEF RegInv, Entry
  <2> QED BY <1>2, <1>3, <1>4, <2>1, <2>2 DEF RegInv
<1> QED BY <1>4 DEF OnlySince

\* A round of a delete, which goes on with rest.
Round(p, rest, bad, phase, result) ==
  /\ phase = IF rest = {} THEN "done" ELSE "submit"
  /\ result = IF rest # {} THEN "none" ELSE IF bad THEN "error" ELSE "ok"
  /\ cli' = [cli EXCEPT ![p].todo = rest, ![p].failed = bad,
                        ![p].phase = phase, ![p].result = result]

LEMMA RoundIs ==
  ASSUME WorkInv, NEW p \in Procs, NEW rest \in SUBSET Ids, NEW bad \in BOOLEAN,
         NEW phase, NEW result, Round(p, rest, bad, phase, result)
  PROVE  \E d \in Command :
           /\ Becomes(p, d) /\ d.op = cli[p].op /\ d.name = cli[p].name
           /\ d.content = cli[p].content /\ d.seenAt = cli[p].seenAt
           /\ d.listed = cli[p].listed /\ d.todo = rest /\ d.failed = bad
           /\ d.phase = phase /\ d.result = result
           /\ d.payload = cli[p].payload /\ d.copy = cli[p].copy
<1> DEFINE d == [cli[p] EXCEPT !.todo = rest, !.failed = bad, !.phase = phase,
                               !.result = result]
<1>1. /\ cli[p] \in Command /\ phase \in Phases /\ result \in Results
  BY DEF WorkInv, Round, Phases, Results
<1>2. d \in Command
  BY <1>1, Zenon DEF Command
<1>3. /\ d.op = cli[p].op /\ d.name = cli[p].name
      /\ d.content = cli[p].content /\ d.seenAt = cli[p].seenAt
      /\ d.listed = cli[p].listed /\ d.todo = rest /\ d.failed = bad
      /\ d.phase = phase /\ d.result = result
      /\ d.payload = cli[p].payload /\ d.copy = cli[p].copy
  BY <1>1, SMT DEF Command
<1>4. cli' = [cli EXCEPT ![p] = d]
  BY Zenon DEF Round
<1> HIDE DEF d
<1> QED BY <1>2, <1>3, <1>4 DEF Becomes

LEMMA NextRound ==
  ASSUME WorkflowCommandsAssumption, WorkInv, NEW p \in Procs, Ready(p, "delete"),
         NEW c, c = cli[p], NEW r, NEW id \in c.todo, Send(DeleteTx(id), r),
         NEW rest, rest = c.todo \ {id}, NEW bad, bad = DeleteFailed(p, r),
         NEW phase, NEW result, Round(p, rest, bad, phase, result)
  PROVE  /\ WorkInv'
         /\ Type = "regular" /\ result = "ok" =>
              \A i \in c.listed : OnlySince(i, c.seenAt)'
<1>1. /\ c \in Command /\ CmdInv(c) /\ c.phase = "submit" /\ c.op = "delete"
      /\ id \in Ids /\ c.todo \in SUBSET Ids /\ c.failed \in BOOLEAN
  BY DEF WorkInv, Ready, At, Command
<1>2. bad \in BOOLEAN /\ rest \in SUBSET Ids
      /\ (~bad => ~c.failed /\ Succeeded(r))
  BY <1>1 DEF DeleteFailed, Succeeded
<1>4. PICK d \in Command :
        /\ Becomes(p, d) /\ d.op = "delete" /\ d.name = c.name
        /\ d.content = c.content
        /\ d.seenAt = c.seenAt /\ d.listed = c.listed /\ d.todo = rest
        /\ d.failed = bad /\ d.phase = phase /\ d.result = result
        /\ d.payload = c.payload /\ d.copy = c.copy
  BY <1>1, <1>2, RoundIs
<1>6. (phase = "done" /\ rest = {}) \/ (phase = "submit" /\ rest # {} /\ result = "none")
  BY DEF Round
<1>7. /\ RegInv' /\ RegGoes /\ TxsInv'
      /\ started' \in 0..MaxCommands /\ last' \in Transaction \cup {NoTx}
      /\ ~Landed(r) => UNCHANGED <<reg, block>>
      /\ Landed(r) => /\ Accepts(DeleteTx(id)) /\ reg' = After(DeleteTx(id))
                      /\ block' = block + 1
      /\ Type = "regular" /\ Succeeded(r) => Landed(r)
  BY <1>1, DeletesOne, Sent
<1>8. CmdInv(c)'
  BY <1>1, <1>7, CmdStays DEF WorkInv
<1>9. Type = "regular" /\ ~bad => \A i \in c.listed \ rest : OnlySince(i, c.seenAt)'
  <2>1. SUFFICES ASSUME Type = "regular", ~bad, NEW i \in c.listed \ rest
                 PROVE  OnlySince(i, c.seenAt)'
    OBVIOUS
  <2>2. CASE i = id
    BY <1>1, <1>2, <1>7, <2>1, <2>2, DeletedIsGone DEF WorkInv
  <2>3. CASE i # id
    <3>1. i \in c.listed \ c.todo /\ ~c.failed
      BY <1>2, <2>1, <2>3
    <3> QED BY <1>1, <1>8, <2>1, <3>1 DEF CmdInv, RoundsInv
  <2> QED BY <2>2, <2>3
<1>10. PhaseInv(d)'
  BY <1>1, <1>4, <1>6 DEF CmdInv, PhaseInv
<1>11. SeenInv(d)'
  BY <1>4 DEF SeenInv
<1>12. DataInv(d)'
  BY <1>4, <1>8 DEF CmdInv, DataInv
<1>13. RoundsInv(d)'
  BY <1>4, <1>9 DEF RoundsInv
<1>14. ReadyInv(d)'
  <2>1. SUFFICES ASSUME c.seenAt = block', phase = "submit"
                 PROVE  Registered(rest)'
    BY <1>4, <1>6 DEF ReadyInv
  <2>2. ~Landed(r)
    <3>1. c.seenAt <= block /\ block \in Nat /\ c.seenAt \in Nat
      BY <1>1 DEF CmdInv, DataInv, WorkInv, RegInv, Command
    <3> QED BY <1>7, <2>1, <3>1
  <2>3. Registered(c.todo)
    BY <1>1, <1>7, <2>1, <2>2 DEF CmdInv, ReadyInv
  <2> QED BY <1>7, <2>2, <2>3 DEF Registered
<1>15. CmdInv(d)'
  BY <1>10, <1>11, <1>12, <1>13, <1>14 DEF CmdInv
<1>16. WorkInv'
  BY <1>4, <1>7, <1>15, ProcessKeeps
<1>17. ASSUME Type = "regular", result = "ok"
       PROVE  \A i \in c.listed : OnlySince(i, c.seenAt)'
  <2>1. ~bad /\ rest = {}
    BY <1>17 DEF Round
  <2> QED BY <1>9, <1>17, <2>1
<1> QED BY <1>16, <1>17

LEMMA SubmitDeleteStep ==
  ASSUME WorkflowCommandsAssumption, WorkInv, NEW p \in Procs, SubmitDelete(p)
  PROVE  WorkInv'
<1>1. PICK r \in TxOutcomes, id \in cli[p].todo :
        /\ Send(DeleteTx(id), r)
        /\ IF IsChangeset(r)
           THEN \E first \in MaybeFirst(p, id) : Report(p, DeleteTx(first), r)
           ELSE LET rest == cli[p].todo \ {id}
                    bad == DeleteFailed(p, r)
                IN cli' = [cli EXCEPT
                    ![p].todo = rest, ![p].failed = bad,
                    ![p].phase = IF rest = {} THEN "done" ELSE "submit",
                    ![p].result = IF rest # {} THEN "none"
                                  ELSE IF bad THEN "error" ELSE "ok"]
  BY Zenon DEF SubmitDelete
<1>2. /\ cli[p].todo \in SUBSET Ids /\ cli[p].listed \in SUBSET Ids /\ id \in Ids
      /\ Ready(p, "delete") /\ At(p, "submit")
  BY DEF WorkInv, Command, SubmitDelete, Ready
<1>3. CASE IsChangeset(r)
  <2>1. PICK first \in MaybeFirst(p, id) : Report(p, DeleteTx(first), r)
    BY <1>1, <1>3
  <2>2. first \in Ids
    BY <1>2 DEF MaybeFirst
  <2> QED BY <1>1, <1>2, <2>1, <2>2, DeletesOne, ReportKeeps
<1>4. CASE ~IsChangeset(r)
  <2> DEFINE rest == cli[p].todo \ {id}
  <2> DEFINE phase == IF rest = {} THEN "done" ELSE "submit"
  <2> DEFINE result == IF rest # {} THEN "none"
                       ELSE IF DeleteFailed(p, r) THEN "error" ELSE "ok"
  <2>1. Round(p, rest, DeleteFailed(p, r), phase, result)
    BY <1>1, <1>4 DEF Round
  <2> QED BY <1>1, <1>2, <2>1, NextRound
<1> QED BY <1>3, <1>4
-----------------------------------------------------------------------------
(* Other clients, and transactions that land late *)

LEMMA WorldKeeps ==
  ASSUME WorkInv, RegInv', RegGoes, TxsInv', started' \in 0..MaxCommands,
         last' \in Transaction \cup {NoTx}, UNCHANGED cli
  PROVE  WorkInv'
<1>1. ASSUME NEW q \in Procs PROVE CmdInv(cli[q])'
  <2>1. PICK e \in Command : e = cli[q] /\ CmdInv(e)
    BY DEF WorkInv
  <2>2. CmdInv(e)'
    BY <2>1, CmdStays DEF WorkInv
  <2>3. cli'[q] = e
    BY <2>1
  <2> QED BY <2>2, <2>3
<1> QED BY <1>1 DEF WorkInv

\* A transaction lands, and some that were under way are no more.
LEMMA LandKeeps ==
  ASSUME WorkflowCommandsAssumption, WorkInv, NEW tx \in Transaction,
         FreshTx(tx), Accepts(tx), Land(tx), late' \subseteq late,
         prepared' \subseteq prepared, UNCHANGED <<csFile, cli, started>>
  PROVE  WorkInv'
<1>1. RegInv' /\ RegGoes /\ last' = tx
  BY Lands DEF WorkInv
<1>2. \A t \in Transaction : FreshTx(t) => FreshTx(t)'
  BY <1>1, FreshStays DEF WorkInv
<1>3. TxsInv'
  BY <1>2 DEF WorkInv, TxsInv
<1> QED BY <1>1, <1>3, WorldKeeps DEF WorkInv

LEMMA DropKeeps ==
  ASSUME WorkInv, UNCHANGED chainVars, late' \subseteq late,
         prepared' \subseteq prepared, UNCHANGED <<csFile, cli, started>>
  PROVE  WorkInv'
<1>1. UNCHANGED <<reg, block, last>>
  BY DEF chainVars
<1>2. RegInv' /\ RegGoes /\ last' \in Transaction \cup {NoTx}
  BY <1>1 DEF WorkInv, RegInv, RegGoes, Active
<1>3. \A t : FreshTx(t)' = FreshTx(t)
  BY <1>1 DEF FreshTx
<1>4. TxsInv'
  BY <1>3 DEF WorkInv, TxsInv
<1> QED BY <1>2, <1>4, WorldKeeps DEF WorkInv

OthersTx(n) ==
  [op |-> "upsert", name |-> n, tag |-> OtherTag, asOf |-> block,
   content |-> OtherContent, status |-> "active", keepAlive |-> TRUE]

LEMMA OthersTxIs ==
  ASSUME WorkflowCommandsAssumption, WorkInv, NEW n \in Names, OtherClient(n)
  PROVE  /\ OthersTx(n) \in Transaction /\ FreshTx(OthersTx(n))
         /\ Accepts(OthersTx(n)) /\ Land(OthersTx(n))
<1> DEFINE tx == [op |-> "upsert", name |-> n, tag |-> OtherTag, asOf |-> block,
                  content |-> OtherContent, status |-> "active",
                  keepAlive |-> TRUE]
<1>1. tx = OthersTx(n)
  BY DEF OthersTx
<1>2. tx \in [op : {"upsert"}, name : Names, tag : {CliTag, OtherTag},
              asOf : 0..MaxBlock, content : Versions,
              status : {"active", "paused"}, keepAlive : BOOLEAN]
  <2>1. /\ block \in 0..MaxBlock /\ OtherContent \in Versions
        /\ "upsert" \in {"upsert"} /\ OtherTag \in {CliTag, OtherTag}
        /\ "active" \in {"active", "paused"} /\ TRUE \in BOOLEAN
    BY DEF WorkInv, RegInv, Versions
  <2> QED BY <2>1, Zenon
<1>3. OtherContent \notin {e.content : e \in Listed(n)} /\ Accepts(tx) /\ Land(tx)
  BY Zenon DEF OtherClient
<1>4. FreshTx(tx)
  <2>1. \A e \in reg : ~(e.name = n /\ e.tag = OtherTag)
    BY <1>3 DEF Listed, WorkInv, RegInv
  <2>2. block <= block
    BY DEF WorkInv, RegInv
  <2> QED BY <2>1, <2>2 DEF FreshTx
<1> QED BY <1>1, <1>2, <1>3, <1>4 DEF Transaction

LEMMA OutsideStep ==
  ASSUME WorkflowCommandsAssumption, WorkInv,
         (\E n \in Names : OtherClient(n)) \/ MineLate \/ SubmitPrepared
           \/ ApplyChangeset
  PROVE  WorkInv'
<1>1. ASSUME NEW n \in Names, OtherClient(n) PROVE WorkInv'
  <2>1. UNCHANGED <<late, prepared, csFile, cli, started>>
    BY <1>1 DEF OtherClient, outVars
  <2> QED BY <1>1, <2>1, OthersTxIs, LandKeeps
<1>2. CASE MineLate
  <2>1. PICK tx \in late :
          /\ late' = late \ {tx}
          /\ UNCHANGED chainVars \/ (Accepts(tx) /\ Land(tx))
    BY <1>2 DEF MineLate
  <2>2. UNCHANGED <<prepared, csFile, cli, started>>
    BY <1>2 DEF MineLate
  <2>3. tx \in Transaction /\ FreshTx(tx)
    BY DEF WorkInv, TxsInv
  <2> QED BY <2>1, <2>2, <2>3, LandKeeps, DropKeeps
<1>3. CASE SubmitPrepared
  <2>1. PICK tx \in prepared :
          /\ prepared' = prepared \ {tx}
          /\ UNCHANGED chainVars \/ (Accepts(tx) /\ Land(tx))
    BY <1>3 DEF SubmitPrepared
  <2>2. UNCHANGED <<late, csFile, cli, started>>
    BY <1>3 DEF SubmitPrepared
  <2>3. tx \in Transaction /\ FreshTx(tx)
    BY DEF WorkInv, TxsInv
  <2> QED BY <2>1, <2>2, <2>3, LandKeeps, DropKeeps
<1>4. CASE ApplyChangeset
  <2>1. PICK tx \in csFile : Accepts(tx) /\ Land(tx)
    BY <1>4 DEF ApplyChangeset
  <2>2. UNCHANGED <<late, prepared, csFile, cli, started>>
    BY <1>4 DEF ApplyChangeset, outVars
  <2>3. tx \in Transaction /\ FreshTx(tx)
    BY DEF WorkInv, TxsInv
  <2> QED BY <2>1, <2>2, <2>3, LandKeeps
<1> QED BY <1>1, <1>2, <1>3, <1>4
-----------------------------------------------------------------------------
(* The invariant *)

LEMMA InitInv == ASSUME WorkflowCommandsAssumption, Init PROVE WorkInv
<1> DEFINE d == [op |-> "none", phase |-> "idle", result |-> "none",
                 name |-> NoName, content |-> OtherContent, seen |-> "none",
                 seenAt |-> 0, pending |-> 1, listed |-> {}, todo |-> {},
                 failed |-> FALSE, payload |-> NoTx, copy |-> {}]
<1>1. d = Idle
  BY DEF Idle, Record
<1>2. d \in Command
  <2>1. /\ 0 \in 0..MaxBlock /\ 1 \in {0, 1}
        /\ "idle" \in Phases /\ "none" \in Results
        /\ "none" \in {"none", "deploy", "activate", "pause", "delete"}
        /\ NoName \in Names \cup {NoName} /\ NoTx \in Transaction \cup {NoTx}
        /\ {} \in SUBSET Ids /\ {} \in SUBSET Transaction /\ FALSE \in BOOLEAN
        /\ "none" \in {"none", "active", "paused"} /\ OtherContent \in Versions
    BY DEF WorkflowCommandsAssumption, Phases, Results, Versions
  <2> QED BY <2>1, Zenon DEF Command
<1>3. reg = {} /\ block = 0 /\ last = NoTx /\ late = {} /\ prepared = {}
      /\ csFile = {} /\ started = 0
  BY DEF Init
<1>4. CmdInv(d)
  <2>1. PhaseInv(d) /\ SeenInv(d) /\ RoundsInv(d) /\ ReadyInv(d)
    BY DEF PhaseInv, SeenInv, RoundsInv, ReadyInv, DeployInv
  <2>2. DataInv(d)
    BY <1>3 DEF DataInv, FreshTx, NoTx
  <2> QED BY <2>1, <2>2 DEF CmdInv
<1>5. RegInv
  <2>1. Active(reg) = {}
    BY <1>3 DEF Active
  <2>2. Cardinality(Active(reg)) <= MaxActive
    BY <2>1, FS_EmptySet DEF WorkflowCommandsAssumption
  <2>3. block \in 0..MaxBlock /\ IsFiniteSet(reg)
    BY <1>3, FS_EmptySet DEF WorkflowCommandsAssumption
  <2> QED BY <1>3, <2>2, <2>3 DEF RegInv
<1>6. started \in 0..MaxCommands
  BY <1>3 DEF WorkflowCommandsAssumption
<1>7. cli \in [Procs -> Command] /\ \A p \in Procs : cli[p] = d
  <2> HIDE DEF d
  <2> QED BY <1>1, <1>2 DEF Init
<1>8. \A p \in Procs : CmdInv(cli[p])
  <2> TAKE p \in Procs
  <2>1. cli[p] = d
    BY <1>7
  <2> HIDE DEF d
  <2> QED BY <1>4, <2>1
<1> QED BY <1>3, <1>5, <1>6, <1>7, <1>8 DEF WorkInv, TxsInv

LEMMA OwnStep ==
  ASSUME WorkflowCommandsAssumption, WorkInv, NEW p \in Procs, Step(p)
  PROVE  WorkInv'
  BY ClientFailsStep, ConnectStep, DeployLookupStep, ActivateLookupStep,
     PauseLookupStep, DeleteLookupStep, ConfirmStep, CountSameNameStep,
     CheckQuotaStep, UploadStep, SubmitUpsertStep, SubmitActivateStep,
     SubmitPauseStep, SubmitDeleteStep, ReadChangesetsStep, WriteChangesetsStep
     DEF Step

LEMMA StepInv ==
  ASSUME WorkflowCommandsAssumption, WorkInv, [Next]_vars PROVE WorkInv'
<1>1. CASE UNCHANGED vars
  <2>1. UNCHANGED chainVars /\ UNCHANGED <<late, prepared, csFile, cli, started>>
    BY <1>1 DEF vars, outVars
  <2> QED BY <2>1, DropKeeps
<1>2. ASSUME NEW p \in Procs, NEW n \in Names,
             \/ \E c \in Contents : StartDeploy(p, n, c)
             \/ StartActivate(p, n) \/ StartPause(p, n) \/ StartDelete(p, n)
      PROVE  WorkInv'
  <2>1. OtherContent \in Versions /\ Contents \subseteq Versions
    BY DEF Versions
  <2>2. CASE \E c \in Contents : StartDeploy(p, n, c)
    BY <2>1, <2>2, StartStep DEF StartDeploy
  <2>3. CASE StartActivate(p, n)
    BY <2>1, <2>3, StartStep DEF StartActivate
  <2>4. CASE StartPause(p, n)
    BY <2>1, <2>4, StartStep DEF StartPause
  <2>5. CASE StartDelete(p, n)
    BY <2>1, <2>5, StartStep DEF StartDelete
  <2> QED BY <1>2, <2>2, <2>3, <2>4, <2>5
<1>3. CASE Next
  BY <1>2, <1>3, OwnStep, OutsideStep DEF Next
<1> QED BY <1>1, <1>3

LEMMA InvType == ASSUME WorkInv PROVE TypeOK
  BY DEF WorkInv, RegInv, TxsInv, TypeOK

\* The registry changes only by a transaction that has just landed.
LEMMA RegistrySteps ==
  ASSUME WorkflowCommandsAssumption, WorkInv, [Next]_vars
  PROVE  \/ UNCHANGED <<reg, block>>
         \/ \E tx \in Transaction :
              FreshTx(tx) /\ LandsOn /\ reg' = After(tx) /\ last' = tx
<1> DEFINE Goal == \/ UNCHANGED <<reg, block>>
                   \/ \E tx \in Transaction :
                        FreshTx(tx) /\ LandsOn /\ reg' = After(tx) /\ last' = tx
<1>1. ASSUME NEW tx \in Transaction, FreshTx(tx), NEW r, Send(tx, r) PROVE Goal
  BY <1>1, Sent
<1>2. ASSUME NEW tx \in Transaction, FreshTx(tx), Accepts(tx), Land(tx) PROVE Goal
  BY <1>2, Lands DEF WorkInv
<1>3. ASSUME UNCHANGED chainVars PROVE Goal
  BY <1>3 DEF chainVars
<1> HIDE DEF Goal
<1>4. ASSUME NEW p \in Procs, Step(p) PROVE Goal
  <2>1. cli[p].listed \in SUBSET Ids /\ cli[p].todo \in SUBSET Ids
    BY DEF WorkInv, Command
  <2>2. CASE SubmitUpsert(p)
    BY <1>1, <2>2, UpsertTxIs DEF SubmitUpsert
  <2>3. CASE SubmitActivate(p)
    BY <1>1, <2>1, <2>3, ListTxIs DEF SubmitActivate, ActivateTx
  <2>4. CASE SubmitPause(p)
    BY <1>1, <2>1, <2>4, ListTxIs DEF SubmitPause, PauseTx
  <2>5. CASE SubmitDelete(p)
    BY <1>1, <2>1, <2>5, DeletesOne DEF SubmitDelete
  <2>6. CASE WriteChangesets(p)
    BY <1>3, <2>6 DEF WriteChangesets
  <2>7. LocalStep => Goal
    BY <1>3 DEF LocalStep
  <2> QED BY <1>4, <2>2, <2>3, <2>4, <2>5, <2>6, <2>7
          DEF Step, ClientFails, Connect, ReadFails, DeployLookup, ActivateLookup,
              PauseLookup, DeleteLookup, Confirm, CountSameName, CheckQuota,
              Upload, ReadChangesets
<1>5. ASSUME NEW p \in Procs, NEW n \in Names,
             \/ \E c \in Contents : StartDeploy(p, n, c)
             \/ StartActivate(p, n) \/ StartPause(p, n) \/ StartDelete(p, n)
      PROVE  Goal
  BY <1>3, <1>5 DEF StartDeploy, StartActivate, StartPause, StartDelete, Start
<1>6. ASSUME NEW n \in Names, OtherClient(n) PROVE Goal
  BY <1>2, <1>6, OthersTxIs
<1>7. ASSUME MineLate \/ SubmitPrepared \/ ApplyChangeset PROVE Goal
  <2>1. \A tx \in late \cup prepared \cup csFile : tx \in Transaction /\ FreshTx(tx)
    BY DEF WorkInv, TxsInv
  <2>2. (\E tx \in late \cup prepared \cup csFile : Accepts(tx) /\ Land(tx))
        \/ UNCHANGED chainVars
    BY <1>7, Zenon DEF MineLate, SubmitPrepared, ApplyChangeset
  <2> QED BY <1>2, <1>3, <2>1, <2>2
<1>8. ASSUME UNCHANGED vars PROVE Goal
  <2>1. UNCHANGED chainVars
    BY <1>8 DEF vars
  <2> QED BY <1>3, <2>1
<1>9. Goal
  BY <1>4, <1>5, <1>6, <1>7, <1>8, Zenon DEF Next
<1> QED BY <1>9 DEF Goal

LEMMA PausesStay ==
  ASSUME WorkflowCommandsAssumption, WorkInv, [Next]_vars PROVE PauseNotUndone
<1>1. CASE UNCHANGED <<reg, block>>
  BY <1>1 DEF PauseNotUndone, WorkInv, RegInv
<1>2. CASE \E tx \in Transaction :
             FreshTx(tx) /\ LandsOn /\ reg' = After(tx) /\ last' = tx
  BY <1>2, UndoesNoPause DEF WorkInv
<1> QED BY <1>1, <1>2, RegistrySteps

LEMMA Invariant == ASSUME WorkflowCommandsAssumption PROVE Spec => []WorkInv
<1>1. Init => WorkInv
  BY InitInv
<1>2. WorkInv /\ [Next]_vars => WorkInv'
  BY StepInv
<1> QED BY <1>1, <1>2, PTL DEF Spec
-----------------------------------------------------------------------------
(* What the contract counts *)

LEMMA KeptFields ==
  ASSUME NEW e \in Entry, NEW tx
  PROVE  IF e.name = tx.name /\ e.status = "active" /\ ~tx.keepAlive
         THEN Kept(tx, e).status = "paused" ELSE Kept(tx, e) = e
  BY DEF Entry, Kept

LEMMA TurnedFields ==
  ASSUME NEW e \in Entry, NEW ids, NEW s
  PROVE  /\ Id(Turned(ids, s, e)) = Id(e)
         /\ Id(e) \in ids => Turned(ids, s, e).status = s
         /\ IF Id(e) \in ids /\ e.status # s
            THEN Turned(ids, s, e).changed = block + 1
            ELSE Turned(ids, s, e) = e
  BY DEF Entry, Turned, Id

LEMMA ActiveFinite ==
  ASSUME RegInv, NEW tx \in Transaction
  PROVE  /\ IsFiniteSet(Active(reg)) /\ Cardinality(Active(reg)) \in Nat
         /\ Cardinality(Active(reg)) <= MaxActive
         /\ IsFiniteSet(Active(After(tx))) /\ Cardinality(Active(After(tx))) \in Nat
<1>1. IsFiniteSet(After(tx)) /\ IsFiniteSet(reg)
  BY StaysFinite DEF RegInv
<1>2. Active(reg) \subseteq reg /\ Active(After(tx)) \subseteq After(tx)
  BY DEF Active
<1>3. /\ IsFiniteSet(Active(reg)) /\ Cardinality(Active(reg)) \in Nat
      /\ IsFiniteSet(Active(After(tx))) /\ Cardinality(Active(After(tx))) \in Nat
  BY <1>1, <1>2, Smaller
<1> QED BY <1>3 DEF RegInv

\* A deploy lets its own version run, and none of the others of its name.
LEMMA UpsertRuns ==
  ASSUME RegInv, NEW tx \in Transaction, tx.op = "upsert", ~tx.keepAlive
  PROVE  LET others == {e \in Active(reg) : e.name # tx.name}
         IN /\ IF tx.status = "active"
               THEN Active(After(tx)) = others \cup {Added(tx)}
               ELSE Active(After(tx)) = others
            /\ Added(tx) \notin reg /\ Added(tx) \in After(tx)
<1>1. After(tx) = {Kept(tx, e) : e \in reg \ Replaced(tx)} \cup {Added(tx)}
  BY AfterParts
<1>2. Added(tx).changed = block + 1 /\ Added(tx).status = tx.status
  BY DEF Added
<1>3. Added(tx) \notin reg
  BY <1>2 DEF RegInv, Entry
<1>4. ASSUME NEW e \in reg \ Replaced(tx)
      PROVE  Kept(tx, e).status = "active" <=> e.status = "active" /\ e.name # tx.name
  BY <1>4, KeptFields DEF RegInv, Entry
<1>5. ASSUME NEW e \in reg \ Replaced(tx), Kept(tx, e).status = "active"
      PROVE  Kept(tx, e) = e
  BY <1>4, <1>5, KeptFields DEF RegInv
<1>6. \A e \in reg : e.name # tx.name => e \in reg \ Replaced(tx) /\ Kept(tx, e) = e
  BY KeptFields DEF RegInv, Replaced
<1>7. {f \in {Kept(tx, e) : e \in reg \ Replaced(tx)} : f.status = "active"}
        = {e \in Active(reg) : e.name # tx.name}
  BY <1>4, <1>5, <1>6 DEF Active
<1>8. Active(After(tx)) =
        {f \in {Kept(tx, e) : e \in reg \ Replaced(tx)} : f.status = "active"}
          \cup IF tx.status = "active" THEN {Added(tx)} ELSE {}
  BY <1>1, <1>2 DEF Active
<1> QED BY <1>1, <1>3, <1>7, <1>8

LEMMA ActivateRuns ==
  ASSUME RegInv, NEW e \in reg, e.status = "paused", NEW tx \in Transaction,
         tx.op = "activate", tx.ids = {Id(e)}
  PROVE  LET f == Turned(tx.ids, "active", e)
         IN /\ Active(After(tx)) = Active(reg) \cup {f}
            /\ f \notin reg /\ f \in After(tx)
<1> DEFINE f == Turned(tx.ids, "active", e)
<1>1. After(tx) = {Turned(tx.ids, "active", g) : g \in reg}
  BY AfterParts
<1>2. f.changed = block + 1 /\ f.status = "active"
  BY TurnedFields DEF RegInv
<1>3. f \notin reg
  BY <1>2 DEF RegInv, Entry
<1>4. \A g \in reg : Id(g) = Id(e) => g = e
  BY DEF RegInv, Id, Entry
<1>5. \A g \in reg : g # e => Turned(tx.ids, "active", g) = g
  BY <1>4, TurnedFields DEF RegInv
<1>6. After(tx) = (reg \ {e}) \cup {f}
  BY <1>1, <1>5
<1> HIDE DEF f
<1>7. Active(After(tx)) = Active(reg) \cup {f}
  BY <1>2, <1>6 DEF Active
<1> QED BY <1>3, <1>6, <1>7 DEF f

LEMMA PauseRuns ==
  ASSUME RegInv, NEW tx \in Transaction, tx.op = "pause", tx.ids # {},
         \A id \in tx.ids : \E e \in reg : Id(e) = id /\ e.status = "active"
  PROVE  Active(After(tx)) \subseteq Active(reg) /\ After(tx) # reg
<1>1. After(tx) = {Turned(tx.ids, "paused", g) : g \in reg}
  BY AfterParts
<1>2. Active(After(tx)) \subseteq Active(reg)
  BY <1>1, TurnedFields DEF RegInv, Active
<1>3. PICK e \in reg : Id(e) \in tx.ids /\ e.status = "active"
  OBVIOUS
<1>4. Turned(tx.ids, "paused", e).changed = block + 1
  BY <1>3, TurnedFields DEF RegInv
<1>5. Turned(tx.ids, "paused", e) \notin reg
  BY <1>4 DEF RegInv, Entry
<1> QED BY <1>1, <1>2, <1>5

-----------------------------------------------------------------------------
(* The checks of a command *)

LEMMA NextTxsIs ==
  ASSUME NEW p
  PROVE  /\ cli[p].op = "deploy" => NextTxs(p) = {UpsertTx(p)}
         /\ cli[p].op = "activate" => NextTxs(p) = {ActivateTx(cli[p].listed)}
         /\ cli[p].op = "pause" => NextTxs(p) = {PauseTx(cli[p].listed)}
         /\ cli[p].op = "delete" => NextTxs(p) = {DeleteTx(id) : id \in cli[p].todo}
  BY Zenon DEF NextTxs

LEMMA UpsertFields ==
  ASSUME NEW p
  PROVE  /\ UpsertTx(p).op = "upsert" /\ UpsertTx(p).name = cli[p].name
         /\ UpsertTx(p).tag = CliTag /\ ~UpsertTx(p).keepAlive
         /\ UpsertTx(p).content = cli[p].content
         /\ UpsertTx(p).status = IF cli[p].seen = "none" THEN "active" ELSE cli[p].seen
  BY DEF UpsertTx

LEMMA DeployFits ==
  ASSUME WorkflowCommandsAssumption, WorkInv, NEW p \in Procs, Ready(p, "deploy"),
         cli[p].seenAt = block
  PROVE  Accepts(UpsertTx(p)) /\ Announces(UpsertTx(p))
<1> DEFINE tx == UpsertTx(p)
<1> DEFINE c == cli[p]
<1> DEFINE others == {e \in Active(reg) : e.name # c.name}
<1>1. tx \in Transaction /\ RegInv
  BY UpsertTxIs DEF WorkInv
<1>2. /\ IF tx.status = "active" THEN Active(After(tx)) = others \cup {Added(tx)}
                                 ELSE Active(After(tx)) = others
      /\ Added(tx) \notin reg /\ Added(tx) \in After(tx)
  BY <1>1, UpsertFields, UpsertRuns
<1>3. IsUpdate(c) \/ (IsNew(c) /\ (~NoneRuns(c) \/ HasRoom))
  BY DEF WorkInv, CmdInv, ReadyInv, DeployInv, Ready, At
<1>4. /\ IsFiniteSet(Active(reg)) /\ Cardinality(Active(reg)) \in Nat
      /\ Cardinality(Active(reg)) <= MaxActive
      /\ Cardinality(Active(After(tx))) \in Nat
  BY <1>1, ActiveFinite
<1> HIDE DEF tx
<1>5. CASE tx.status # "active"
  <2>1. Active(After(tx)) \subseteq Active(reg)
    BY <1>2, <1>5
  <2>2. Cardinality(Active(After(tx))) <= Cardinality(Active(reg))
    BY <1>4, <2>1, Smaller
  <2> QED BY <1>2, <1>4, <2>2, UpsertFields
          DEF Accepts, Announces, tx, WorkflowCommandsAssumption
<1>6. CASE tx.status = "active" /\ \E a \in Active(reg) : a.name = c.name
  <2>1. PICK a \in Active(reg) : a.name = c.name
    BY <1>6
  <2>2. Active(After(tx)) \subseteq (Active(reg) \ {a}) \cup {Added(tx)}
    BY <1>2, <1>6, <2>1
  <2>3. Cardinality(Active(After(tx))) <= Cardinality(Active(reg))
    BY <1>4, <2>2, Exchanged
  <2> QED BY <1>2, <1>4, <2>3, UpsertFields
          DEF Accepts, Announces, tx, WorkflowCommandsAssumption
<1>7. CASE HasRoom
  <2>1. Active(After(tx)) \subseteq Active(reg) \cup {Added(tx)}
    BY <1>2
  <2>2. /\ IsFiniteSet(Active(reg) \cup {Added(tx)})
        /\ Cardinality(Active(reg) \cup {Added(tx)}) \in Nat
        /\ Cardinality(Active(reg) \cup {Added(tx)}) <= Cardinality(Active(reg)) + 1
    BY <1>4, OneMore
  <2>3. Cardinality(Active(After(tx))) <= Cardinality(Active(reg) \cup {Added(tx)})
    BY <2>1, <2>2, Smaller
  <2> QED BY <1>2, <1>4, <1>7, <2>2, <2>3, UpsertFields
          DEF Accepts, Announces, tx, WorkflowCommandsAssumption, HasRoom
<1>8. IsUpdate(c) => \/ tx.status # "active"
                     \/ \E a \in Active(reg) : a.name = c.name
  <2>1. SUFFICES ASSUME IsUpdate(c), tx.status = "active"
                 PROVE  \E a \in Active(reg) : a.name = c.name
    OBVIOUS
  <2>2. PICK e \in Listed(c.name) : e.status = c.seen
    BY <2>1 DEF IsUpdate
  <2>3. e \in reg /\ e.name = c.name /\ e.status \in {"active", "paused"}
    BY <1>1, <2>2 DEF Listed, RegInv, Entry
  <2>4. e.status = "active"
    BY <2>1, <2>2, <2>3, UpsertFields DEF tx
  <2> QED BY <2>3, <2>4 DEF Active
<1>9. IsNew(c) /\ ~NoneRuns(c) => \E a \in Active(reg) : a.name = c.name
  BY DEF NoneRuns, Active, Listed
<1> QED BY <1>3, <1>5, <1>6, <1>7, <1>8, <1>9

LEMMA ActivateFits ==
  ASSUME WorkflowCommandsAssumption, WorkInv, NEW p \in Procs, Ready(p, "activate"),
         cli[p].seenAt = block
  PROVE  LET tx == ActivateTx(cli[p].listed) IN Accepts(tx) /\ Announces(tx)
<1> DEFINE tx == ActivateTx(cli[p].listed)
<1>1. RegInv /\ HasRoom
  BY DEF WorkInv, CmdInv, ReadyInv, Ready, At
<1>2. PICK e \in reg : cli[p].listed = {Id(e)} /\ e.status = "paused"
  BY DEF WorkInv, CmdInv, ReadyInv, Ready, At
<1>3. tx \in Transaction /\ tx.op = "activate" /\ tx.ids = {Id(e)}
  BY <1>1, <1>2, IdIs, ListTxIs DEF ActivateTx
<1> HIDE DEF tx
<1> DEFINE f == Turned(tx.ids, "active", e)
<1>4. Active(After(tx)) = Active(reg) \cup {f} /\ f \notin reg /\ f \in After(tx)
  BY <1>1, <1>2, <1>3, ActivateRuns
<1>5. IsFiniteSet(Active(reg)) /\ Cardinality(Active(reg)) \in Nat
  BY <1>1, <1>3, ActiveFinite
<1>6. /\ Cardinality(Active(reg) \cup {f}) <= Cardinality(Active(reg)) + 1
      /\ Cardinality(Active(reg) \cup {f}) \in Nat
  BY <1>5, OneMore
<1>7. Cardinality(Active(After(tx))) <= MaxActive
  BY <1>1, <1>4, <1>5, <1>6 DEF HasRoom, WorkflowCommandsAssumption
<1>8. Accepts(tx)
  BY <1>2, <1>3, <1>7 DEF Accepts, Registered
<1> QED BY <1>4, <1>8 DEF tx, Announces

LEMMA PauseFits ==
  ASSUME WorkflowCommandsAssumption, WorkInv, NEW p \in Procs, Ready(p, "pause"),
         cli[p].seenAt = block
  PROVE  LET tx == PauseTx(cli[p].listed) IN Accepts(tx) /\ Announces(tx)
<1> DEFINE tx == PauseTx(cli[p].listed)
<1>1. RegInv /\ cli[p].listed \in SUBSET Ids
  BY DEF WorkInv, Command
<1>2. /\ cli[p].listed # {}
      /\ \A id \in cli[p].listed : \E e \in reg : Id(e) = id /\ e.status = "active"
  BY DEF WorkInv, CmdInv, ReadyInv, Ready, At
<1>3. tx \in Transaction /\ tx.op = "pause" /\ tx.ids = cli[p].listed
  BY <1>1, ListTxIs DEF PauseTx
<1> HIDE DEF tx
<1>4. Active(After(tx)) \subseteq Active(reg) /\ After(tx) # reg
  BY <1>1, <1>2, <1>3, PauseRuns
<1>5. /\ IsFiniteSet(Active(reg)) /\ Cardinality(Active(reg)) \in Nat
      /\ Cardinality(Active(reg)) <= MaxActive
      /\ Cardinality(Active(After(tx))) \in Nat
  BY <1>1, <1>3, ActiveFinite
<1>6. Cardinality(Active(After(tx))) <= Cardinality(Active(reg))
  BY <1>4, <1>5, Smaller
<1>7. Registered(tx.ids)
  BY <1>2, <1>3 DEF Registered
<1>8. Accepts(tx)
  BY <1>3, <1>5, <1>6, <1>7 DEF Accepts, WorkflowCommandsAssumption
<1> QED BY <1>4, <1>8 DEF tx, Announces

LEMMA DeleteFits ==
  ASSUME WorkflowCommandsAssumption, WorkInv, NEW p \in Procs, Ready(p, "delete"),
         cli[p].seenAt = block, NEW id \in cli[p].todo
  PROVE  Accepts(DeleteTx(id)) /\ Announces(DeleteTx(id))
<1> DEFINE tx == DeleteTx(id)
<1>1. RegInv /\ id \in Ids
  BY DEF WorkInv, Command
<1>2. Registered(cli[p].todo)
  BY DEF WorkInv, CmdInv, ReadyInv, Ready, At
<1>3. tx \in Transaction /\ tx.op = "delete" /\ tx.ids = {id}
  BY <1>1, DeletesOne
<1> HIDE DEF tx
<1>4. After(tx) = {e \in reg : Id(e) # id}
  BY <1>3, AfterIs
<1>5. PICK e \in reg : Id(e) = id
  BY <1>2 DEF Registered
<1>6. Active(After(tx)) \subseteq Active(reg)
  BY <1>4 DEF Active
<1>7. /\ IsFiniteSet(Active(reg)) /\ Cardinality(Active(reg)) \in Nat
      /\ Cardinality(Active(reg)) <= MaxActive
      /\ Cardinality(Active(After(tx))) \in Nat
  BY <1>1, <1>3, ActiveFinite
<1>8. Cardinality(Active(After(tx))) <= Cardinality(Active(reg))
  BY <1>6, <1>7, Smaller
<1>9. Accepts(tx)
  BY <1>3, <1>5, <1>7, <1>8 DEF Accepts, Registered, WorkflowCommandsAssumption
<1> QED BY <1>4, <1>5, <1>9 DEF tx, Announces

LEMMA ChecksFit == ASSUME WorkflowCommandsAssumption, WorkInv PROVE ChecksSuffice
<1>1. SUFFICES ASSUME NEW p \in Procs, At(p, "submit"), cli[p].seenAt = block,
                      NEW tx \in NextTxs(p)
               PROVE  Accepts(tx) /\ Announces(tx)
  BY DEF ChecksSuffice
<1>2. cli[p].op \in {"deploy", "activate", "pause", "delete"}
  BY <1>1 DEF WorkInv, CmdInv, PhaseInv, Command, At
<1>3. CASE cli[p].op = "deploy"
  BY <1>1, <1>3, NextTxsIs, DeployFits DEF Ready
<1>4. CASE cli[p].op = "activate"
  BY <1>1, <1>4, NextTxsIs, ActivateFits DEF Ready
<1>5. CASE cli[p].op = "pause"
  BY <1>1, <1>5, NextTxsIs, PauseFits DEF Ready
<1>6. CASE cli[p].op = "delete"
  BY <1>1, <1>6, NextTxsIs, DeleteFits DEF Ready
<1> QED BY <1>2, <1>3, <1>4, <1>5, <1>6

\* A step moves one command at most, by one of its own steps or a start.
LEMMA Moves ==
  ASSUME WorkInv, [Next]_vars, NEW p \in Procs
  PROVE  \/ cli'[p] = cli[p]
         \/ Step(p)
         \/ /\ cli[p].phase \in {"idle", "done"} /\ cli'[p].result = "none"
            /\ cli'[p].phase = "connect" /\ UNCHANGED csFile
<1>1. cli \in [Procs -> Command]
  BY DEF WorkInv
<1>2. ASSUME NEW q \in Procs, Step(q), q # p PROVE cli'[p] = cli[p]
  <2>1. ASSUME NEW d, cli' = [cli EXCEPT ![q] = d] PROVE cli'[p] = cli[p]
    BY <1>1, <1>2, <2>1
  <2>2. \A phase, r : Goto(q, phase) \/ Finish(q, r) => cli'[p] = cli[p]
    BY <1>1, <1>2 DEF Goto, Finish
  <2>3. \A tx, r : Report(q, tx, r) => cli'[p] = cli[p]
    BY <1>1, <1>2, <2>2 DEF Report
  <2> QED BY <1>1, <1>2, <2>1, <2>2, <2>3
          DEF Step, ClientFails, Connect, ReadFails, DeployLookup, ActivateLookup,
              PauseLookup, DeleteLookup, Confirm, CountSameName, CheckQuota,
              Upload, SubmitUpsert, SubmitActivate, SubmitPause, SubmitDelete,
              ReadChangesets, WriteChangesets
<1>3. ASSUME NEW q \in Procs, NEW n, NEW op, NEW c, Start(q, op, n, c)
      PROVE  \/ cli'[p] = cli[p]
             \/ /\ cli[p].phase \in {"idle", "done"} /\ cli'[p].result = "none"
                /\ cli'[p].phase = "connect" /\ UNCHANGED csFile
  <2>1. NewCommand(op, n, c).result = "none" /\ NewCommand(op, n, c).phase = "connect"
    BY DEF NewCommand, Record
  <2> QED BY <1>1, <1>3, <2>1 DEF Start, outVars
<1>4. ASSUME (\E n \in Names : OtherClient(n)) \/ MineLate \/ SubmitPrepared
               \/ ApplyChangeset \/ UNCHANGED vars
      PROVE  cli'[p] = cli[p]
  BY <1>4, Zenon DEF OtherClient, MineLate, SubmitPrepared, ApplyChangeset, vars
<1> QED BY <1>2, <1>3, <1>4, Zenon
        DEF Next, StartDeploy, StartActivate, StartPause, StartDelete

\* What the quota refuses the contract would have refused as well.
LEMMA DeployDoesNotFit ==
  ASSUME WorkflowCommandsAssumption, WorkInv, NEW p \in Procs, At(p, "quota"),
         cli[p].op = "deploy", cli[p].seenAt = block,
         ~WithinLimit(cli[p].pending)
  PROVE  ~Accepts(UpsertTx(p))
<1> DEFINE c == cli[p]
<1> DEFINE status == IF c.seen = "none" THEN "active" ELSE c.seen
<1> DEFINE tx == [op |-> "upsert", name |-> c.name, tag |-> CliTag,
                  content |-> c.content, keepAlive |-> FALSE, asOf |-> c.seenAt,
                  status |-> status]
<1>1. c \in Command /\ CmdInv(c) /\ RegInv
  BY DEF WorkInv
<1>2. IsNew(c) /\ NoneRuns(c) /\ c.pending = 1
  BY <1>1 DEF CmdInv, ReadyInv, DeployInv, At
<1>3. /\ c.name \in Names /\ c.content \in Versions /\ c.seenAt \in 0..MaxBlock
      /\ status = "active"
  BY <1>1, <1>2 DEF CmdInv, PhaseInv, Command, IsNew
<1>4. tx = UpsertTx(p)
  BY Zenon DEF UpsertTx
<1>5. tx \in Transaction
  <2>1. tx \in [op : {"upsert"}, name : Names, tag : {CliTag, OtherTag},
                asOf : 0..MaxBlock, content : Versions,
                status : {"active", "paused"}, keepAlive : BOOLEAN]
    <3>1. /\ "upsert" \in {"upsert"} /\ CliTag \in {CliTag, OtherTag}
          /\ FALSE \in BOOLEAN /\ status \in {"active", "paused"}
      BY <1>3
    <3> HIDE DEF status
    <3> QED BY <1>3, <3>1, Zenon
  <2> QED BY <2>1 DEF Transaction
<1>6. tx.op = "upsert" /\ ~tx.keepAlive /\ tx.name = c.name /\ tx.status = "active"
  BY <1>3
<1> HIDE DEF tx
<1>7. /\ Active(After(tx)) = {e \in Active(reg) : e.name # c.name} \cup {Added(tx)}
      /\ Added(tx) \notin reg
  BY <1>1, <1>5, <1>6, UpsertRuns
<1>8. {e \in Active(reg) : e.name # c.name} = Active(reg)
  BY <1>2 DEF NoneRuns, Active, Listed
<1>9. IsFiniteSet(Active(reg)) /\ Cardinality(Active(reg)) \in Nat
  BY <1>1, <1>5, ActiveFinite
<1>10. Cardinality(Active(After(tx))) = Cardinality(Active(reg)) + 1
  BY <1>7, <1>8, <1>9, OneMore DEF Active
<1> QED BY <1>2, <1>4, <1>9, <1>10
        DEF Accepts, WithinLimit, WorkflowCommandsAssumption

LEMMA ActivateDoesNotFit ==
  ASSUME WorkflowCommandsAssumption, WorkInv, NEW p \in Procs, At(p, "quota"),
         cli[p].op = "activate", cli[p].seenAt = block,
         ~WithinLimit(cli[p].pending)
  PROVE  ~Accepts(ActivateTx(cli[p].listed))
<1> DEFINE tx == ActivateTx(cli[p].listed)
<1>1. RegInv /\ cli[p].pending = 1
  BY DEF WorkInv, CmdInv, PhaseInv
<1>2. PICK e \in reg : cli[p].listed = {Id(e)} /\ e.status = "paused"
  BY DEF WorkInv, CmdInv, ReadyInv, At
<1>3. tx \in Transaction /\ tx.op = "activate" /\ tx.ids = {Id(e)}
  BY <1>1, <1>2, IdIs, ListTxIs DEF ActivateTx
<1> HIDE DEF tx
<1> DEFINE f == Turned(tx.ids, "active", e)
<1>4. Active(After(tx)) = Active(reg) \cup {f} /\ f \notin reg
  BY <1>1, <1>2, <1>3, ActivateRuns
<1>5. IsFiniteSet(Active(reg)) /\ Cardinality(Active(reg)) \in Nat
  BY <1>1, <1>3, ActiveFinite
<1>6. f \notin Active(reg)
  BY <1>4 DEF Active
<1> HIDE DEF f
<1>7. Cardinality(Active(After(tx))) = Cardinality(Active(reg)) + 1
  BY <1>4, <1>5, <1>6, OneMore
<1>8. ~Accepts(tx)
  BY <1>1, <1>5, <1>7 DEF Accepts, WithinLimit, WorkflowCommandsAssumption
<1> QED BY <1>8 DEF tx

LEMMA RefusalsFit ==
  ASSUME WorkflowCommandsAssumption, WorkInv, [Next]_vars PROVE RefusalsJustified
<1>1. SUFFICES ASSUME NEW p \in Procs, At(p, "quota"), cli'[p].result = "refused",
                      cli[p].seenAt = block, NEW tx \in NextTxs(p)
               PROVE  ~Accepts(tx)
  BY DEF RefusalsJustified
<1>2. /\ cli[p] \in Command /\ cli[p].phase = "quota" /\ cli[p].result = "none"
      /\ cli[p].op \in {"deploy", "activate"}
  BY <1>1 DEF At, WorkInv, CmdInv, PhaseInv
<1>3. Step(p)
  BY <1>1, <1>2, Moves
<1>4. CheckQuota(p) \/ ReadFails(p)
  BY <1>2, <1>3
     DEF Step, ClientFails, Connect, DeployLookup, ActivateLookup, PauseLookup,
         DeleteLookup, Confirm, CountSameName, Upload, SubmitUpsert,
         SubmitActivate, SubmitPause, SubmitDelete, ReadChangesets,
         WriteChangesets, At, Ready
<1>5. ~WithinLimit(cli[p].pending)
  <2>1. cli \in [Procs -> Command]
    BY DEF WorkInv
  <2>2. \A phase : Goto(p, phase) => cli'[p].result = "none"
    BY <1>2, <2>1 DEF Goto, Command
  <2>3. Finish(p, "error") => cli'[p].result = "error"
    BY <1>2, <2>1 DEF Finish, Command
  <2> QED BY <1>1, <1>4, <2>2, <2>3 DEF CheckQuota, ReadFails
<1>6. CASE cli[p].op = "deploy"
  BY <1>1, <1>5, <1>6, NextTxsIs, DeployDoesNotFit
<1>7. CASE cli[p].op = "activate"
  BY <1>1, <1>5, <1>7, NextTxsIs, ActivateDoesNotFit
<1> QED BY <1>2, <1>6, <1>7

-----------------------------------------------------------------------------
(* What a success means *)

LEMMA UpsertDone ==
  ASSUME WorkflowCommandsAssumption, WorkInv, NEW p \in Procs, Ready(p, "deploy"),
         reg' = After(UpsertTx(p))
  PROVE  \E e \in reg' : Id(e) = <<cli[p].name, cli[p].content>>
<1> DEFINE tx == UpsertTx(p)
<1>1. tx \in Transaction /\ RegInv
  BY UpsertTxIs DEF WorkInv
<1>2. Added(tx) \in After(tx)
  BY <1>1, UpsertFields, UpsertRuns
<1>3. Id(Added(tx)) = <<cli[p].name, cli[p].content>>
  BY UpsertFields DEF Id, Added
<1> QED BY <1>2, <1>3

LEMMA TurnDone ==
  ASSUME RegInv, NEW op \in {"activate", "pause"}, NEW ids \in SUBSET Ids, NEW tx,
         tx = [op |-> op, ids |-> ids], reg' = After(tx), NEW f \in reg',
         Id(f) \in ids
  PROVE  f.status = "active" <=> op = "activate"
<1> DEFINE s == IF op = "activate" THEN "active" ELSE "paused"
<1>1. tx \in Transaction /\ tx.op = op /\ tx.ids = ids
  BY ListTxIs
<1>2. reg' = {Turned(ids, s, e) : e \in reg}
  BY <1>1, AfterParts
<1>3. PICK e \in reg : f = Turned(ids, s, e)
  BY <1>2
<1>4. f.status = s
  BY <1>3, TurnedFields DEF RegInv
<1> QED BY <1>4

\* Until it sends, a command neither reports success nor touches changesets.
LEMMA NotYet ==
  ASSUME WorkInv, NEW p \in Procs,
         \/ ClientFails(p) \/ Connect(p) \/ ReadFails(p) \/ DeployLookup(p)
         \/ ActivateLookup(p) \/ PauseLookup(p) \/ DeleteLookup(p)
         \/ Confirm(p) \/ CountSameName(p) \/ CheckQuota(p) \/ Upload(p)
  PROVE  cli'[p].result # "ok" /\ cli'[p].phase # "csWrite"
<1> DEFINE Goal == cli'[p].result # "ok" /\ cli'[p].phase # "csWrite"
<1>1. /\ cli \in [Procs -> Command] /\ cli[p] \in Command
      /\ cli[p].phase # "done" => cli[p].result = "none"
  BY DEF WorkInv, CmdInv, PhaseInv
<1>2. \A phase : ~At(p, "done") /\ Goto(p, phase) /\ phase # "csWrite" => Goal
  BY <1>1 DEF Goto, At, Command
<1>3. \A r : Finish(p, r) /\ r # "ok" => Goal
  BY <1>1 DEF Finish, Command
<1>4. CASE DeployLookup(p)
  <2>1. CASE \E e \in Listed(cli[p].name) : e.tag = CliTag /\ e.content = cli[p].content
    BY <1>3, <1>4, <2>1 DEF DeployLookup
  <2>2. CASE ~(\E e \in Listed(cli[p].name) :
                 e.tag = CliTag /\ e.content = cli[p].content)
    <3> DEFINE phase == IF \A e \in Listed(cli[p].name) : e.tag # CliTag
                        THEN "sameName" ELSE "confirm"
    <3> DEFINE seen == SeenStatus(cli[p].name)
    <3>1. cli' = [cli EXCEPT ![p].phase = phase, ![p].seen = seen,
                             ![p].seenAt = block]
      BY <1>4, <2>2, Zenon DEF DeployLookup
    <3>2. phase # "csWrite" /\ At(p, "lookup")
      BY <1>4 DEF DeployLookup
    <3> HIDE DEF phase, seen
    <3> QED BY <1>1, <3>1, <3>2 DEF At, Command
  <2> QED BY <2>1, <2>2
<1>5. CASE ActivateLookup(p)
  <2> DEFINE ids == {Id(Latest(cli[p].name))}
  <2>1. /\ \/ Finish(p, "error")
           \/ cli' = [cli EXCEPT ![p].phase = "quota", ![p].seenAt = block,
                                 ![p].listed = ids]
        /\ At(p, "lookup")
    BY <1>5, Zenon DEF ActivateLookup
  <2> HIDE DEF ids
  <2> QED BY <1>1, <1>3, <2>1 DEF At, Command
<1>6. CASE PauseLookup(p)
  <2> DEFINE ids == {Id(e) : e \in Pausable(cli[p].name)}
  <2>1. /\ \/ Finish(p, "error")
           \/ cli' = [cli EXCEPT ![p].phase = "submit", ![p].listed = ids,
                                 ![p].seenAt = block]
        /\ At(p, "lookup")
    BY <1>6, Zenon DEF PauseLookup
  <2> HIDE DEF ids
  <2> QED BY <1>1, <1>3, <2>1 DEF At, Command
<1>7. CASE DeleteLookup(p)
  <2> DEFINE ids == {Id(e) : e \in Listed(cli[p].name)}
  <2>1. /\ IF ids = {} THEN Finish(p, "nothing")
           ELSE cli' = [cli EXCEPT ![p].phase = "confirm", ![p].listed = ids,
                                   ![p].todo = ids, ![p].seenAt = block]
        /\ At(p, "lookup")
    BY <1>7 DEF DeleteLookup
  <2> HIDE DEF ids
  <2> QED BY <1>1, <1>3, <2>1 DEF At, Command
<1>8. CASE CountSameName(p)
  BY <1>1, <1>3, <1>8 DEF CountSameName, At, Command
<1>9. CASE ClientFails(p) \/ Connect(p) \/ ReadFails(p) \/ Confirm(p)
            \/ CheckQuota(p) \/ Upload(p)
  BY <1>2, <1>3, <1>9
     DEF ClientFails, Connect, ReadFails, Confirm, CheckQuota, Upload, At
<1> QED BY <1>4, <1>5, <1>6, <1>7, <1>8, <1>9

\* A command that turns to ok has sent its last transaction, or written it
\* down.
LEMMA OkIs ==
  ASSUME WorkInv, [Next]_vars, NEW p \in Procs, cli[p].result = "none",
         cli'[p].result = "ok"
  PROVE  \/ SubmitUpsert(p) \/ SubmitActivate(p) \/ SubmitPause(p)
         \/ SubmitDelete(p) \/ WriteChangesets(p)
<1>1. cli \in [Procs -> Command] /\ cli[p] \in Command
  BY DEF WorkInv
<1>2. ReadChangesets(p) => cli'[p].result # "ok"
  BY <1>1 DEF ReadChangesets, Finish, Command
<1> QED BY <1>2, Moves, NotYet, Zenon DEF Step

LEMMA Reported ==
  ASSUME WorkflowCommandsAssumption, WorkInv, NEW p \in Procs,
         NEW tx \in Transaction, FreshTx(tx), NEW payload, NEW r, Send(tx, r),
         Report(p, payload, r), Type = "regular", cli'[p].result = "ok"
  PROVE  reg' = After(tx)
<1>1. cli \in [Procs -> Command] /\ cli[p] \in Command
  BY DEF WorkInv
<1>2. /\ Type = "regular" => r # "prepared"
      /\ Type = "regular" /\ Succeeded(r) => Landed(r)
      /\ Landed(r) => reg' = After(tx)
  BY Sent
<1>3. Finish(p, IF Succeeded(r) THEN "ok" ELSE "error")
  BY <1>2 DEF Report, IsChangeset
<1>4. Succeeded(r)
  BY <1>1, <1>3 DEF Finish, Command
<1> QED BY <1>2, <1>4

LEMMA GoneIs ==
  ASSUME RegInv', NEW id \in Ids, NEW t, OnlySince(id, t)' PROVE Gone(id, t)
<1>1. ASSUME NEW e \in reg', Id(e) = id PROVE t < e.created
  <2>1. e.name = id[1] /\ e.content = id[2]
    BY <1>1 DEF Id, Ids
  <2> QED BY <1>1, <2>1 DEF OnlySince
<1> QED BY <1>1 DEF Gone

LEMMA SuccessDone ==
  ASSUME WorkflowCommandsAssumption, WorkInv, [Next]_vars PROVE SuccessMeansDone
<1> DEFINE Deployed(p) == \E e \in reg' : Id(e) = <<cli[p].name, cli[p].content>>
<1> DEFINE AllGone(p) == \A id \in cli[p].listed : Gone(id, cli[p].seenAt)
<1> DEFINE AllTurned(p) ==
      \A e \in reg' : Id(e) \in cli[p].listed =>
        (e.status = "active" <=> cli[p].op = "activate")
<1>1. ASSUME NEW p \in Procs, Type = "regular", cli[p].result = "none",
             cli'[p].result = "ok"
      PROVE  /\ cli[p].op = "deploy" => Deployed(p)
             /\ cli[p].op = "delete" => AllGone(p)
             /\ cli[p].op \notin {"deploy", "delete"} => AllTurned(p)
  <2>1. RegInv /\ cli[p].listed \in SUBSET Ids /\ cli[p].todo \in SUBSET Ids
    BY DEF WorkInv, Command
  <2>2. CASE SubmitUpsert(p)
    <3>1. reg' = After(UpsertTx(p)) /\ Ready(p, "deploy")
      BY <1>1, <2>2, UpsertTxIs, Reported DEF SubmitUpsert
    <3>2. cli[p].op = "deploy"
      BY <3>1 DEF Ready
    <3> QED BY <3>1, <3>2, UpsertDone
  <2>3. CASE SubmitActivate(p)
    <3> DEFINE tx == ActivateTx(cli[p].listed)
    <3>1. tx \in Transaction /\ FreshTx(tx)
      BY <2>1, ListTxIs DEF ActivateTx
    <3>2. \E r \in TxOutcomes : Send(tx, r) /\ Report(p, tx, r)
      BY <2>3 DEF SubmitActivate
    <3>3. reg' = After(tx) /\ cli[p].op = "activate"
      BY <1>1, <2>3, <3>1, <3>2, Reported DEF SubmitActivate, Ready
    <3>4. \A e \in reg' : Id(e) \in cli[p].listed =>
            (e.status = "active" <=> "activate" = "activate")
      BY <2>1, <3>3, TurnDone DEF ActivateTx
    <3> QED BY <3>3, <3>4
  <2>4. CASE SubmitPause(p)
    <3> DEFINE tx == PauseTx(cli[p].listed)
    <3>1. tx \in Transaction /\ FreshTx(tx)
      BY <2>1, ListTxIs DEF PauseTx
    <3>2. \E r \in TxOutcomes, first \in cli[p].listed :
            Send(tx, r) /\ Report(p, PauseTx({first}), r)
      BY <2>4 DEF SubmitPause
    <3>3. reg' = After(tx) /\ cli[p].op = "pause"
      BY <1>1, <2>4, <3>1, <3>2, Reported DEF SubmitPause, Ready
    <3>4. \A e \in reg' : Id(e) \in cli[p].listed =>
            (e.status = "active" <=> "pause" = "activate")
      BY <2>1, <3>3, TurnDone DEF PauseTx
    <3> QED BY <3>3, <3>4
  <2>5. CASE SubmitDelete(p)
    <3>1. PICK r \in TxOutcomes, id \in cli[p].todo :
            /\ Send(DeleteTx(id), r)
            /\ IF IsChangeset(r)
               THEN \E first \in MaybeFirst(p, id) : Report(p, DeleteTx(first), r)
               ELSE LET rest == cli[p].todo \ {id}
                        bad == DeleteFailed(p, r)
                    IN cli' = [cli EXCEPT
                        ![p].todo = rest, ![p].failed = bad,
                        ![p].phase = IF rest = {} THEN "done" ELSE "submit",
                        ![p].result = IF rest # {} THEN "none"
                                      ELSE IF bad THEN "error" ELSE "ok"]
      BY <2>5, Zenon DEF SubmitDelete
    <3> DEFINE rest == cli[p].todo \ {id}
    <3> DEFINE phase == IF rest = {} THEN "done" ELSE "submit"
    <3> DEFINE result == IF rest # {} THEN "none"
                         ELSE IF DeleteFailed(p, r) THEN "error" ELSE "ok"
    <3>2. Ready(p, "delete") /\ cli[p].op = "delete" /\ ~IsChangeset(r)
      BY <1>1, <2>5 DEF SubmitDelete, Ready, IsChangeset
    <3>3. Round(p, rest, DeleteFailed(p, r), phase, result)
      BY <3>1, <3>2 DEF Round
    <3>4. cli'[p].result = result
      <4>1. cli \in [Procs -> Command] /\ cli[p].todo \in SUBSET Ids
            /\ cli[p].failed \in BOOLEAN
        BY DEF WorkInv, Command
      <4>2. rest \in SUBSET Ids /\ DeleteFailed(p, r) \in BOOLEAN
        BY <4>1 DEF DeleteFailed
      <4> HIDE DEF rest, phase, result
      <4>3. \E d \in Command : Becomes(p, d) /\ d.result = result
        <5>1. Round(p, rest, DeleteFailed(p, r), phase, result)
          BY <3>3
        <5> QED BY <4>2, <5>1, RoundIs
      <4> QED BY <4>1, <4>3 DEF Becomes
    <3>5. PICK c \in Command : c = cli[p]
      BY DEF WorkInv
    <3> HIDE DEF rest, phase, result
    <3>6. WorkInv' /\ \A i \in c.listed : OnlySince(i, c.seenAt)'
      <4>1. rest = c.todo \ {id} /\ id \in c.todo /\ result = "ok"
        BY <1>1, <3>4, <3>5 DEF rest
      <4>2. Send(DeleteTx(id), r)
        BY <3>1
      <4> DEFINE bad == DeleteFailed(p, r)
      <4>3. bad = DeleteFailed(p, r) /\ Round(p, rest, bad, phase, result)
        BY <3>3
      <4> HIDE DEF bad
      <4> QED BY <1>1, <3>2, <3>5, <4>1, <4>2, <4>3, NextRound
    <3>7. c.listed \in SUBSET Ids
      BY DEF Command
    <3>8. ASSUME NEW i \in c.listed PROVE Gone(i, c.seenAt)
      BY <3>6, <3>7, GoneIs DEF WorkInv
    <3> QED BY <3>2, <3>5, <3>8
  <2>6. CASE WriteChangesets(p)
    <3>1. Type = "changeset"
      BY <2>6 DEF WriteChangesets, At, WorkInv, CmdInv, PhaseInv
    <3> QED BY <1>1, <3>1
  <2> QED BY <1>1, <2>2, <2>3, <2>4, <2>5, <2>6, OkIs
<1> QED BY <1>1, Zenon DEF SuccessMeansDone
-----------------------------------------------------------------------------
(* The changeset file *)

\* What a command knows of the changeset file that nobody else writes.
FileInv(p) ==
  /\ At(p, "csWrite") => cli[p].copy \subseteq csFile
  /\ cli[p].result = "ok" => cli[p].payload \in csFile

\* A command that writes changesets reports nothing before the file is written.
LEMMA NotWritten ==
  ASSUME WorkflowCommandsAssumption, WorkInv, NEW p \in Procs, Type = "changeset",
         SubmitUpsert(p) \/ SubmitActivate(p) \/ SubmitPause(p) \/ SubmitDelete(p)
  PROVE  cli'[p].result # "ok" /\ cli'[p].phase # "csWrite" /\ UNCHANGED csFile
<1> DEFINE Goal == /\ cli'[p].result # "ok" /\ cli'[p].phase # "csWrite"
                   /\ UNCHANGED csFile
<1>1. /\ cli \in [Procs -> Command] /\ cli[p] \in Command
      /\ At(p, "submit") => cli[p].result = "none"
  BY DEF WorkInv, CmdInv, PhaseInv, At
<1>2. ASSUME NEW tx, NEW r, Send(tx, r)
      PROVE  r \in {"failed", "prepared"} /\ UNCHANGED csFile
  BY <1>2 DEF Send, TxResults
<1>3. ASSUME At(p, "submit"), NEW payload, NEW r \in {"failed", "prepared"},
             Report(p, payload, r), UNCHANGED csFile
      PROVE  Goal
  <2>1. CASE IsChangeset(r)
    BY <1>1, <1>3, <2>1 DEF Report, Command
  <2>2. CASE ~IsChangeset(r)
    <3>1. r = "failed"
      BY <1>3, <2>2 DEF IsChangeset
    <3> QED BY <1>1, <1>3, <2>2, <3>1 DEF Report, Finish, Succeeded, Command
  <2> QED BY <2>1, <2>2
<1>4. CASE SubmitDelete(p)
  <2>1. PICK r \in TxOutcomes, id \in cli[p].todo :
          /\ Send(DeleteTx(id), r)
          /\ IF IsChangeset(r)
             THEN \E first \in MaybeFirst(p, id) : Report(p, DeleteTx(first), r)
             ELSE LET rest == cli[p].todo \ {id}
                      bad == DeleteFailed(p, r)
                  IN cli' = [cli EXCEPT
                      ![p].todo = rest, ![p].failed = bad,
                      ![p].phase = IF rest = {} THEN "done" ELSE "submit",
                      ![p].result = IF rest # {} THEN "none"
                                    ELSE IF bad THEN "error" ELSE "ok"]
    BY <1>4, Zenon DEF SubmitDelete
  <2>2. r \in {"failed", "prepared"} /\ UNCHANGED csFile /\ At(p, "submit")
    BY <1>2, <1>4, <2>1 DEF SubmitDelete, Ready
  <2>3. CASE IsChangeset(r)
    BY <1>3, <2>1, <2>2, <2>3
  <2>4. CASE ~IsChangeset(r)
    <3> DEFINE rest == cli[p].todo \ {id}
    <3> DEFINE bad == DeleteFailed(p, r)
    <3> DEFINE phase == IF rest = {} THEN "done" ELSE "submit"
    <3> DEFINE result == IF rest # {} THEN "none"
                         ELSE IF bad THEN "error" ELSE "ok"
    <3>1. bad = TRUE
      BY <2>2, <2>4 DEF IsChangeset, DeleteFailed, Succeeded
    <3>2. result # "ok" /\ phase # "csWrite"
      BY <3>1
    <3>3. Round(p, rest, bad, phase, result)
      BY <2>1, <2>4 DEF Round
    <3>4. rest \in SUBSET Ids /\ bad \in BOOLEAN
      BY <1>1, <3>1 DEF Command
    <3> HIDE DEF rest, bad, phase, result
    <3>5. \E d \in Command : Becomes(p, d) /\ d.result = result /\ d.phase = phase
      BY <3>3, <3>4, RoundIs
    <3> QED BY <1>1, <2>2, <3>2, <3>5 DEF Becomes
  <2> QED BY <2>3, <2>4
<1>5. ASSUME NEW tx, NEW payload, NEW r, Send(tx, r), Report(p, payload, r),
             At(p, "submit")
      PROVE  Goal
  BY <1>2, <1>3, <1>5
<1> QED BY <1>4, <1>5, Zenon
        DEF SubmitUpsert, SubmitActivate, SubmitPause, Ready

LEMMA FileKept ==
  ASSUME WorkflowCommandsAssumption, WorkInv, NEW p \in Procs, Procs = {p},
         Type = "changeset", FileInv(p), [Next]_vars
  PROVE  FileInv(p)'
<1>1. /\ cli \in [Procs -> Command] /\ cli[p] \in Command
      /\ cli[p].result = "ok" => cli[p].phase = "done"
  BY DEF WorkInv, CmdInv, PhaseInv, Results
<1>2. CASE WriteChangesets(p)
  <2>1. CASE Finish(p, "error")
    BY <1>1, <2>1 DEF Finish, FileInv, At, Command
  <2>2. CASE Finish(p, "ok") /\ csFile' = Rewritten(cli[p].copy, cli[p].payload)
    BY <1>1, <2>2 DEF Finish, FileInv, At, Command, Rewritten
  <2> QED BY <1>2, <2>1, <2>2 DEF WriteChangesets
<1>3. CASE SubmitUpsert(p) \/ SubmitActivate(p) \/ SubmitPause(p) \/ SubmitDelete(p)
  BY <1>3, NotWritten DEF FileInv, At
<1>4. CASE ReadChangesets(p)
  <2>1. UNCHANGED csFile
    BY <1>4 DEF ReadChangesets, LocalStep, outVars
  <2>2. CASE Finish(p, "error")
    BY <1>1, <2>2 DEF Finish, FileInv, At, Command
  <2>3. CASE cli' = [cli EXCEPT ![p].phase = "csWrite", ![p].copy = csFile]
    <3>1. cli'[p].copy = csFile /\ cli'[p].result = cli[p].result
          /\ cli[p].result # "ok"
      BY <1>1, <1>4, <2>3 DEF ReadChangesets, At, Command
    <3> QED BY <2>1, <3>1 DEF FileInv, At
  <2> QED BY <1>4, <2>2, <2>3 DEF ReadChangesets
<1>5. CASE cli'[p] = cli[p] /\ UNCHANGED csFile
  BY <1>5 DEF FileInv, At
<1>6. CASE cli'[p].result = "none" /\ cli'[p].phase = "connect"
  BY <1>6 DEF FileInv, At
<1>7. CASE \/ ClientFails(p) \/ Connect(p) \/ ReadFails(p) \/ DeployLookup(p)
           \/ ActivateLookup(p) \/ PauseLookup(p) \/ DeleteLookup(p) \/ Confirm(p)
           \/ CountSameName(p) \/ CheckQuota(p) \/ Upload(p)
  BY <1>7, NotYet DEF FileInv, At
<1>8. UNCHANGED csFile \/ WriteChangesets(p)
  <2>1. ASSUME NEW q \in Procs, Step(q) PROVE UNCHANGED csFile \/ WriteChangesets(p)
    <3>1. q = p
      OBVIOUS
    <3> QED BY <2>1, <3>1
            DEF Step, ClientFails, Connect, ReadFails, DeployLookup, ActivateLookup,
                PauseLookup, DeleteLookup, Confirm, CountSameName, CheckQuota, Upload,
                SubmitUpsert, SubmitActivate, SubmitPause, SubmitDelete,
                ReadChangesets, LocalStep, outVars, Send
  <2> QED BY <2>1, Zenon
          DEF Next, StartDeploy, StartActivate, StartPause, StartDelete, Start,
              OtherClient, MineLate, SubmitPrepared, ApplyChangeset, outVars, vars
<1> QED BY <1>2, <1>3, <1>4, <1>5, <1>6, <1>7, <1>8, Moves, Zenon DEF Step

\* Nobody writes the file between the read and the write of the only command.
LEMMA FileInvariant ==
  ASSUME WorkflowCommandsAssumption, NEW p, Procs = {p}, Type = "changeset"
  PROVE  Spec => []FileInv(p)
<1>1. Init => FileInv(p)
  BY DEF Init, Idle, Record, FileInv, At
<1>2. WorkInv /\ FileInv(p) /\ [Next]_vars => FileInv(p)'
  BY FileKept
<1> QED BY <1>1, <1>2, Invariant, PTL DEF Spec
-----------------------------------------------------------------------------
(* The theorems *)

\* Commands, transactions and the registry keep their types; the registry has
\* one entry per name and tag and never runs more than the contract allows.
THEOREM TypesAreKept ==
  ASSUME WorkflowCommandsAssumption PROVE Spec => []TypeOK
<1>1. WorkInv => TypeOK
  BY InvType
<1> QED BY <1>1, Invariant, PTL

\* No deploy undoes a pause it has seen, however late it lands.
THEOREM PausesAreKept ==
  ASSUME WorkflowCommandsAssumption PROVE Spec => [][PauseNotUndone]_vars
<1>1. WorkInv /\ [Next]_vars => PauseNotUndone
  BY PausesStay
<1> QED BY <1>1, Invariant, PTL DEF Spec

\* What passes the checks of a command is accepted by the contract, and what
\* they refuse for the quota is not.
THEOREM ChecksAreExact ==
  ASSUME WorkflowCommandsAssumption
  PROVE  Spec => []ChecksSuffice /\ [][RefusalsJustified]_vars
<1>1. WorkInv => ChecksSuffice
  BY ChecksFit
<1>2. WorkInv /\ [Next]_vars => RefusalsJustified
  BY RefusalsFit
<1> QED BY <1>1, <1>2, Invariant, PTL DEF Spec

\* A command that reports success on the chain has done what it was asked.
THEOREM SuccessesAreDone ==
  ASSUME WorkflowCommandsAssumption PROVE Spec => [][SuccessMeansDone]_vars
<1>1. WorkInv /\ [Next]_vars => SuccessMeansDone
  BY SuccessDone
<1> QED BY <1>1, Invariant, PTL DEF Spec

\* Commands that run one after the other lose no changeset.
THEOREM ChangesetsAreKept ==
  ASSUME WorkflowCommandsAssumption, NEW p, Procs = {p}
  PROVE  Spec => []AppendedStays
<1>1. CASE Type = "changeset"
  <2>1. FileInv(p) => AppendedStays
    BY DEF FileInv, AppendedStays
  <2> QED BY <1>1, <2>1, FileInvariant, PTL
<1>2. CASE Type # "changeset"
  <2>1. AppendedStays
    BY <1>2 DEF AppendedStays
  <2> QED BY <2>1, PTL
<1> QED BY <1>1, <1>2
===============================================================================
