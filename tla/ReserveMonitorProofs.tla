------------------------ MODULE ReserveMonitorProofs ------------------------
(***************************************************************************)
(* Theorems about ReserveMonitor, for every number of accounts, events,    *)
(* blocks and restarts.  The inductive invariant is the conjunction of the *)
(* type invariant, of BlocksPartitionLog (so that EventsUpTo is monotonic  *)
(* and never beyond the log) and of the two cursor properties.             *)
(***************************************************************************)
EXTENDS ReserveMonitor, SequenceTheorems, TLAPS

USE AttestationAssumption, MonitorAssumption

ChainInv == ChainTypeOK /\ BlocksPartitionLog

MonitorInv == TypeOK /\ BlocksPartitionLog /\ CursorMatchesHanded /\ HandedIsMinedPrefix
-----------------------------------------------------------------------------
(* Lemmas about the chain.                                                 *)

LEMMA EventsUpToBound ==
  ASSUME ChainInv, NEW b \in 0..BlockNumber
  PROVE  EventsUpTo(b) \in 0..Len(log)
BY DEF ChainInv, ChainTypeOK, BlocksPartitionLog, EventsUpTo, BlockNumber

LEMMA EventsUpToMonotonic ==
  ASSUME ChainInv, NEW a \in 0..BlockNumber, NEW b \in 0..BlockNumber, a <= b
  PROVE  EventsUpTo(a) <= EventsUpTo(b)
BY DEF ChainInv, ChainTypeOK, BlocksPartitionLog, EventsUpTo, BlockNumber

LEMMA ChainInvInit == ChainInit => ChainInv
BY DEF ChainInit, ChainInv, ChainTypeOK, BlocksPartitionLog, Event

\* What a step of the chain leaves alone: mined blocks keep their events and
\* the log only grows.
ChainGrows ==
  /\ BlockNumber <= BlockNumber'
  /\ \A b \in 0..BlockNumber : EventsUpTo(b)' = EventsUpTo(b)
  /\ EventsUpTo(BlockNumber) <= EventsUpTo(BlockNumber)'
  /\ Len(log) <= Len(log')
  /\ \A i \in 1..Len(log) : log'[i] = log[i]

LEMMA ChainStep ==
  ASSUME ChainInv, ChainNext
  PROVE  ChainInv' /\ ChainGrows
<1>1. ASSUME NEW solvent \in BOOLEAN, Attest(solvent)
      PROVE  ChainInv' /\ ChainGrows
  <2>1. BlockNumber \in Nat /\ Now \in Nat
    BY DEF ChainInv, ChainTypeOK, BlockNumber, Now
  <2>2. [isSolvent |-> solvent, timestamp |-> Now] \in Event
    BY <2>1 DEF Event
  <2>3. ChainTypeOK'
    BY <1>1, <2>1, <2>2 DEF Attest, ChainInv, ChainTypeOK
  <2>4. Len(log') = Len(log) + 1 /\ \A i \in 1..Len(log) : log'[i] = log[i]
    BY <1>1, <2>2 DEF Attest, ChainInv, ChainTypeOK
  <2>5. BlocksPartitionLog'
    BY <1>1, <2>4 DEF Attest, ChainInv, ChainTypeOK, BlocksPartitionLog
  <2>6. ChainGrows
    BY <1>1, <2>1, <2>4 DEF Attest, ChainInv, ChainTypeOK, ChainGrows, BlockNumber, EventsUpTo
  <2> QED BY <2>3, <2>5, <2>6 DEF ChainInv
<1>2. CASE MineBlock
  <2>1. ChainTypeOK'
    BY <1>2 DEF MineBlock, ChainInv, ChainTypeOK
  <2>2. Len(sealed') = Len(sealed) + 1 /\ \A b \in 1..Len(sealed) : sealed'[b] = sealed[b]
    BY <1>2 DEF MineBlock, ChainInv, ChainTypeOK
  <2>3. sealed'[Len(sealed')] = Len(log)
    BY <1>2 DEF MineBlock, ChainInv, ChainTypeOK
  <2>4. BlocksPartitionLog'
    BY <1>2, <2>2, <2>3 DEF MineBlock, ChainInv, ChainTypeOK, BlocksPartitionLog
  <2>5. EventsUpTo(BlockNumber) <= EventsUpTo(BlockNumber)'
    BY <1>2, <2>2, <2>3 DEF MineBlock, ChainInv, ChainTypeOK, BlocksPartitionLog,
                            BlockNumber, EventsUpTo
  <2>6. ChainGrows
    BY <1>2, <2>2, <2>5 DEF MineBlock, ChainInv, ChainTypeOK, ChainGrows, BlockNumber, EventsUpTo
  <2> QED BY <2>1, <2>4, <2>6 DEF ChainInv
<1> QED BY <1>1, <1>2 DEF ChainNext, UpdateAttestation, OnReport
-----------------------------------------------------------------------------
(* Lemmas about sequences.                                                 *)

LEMMA SubSeqType ==
  ASSUME NEW S, NEW s \in Seq(S), NEW m \in Nat \ {0}, NEW n \in 0..Len(s)
  PROVE  /\ SubSeq(s, m, n) \in Seq(S)
         /\ Len(SubSeq(s, m, n)) = IF m <= n THEN n - m + 1 ELSE 0
         /\ \A i \in 1..(n - m + 1) : SubSeq(s, m, n)[i] = s[m + i - 1]
<1>1. \A i \in m..n : s[i] \in S
  BY LenProperties
<1> QED BY <1>1, SubSeqProperties, LenProperties

LEMMA SubSeqStable ==
  ASSUME NEW S, NEW s \in Seq(S), NEW t \in Seq(S), Len(s) <= Len(t),
         \A i \in 1..Len(s) : t[i] = s[i],
         NEW m \in Nat \ {0}, NEW n \in 0..Len(s)
  PROVE  SubSeq(t, m, n) = SubSeq(s, m, n)
<1>1. Len(s) \in Nat /\ Len(t) \in Nat
  BY LenProperties
<1>2. n \in 0..Len(t)
  BY <1>1
<1>3. \A i \in 1..(n - m + 1) : m + i - 1 \in 1..Len(s)
  BY <1>1
<1> QED BY <1>1, <1>2, <1>3, SubSeqType, SeqEqual

LEMMA SubSeqFirst ==
  ASSUME NEW S, NEW s \in Seq(S), NEW m \in Nat \ {0}, NEW n \in 0..Len(s), m <= n
  PROVE  /\ SubSeq(s, m, n) # <<>>
         /\ Head(SubSeq(s, m, n)) = s[m]
         /\ Tail(SubSeq(s, m, n)) = SubSeq(s, m + 1, n)
<1> DEFINE u == SubSeq(s, m, n)
<1> DEFINE v == SubSeq(s, m + 1, n)
<1>1. /\ u \in Seq(S)
      /\ Len(u) = n - m + 1
      /\ \A i \in 1..(n - m + 1) : u[i] = s[m + i - 1]
  BY SubSeqType
<1>2. /\ v \in Seq(S)
      /\ Len(v) = n - m
      /\ \A i \in 1..(n - m) : v[i] = s[m + i]
  <2>1. m + 1 \in Nat \ {0}
    OBVIOUS
  <2>2. /\ v \in Seq(S)
        /\ Len(v) = IF m + 1 <= n THEN n - (m + 1) + 1 ELSE 0
        /\ \A i \in 1..(n - (m + 1) + 1) : v[i] = s[(m + 1) + i - 1]
    BY <2>1, SubSeqType
  <2> QED BY <2>2
<1>3. n - m + 1 \in Nat \ {0}
  OBVIOUS
<1>4. u # <<>>
  BY <1>1, <1>3, EmptySeq
<1>5. Head(u) = s[m]
  BY <1>1, <1>3
<1>6. /\ Tail(u) \in Seq(S)
      /\ Len(Tail(u)) = Len(u) - 1
      /\ \A i \in 1..Len(Tail(u)) : Tail(u)[i] = u[i + 1]
  BY <1>1, <1>4, HeadTailProperties
<1>7. \A i \in 1..(n - m) : Tail(u)[i] = v[i]
  BY <1>1, <1>2, <1>6
<1>8. Tail(u) = v
  BY <1>1, <1>2, <1>6, <1>7, SeqEqual
<1> QED BY <1>4, <1>5, <1>8

LEMMA SubSeqExtend ==
  ASSUME NEW S, NEW s \in Seq(S), NEW n \in 0..Len(s), n < Len(s)
  PROVE  Append(SubSeq(s, 1, n), s[n + 1]) = SubSeq(s, 1, n + 1)
<1> DEFINE u == Append(SubSeq(s, 1, n), s[n + 1])
<1> DEFINE v == SubSeq(s, 1, n + 1)
<1>1. Len(s) \in Nat /\ n + 1 \in 0..Len(s) /\ s[n + 1] \in S
  BY LenProperties
<1>2. SubSeq(s, 1, n) \in Seq(S) /\ Len(SubSeq(s, 1, n)) = n
      /\ \A i \in 1..n : SubSeq(s, 1, n)[i] = s[i]
  BY <1>1, SubSeqType
<1>3. v \in Seq(S) /\ Len(v) = n + 1 /\ \A i \in 1..(n + 1) : v[i] = s[i]
  BY <1>1, SubSeqType
<1>4. u \in Seq(S) /\ Len(u) = n + 1 /\ \A i \in 1..(n + 1) : u[i] = s[i]
  BY <1>1, <1>2
<1> QED BY <1>3, <1>4, SeqEqual
-----------------------------------------------------------------------------
(* The inductive invariant.                                                *)

LEMMA MonitorInvInit == Init => MonitorInv
<1> SUFFICES ASSUME Init PROVE MonitorInv
  OBVIOUS
<1>1. TypeOK /\ BlocksPartitionLog
  BY ChainInvInit DEF Init, MonitorInit, ChainInv, TypeOK, Locations
<1>2. EventsUpTo(0) = 0 /\ BlockNumber = 0
  BY DEF Init, ChainInit, EventsUpTo, BlockNumber
<1>3. CursorMatchesHanded
  BY <1>2 DEF Init, MonitorInit, CursorMatchesHanded
<1>4. HandedIsMinedPrefix
  BY <1>2, SubSeqEmpty DEF Init, MonitorInit, ChainInit, HandedIsMinedPrefix
<1> QED BY <1>1, <1>3, <1>4 DEF MonitorInv

LEMMA ChainKeepsMonitorInv ==
  ASSUME MonitorInv, ChainNext, UNCHANGED monitorVars
  PROVE  MonitorInv'
<1>1. ChainInv /\ ChainInv' /\ ChainGrows
  BY ChainStep DEF MonitorInv, TypeOK, ChainInv
<1>2. TypeOK' /\ BlocksPartitionLog'
  BY <1>1 DEF MonitorInv, TypeOK, ChainInv, monitorVars
<1>3. /\ log \in Seq(Event) /\ log' \in Seq(Event)
      /\ Len(log) \in Nat /\ Len(log) <= Len(log')
      /\ \A i \in 1..Len(log) : log'[i] = log[i]
  BY <1>1 DEF ChainInv, ChainTypeOK, ChainGrows
<1>4. /\ BlockNumber \in Nat /\ BlockNumber' \in Nat /\ BlockNumber <= BlockNumber'
      /\ \A b \in 0..BlockNumber : EventsUpTo(b)' = EventsUpTo(b)
  BY <1>1 DEF ChainInv, ChainTypeOK, ChainGrows, BlockNumber
<1>5. lastBlock \in 0..BlockNumber
  BY <1>4 DEF MonitorInv, TypeOK, CursorMatchesHanded
<1>6. EventsUpTo(lastBlock)' = EventsUpTo(lastBlock)
  BY <1>4, <1>5 DEF monitorVars, EventsUpTo
<1>7. CursorMatchesHanded'
  <2>1. CASE pc = "dispatch"
    <3>1. currentBlock \in 0..BlockNumber
      BY <2>1, <1>4 DEF MonitorInv, TypeOK, CursorMatchesHanded
    <3>2. EventsUpTo(currentBlock)' = EventsUpTo(currentBlock)
      BY <3>1, <1>4 DEF monitorVars, EventsUpTo
    <3>3. EventsUpTo(currentBlock) \in 0..Len(log)
      BY <3>1, <1>1, EventsUpToBound
    <3>4. Len(handed) + 1 \in Nat \ {0}
      BY DEF MonitorInv, TypeOK
    <3>5. SubSeq(log', Len(handed) + 1, EventsUpTo(currentBlock))
            = SubSeq(log, Len(handed) + 1, EventsUpTo(currentBlock))
      BY <1>3, <3>3, <3>4, SubSeqStable
    <3>6. logs = SubSeq(log', Len(handed) + 1, EventsUpTo(currentBlock)')
      BY <2>1, <3>2, <3>5 DEF MonitorInv, CursorMatchesHanded
    <3> QED
      BY <2>1, <1>4, <3>2, <3>6 DEF MonitorInv, TypeOK, CursorMatchesHanded, monitorVars
  <2>2. CASE pc # "dispatch"
    BY <2>2, <1>4, <1>6 DEF MonitorInv, TypeOK, CursorMatchesHanded, monitorVars
  <2> QED BY <2>1, <2>2
<1>9. HandedIsMinedPrefix'
  <2>1. EventsUpTo(BlockNumber) \in 0..Len(log)
    BY <1>1, <1>4, EventsUpToBound
  <2>2. EventsUpTo(BlockNumber) <= EventsUpTo(BlockNumber)' /\ EventsUpTo(BlockNumber)' \in Nat
    <3>1. BlockNumber' = 0 \/ BlockNumber' \in 1..Len(sealed')
      BY <1>4 DEF BlockNumber
    <3> QED BY <1>1, <3>1 DEF ChainGrows, EventsUpTo, ChainInv, ChainTypeOK
  <2>3. Len(handed) \in 0..EventsUpTo(BlockNumber)
    BY <2>1 DEF MonitorInv, TypeOK, HandedIsMinedPrefix
  <2>4. Len(handed) \in 0..Len(log)
    BY <2>1, <2>3, <1>3
  <2>5. SubSeq(log', 1, Len(handed)) = SubSeq(log, 1, Len(handed))
    BY <1>3, <2>4, SubSeqStable
  <2> QED BY <1>1, <2>1, <2>2, <2>3, <2>5 DEF MonitorInv, HandedIsMinedPrefix, monitorVars
<1> QED BY <1>2, <1>7, <1>9 DEF MonitorInv

\* What the invariant gives every step of the loop: the chain does not move
\* and the cursor is a mined block.
LEMMA MonitorFacts ==
  ASSUME MonitorInv, UNCHANGED chainVars
  PROVE  /\ ChainInv /\ ChainTypeOK' /\ BlocksPartitionLog'
         /\ log \in Seq(Event) /\ Len(log) \in Nat /\ BlockNumber \in Nat
         /\ BlockNumber' = BlockNumber
         /\ lastBlock \in 0..BlockNumber
         /\ EventsUpTo(lastBlock) \in 0..Len(log)
<1>1. ChainInv /\ ChainTypeOK' /\ BlocksPartitionLog' /\ BlockNumber' = BlockNumber
  BY DEF MonitorInv, TypeOK, ChainInv, ChainTypeOK, BlocksPartitionLog, chainVars, BlockNumber
<1>2. log \in Seq(Event) /\ Len(log) \in Nat /\ BlockNumber \in Nat
  BY <1>1 DEF ChainInv, ChainTypeOK, BlockNumber
<1>3. lastBlock \in 0..BlockNumber
  BY <1>2 DEF MonitorInv, TypeOK, CursorMatchesHanded
<1> QED BY <1>1, <1>2, <1>3, EventsUpToBound

\* The steps that touch neither the queued events nor those handed over.
LEMMA WaitingKeepsMonitorInv ==
  ASSUME MonitorInv, UNCHANGED chainVars, pc # "dispatch",
         UNCHANGED <<lastBlock, logs, handed>>, restarts' \in Nat,
         pc' \in Locations, pc' # "dispatch", currentBlock' \in Nat,
         pc' = "getContractEvents" => lastBlock < currentBlock' /\ currentBlock' <= BlockNumber,
         pc' = "down" => lastBlock = 0
  PROVE  MonitorInv'
<1>1. TypeOK' /\ BlocksPartitionLog'
  BY MonitorFacts DEF MonitorInv, TypeOK
<1>2. CursorMatchesHanded'
  BY MonitorFacts DEF MonitorInv, CursorMatchesHanded, EventsUpTo, chainVars
<1>3. HandedIsMinedPrefix'
  BY MonitorFacts DEF MonitorInv, HandedIsMinedPrefix, EventsUpTo, chainVars
<1> QED BY <1>1, <1>2, <1>3 DEF MonitorInv

LEMMA PollKeepsMonitorInv ==
  ASSUME MonitorInv, UNCHANGED chainVars,
         \/ \E head \in Heads : NewBlocks(head) \/ NoNewBlocks(head)
         \/ PollFails \/ Wake \/ Start
  PROVE  MonitorInv'
<1>1. Heads \subseteq Nat /\ \A head \in Heads : head <= BlockNumber
  BY MonitorFacts DEF Heads
<1>2. lastBlock \in Nat /\ currentBlock \in Nat /\ restarts \in Nat
  BY DEF MonitorInv, TypeOK
<1>3. ASSUME NEW head \in Heads, NewBlocks(head) PROVE MonitorInv'
  BY <1>1, <1>2, <1>3, WaitingKeepsMonitorInv DEF NewBlocks, Locations
<1>4. ASSUME NEW head \in Heads, NoNewBlocks(head) PROVE MonitorInv'
  BY <1>1, <1>2, <1>4, WaitingKeepsMonitorInv DEF NoNewBlocks, Locations
<1>5. CASE PollFails
  BY <1>2, <1>5, WaitingKeepsMonitorInv DEF PollFails, Locations
<1>6. CASE Wake
  BY <1>2, <1>6, WaitingKeepsMonitorInv DEF Wake, Locations
<1>7. CASE Start
  BY <1>2, <1>7, WaitingKeepsMonitorInv DEF Start, Locations
<1> QED BY <1>3, <1>4, <1>5, <1>6, <1>7

\* FetchLogs queues exactly the events between the cursor and the head.
LEMMA FetchKeepsMonitorInv ==
  ASSUME MonitorInv, UNCHANGED chainVars, FetchLogs
  PROVE  MonitorInv'
<1>1. /\ currentBlock \in 0..BlockNumber /\ lastBlock < currentBlock
      /\ Len(handed) = EventsUpTo(lastBlock)
  BY MonitorFacts DEF FetchLogs, MonitorInv, TypeOK, CursorMatchesHanded
<1>2. /\ EventsUpTo(currentBlock) \in 0..Len(log)
      /\ EventsUpTo(lastBlock) <= EventsUpTo(currentBlock)
  BY <1>1, MonitorFacts, EventsUpToBound, EventsUpToMonotonic
<1>3. logs' = SubSeq(log, Len(handed) + 1, EventsUpTo(currentBlock))
  <2>1. logs' = SubSeq(log, EventsUpTo((lastBlock + 1) - 1) + 1, EventsUpTo(currentBlock))
    BY DEF FetchLogs, ContractEvents
  <2>2. (lastBlock + 1) - 1 = lastBlock
    BY MonitorFacts
  <2>3. EventsUpTo((lastBlock + 1) - 1) = Len(handed)
    BY <1>1, <2>2
  <2> QED BY <2>1, <2>3
<1>4. logs' \in Seq(Event)
  BY <1>1, <1>2, <1>3, MonitorFacts, SubSeqType
<1>5. TypeOK' /\ BlocksPartitionLog'
  BY <1>4, MonitorFacts DEF FetchLogs, MonitorInv, TypeOK, Locations
<1>6. EventsUpTo(currentBlock)' = EventsUpTo(currentBlock)
  BY DEF FetchLogs, EventsUpTo, chainVars
<1>7. CursorMatchesHanded'
  BY <1>1, <1>2, <1>3, <1>6, MonitorFacts
     DEF FetchLogs, MonitorInv, CursorMatchesHanded, chainVars
<1>8. HandedIsMinedPrefix'
  BY MonitorFacts DEF FetchLogs, MonitorInv, HandedIsMinedPrefix, EventsUpTo, chainVars
<1> QED BY <1>5, <1>7, <1>8 DEF MonitorInv

\* Each iteration moves the first queued event over to the handed ones.
LEMMA OnStatusKeepsMonitorInv ==
  ASSUME MonitorInv, UNCHANGED chainVars, OnStatus
  PROVE  /\ MonitorInv'
         /\ Len(handed) < EventsUpTo(BlockNumber)
         /\ handed' = Append(handed, log[Len(handed) + 1])
         /\ logs[1] = log[Len(handed) + 1]
<1> DEFINE n == EventsUpTo(currentBlock)
<1> DEFINE k == Len(handed)
<1>1. /\ currentBlock \in 0..BlockNumber /\ k \in Nat /\ k <= n
      /\ logs = SubSeq(log, k + 1, n) /\ logs # <<>>
      /\ handed = SubSeq(log, 1, k) /\ handed \in Seq(Event) /\ logs \in Seq(Event)
  BY MonitorFacts DEF OnStatus, MonitorInv, TypeOK, CursorMatchesHanded, HandedIsMinedPrefix
<1>2. n \in 0..Len(log) /\ n <= EventsUpTo(BlockNumber) /\ EventsUpTo(BlockNumber) \in 0..Len(log)
  BY <1>1, MonitorFacts, EventsUpToBound, EventsUpToMonotonic
<1>3. k < n
  BY <1>1, <1>2, SubSeqEmpty
<1>4. k + 1 \in Nat \ {0} /\ k + 1 <= n /\ k \in 0..Len(log) /\ k < Len(log)
  BY <1>1, <1>2, <1>3
<1>5. Head(logs) = log[k + 1] /\ Tail(logs) = SubSeq(log, k + 2, n)
  <2>1. /\ Head(SubSeq(log, k + 1, n)) = log[k + 1]
        /\ Tail(SubSeq(log, k + 1, n)) = SubSeq(log, (k + 1) + 1, n)
    BY <1>2, <1>4, MonitorFacts, SubSeqFirst
  <2>2. (k + 1) + 1 = k + 2
    BY <1>1
  <2> HIDE DEF n, k
  <2> QED BY <1>1, <2>1, <2>2
<1>6. handed' = Append(handed, log[k + 1]) /\ log[k + 1] \in Event
  BY <1>4, <1>5, MonitorFacts, LenProperties DEF OnStatus
<1>7. handed' = SubSeq(log, 1, k + 1) /\ Len(handed') = k + 1 /\ handed' \in Seq(Event)
  BY <1>1, <1>4, <1>6, MonitorFacts, SubSeqExtend
<1>8. logs' = SubSeq(log, k + 2, n) /\ logs' \in Seq(Event)
  BY <1>1, <1>5, HeadTailProperties DEF OnStatus
<1>9. TypeOK' /\ BlocksPartitionLog'
  BY <1>7, <1>8, MonitorFacts DEF OnStatus, MonitorInv, TypeOK
<1>10. /\ EventsUpTo(currentBlock)' = n
       /\ EventsUpTo(BlockNumber)' = EventsUpTo(BlockNumber)
  BY MonitorFacts DEF OnStatus, EventsUpTo, chainVars
<1>11. CursorMatchesHanded'
  <2>1. Len(handed') <= EventsUpTo(currentBlock)'
    BY <1>4, <1>7, <1>10
  <2>2. logs' = SubSeq(log', Len(handed') + 1, EventsUpTo(currentBlock)')
    <3>1. k + 2 = Len(handed') + 1
      BY <1>1, <1>7
    <3> QED BY <1>7, <1>8, <1>10, <3>1 DEF chainVars
  <2> QED BY <2>1, <2>2, MonitorFacts DEF OnStatus, MonitorInv, CursorMatchesHanded
<1>12. HandedIsMinedPrefix'
  <2>1. Len(handed') <= EventsUpTo(BlockNumber)'
    BY <1>2, <1>4, <1>7, <1>10
  <2> QED BY <1>7, <2>1 DEF HandedIsMinedPrefix, chainVars
<1>13. logs[1] = log[k + 1]
  BY <1>1, <1>5
<1> QED BY <1>2, <1>3, <1>6, <1>9, <1>11, <1>12, <1>13 DEF MonitorInv

\* When the queue is empty everything up to the head has been handed over.
LEMMA EndRoundKeepsMonitorInv ==
  ASSUME MonitorInv, UNCHANGED chainVars, EndRound
  PROVE  MonitorInv'
<1>1. /\ currentBlock \in 0..BlockNumber /\ Len(handed) \in Nat
      /\ Len(handed) <= EventsUpTo(currentBlock)
      /\ SubSeq(log, Len(handed) + 1, EventsUpTo(currentBlock)) = <<>>
  BY MonitorFacts DEF EndRound, MonitorInv, TypeOK, CursorMatchesHanded
<1>2. EventsUpTo(currentBlock) \in 0..Len(log)
  BY <1>1, MonitorFacts, EventsUpToBound
<1>3. Len(handed) = EventsUpTo(currentBlock)
  <2> SUFFICES ASSUME Len(handed) < EventsUpTo(currentBlock) PROVE FALSE
    BY <1>1, <1>2
  <2>1. Len(handed) + 1 \in Nat \ {0} /\ Len(handed) + 1 <= EventsUpTo(currentBlock)
    BY <1>1, <1>2
  <2> QED BY <1>1, <1>2, <2>1, MonitorFacts, SubSeqFirst
<1>4. TypeOK' /\ BlocksPartitionLog'
  BY MonitorFacts DEF EndRound, MonitorInv, TypeOK, Locations
<1>5. CursorMatchesHanded'
  BY <1>1, <1>3, MonitorFacts DEF EndRound, MonitorInv, CursorMatchesHanded, EventsUpTo, chainVars
<1>6. HandedIsMinedPrefix'
  BY MonitorFacts DEF EndRound, MonitorInv, HandedIsMinedPrefix, EventsUpTo, chainVars
<1> QED BY <1>4, <1>5, <1>6 DEF MonitorInv

LEMMA ExitKeepsMonitorInv ==
  ASSUME MonitorInv, UNCHANGED chainVars, Exit
  PROVE  MonitorInv'
<1>1. TypeOK' /\ BlocksPartitionLog'
  BY MonitorFacts DEF Exit, MonitorInv, TypeOK, Locations
<1>2. BlockNumber' \in 0..BlockNumber' /\ EventsUpTo(BlockNumber)' >= 0
  BY MonitorFacts, EventsUpToBound DEF MonitorInv, EventsUpTo, chainVars
<1>3. CursorMatchesHanded'
  BY MonitorFacts DEF Exit, CursorMatchesHanded, EventsUpTo
<1>4. SubSeq(log', 1, 0) = <<>>
  BY SubSeqEmpty
<1>5. HandedIsMinedPrefix'
  BY <1>2, <1>4 DEF Exit, HandedIsMinedPrefix
<1> QED BY <1>1, <1>3, <1>5 DEF MonitorInv

LEMMA MonitorInvStep == MonitorInv /\ [Next]_vars => MonitorInv'
<1> SUFFICES ASSUME MonitorInv, [Next]_vars PROVE MonitorInv'
  OBVIOUS
<1>1. CASE ChainNext /\ UNCHANGED monitorVars
  BY <1>1, ChainKeepsMonitorInv
<1>2. CASE MonitorNext /\ UNCHANGED chainVars
  BY <1>2, PollKeepsMonitorInv, FetchKeepsMonitorInv, OnStatusKeepsMonitorInv,
     EndRoundKeepsMonitorInv, ExitKeepsMonitorInv DEF MonitorNext
<1>3. CASE UNCHANGED vars
  BY <1>3 DEF vars, chainVars, monitorVars, MonitorInv, TypeOK, ChainTypeOK, BlocksPartitionLog,
              CursorMatchesHanded, HandedIsMinedPrefix, EventsUpTo, BlockNumber
<1> QED BY <1>1, <1>2, <1>3 DEF Next
-----------------------------------------------------------------------------
(* The safety theorems.                                                    *)

THEOREM MonitorInvariant == Spec => []MonitorInv
BY MonitorInvInit, MonitorInvStep, PTL DEF Spec

\* Every variable of the chain and of the loop keeps its type.
THEOREM TypeCorrect == Spec => []TypeOK
<1>1. MonitorInv => TypeOK
  BY DEF MonitorInv
<1> QED BY <1>1, MonitorInvariant, PTL

\* agent/monitor.ts: the cursor and the events handed over always agree.
THEOREM CursorCorrect == Spec => []CursorMatchesHanded
<1>1. MonitorInv => CursorMatchesHanded
  BY DEF MonitorInv
<1> QED BY <1>1, MonitorInvariant, PTL

\* agent/monitor.ts: onStatus sees each mined event once and in order.
THEOREM PrefixHanded == Spec => []HandedIsMinedPrefix
<1>1. MonitorInv => HandedIsMinedPrefix
  BY DEF MonitorInv
<1> QED BY <1>1, MonitorInvariant, PTL
-----------------------------------------------------------------------------
(* What the events say about the contract.                                 *)

LEMMA EventsMirrorStateInit == Init => EventsMirrorState
BY DEF Init, ChainInit, EventsMirrorState

LEMMA EventsMirrorStateStep ==
  MonitorInv /\ EventsMirrorState /\ [Next]_vars => EventsMirrorState'
<1> SUFFICES ASSUME MonitorInv, EventsMirrorState, [Next]_vars PROVE EventsMirrorState'
  OBVIOUS
<1>1. ASSUME NEW solvent \in BOOLEAN, Attest(solvent) PROVE EventsMirrorState'
  <2> DEFINE e == [isSolvent |-> solvent, timestamp |-> Now]
  <2>1. log \in Seq(Event) /\ e \in Event
    BY DEF MonitorInv, TypeOK, ChainTypeOK, Event, Now, BlockNumber
  <2>2. log' = Append(log, e) /\ isSolvent' = solvent /\ lastUpdated' = Now
    BY <1>1 DEF Attest
  <2>3. log' # <<>> /\ log'[Len(log')] = e
    BY <2>1, <2>2
  <2> QED BY <2>2, <2>3 DEF EventsMirrorState
<1>2. CASE MineBlock
  BY <1>2 DEF MineBlock, EventsMirrorState
<1>3. CASE UNCHANGED chainVars
  BY <1>3 DEF EventsMirrorState, chainVars
<1>4. CASE UNCHANGED vars
  BY <1>3, <1>4 DEF vars
<1> QED BY <1>1, <1>2, <1>3, <1>4 DEF Next, ChainNext, UpdateAttestation, OnReport

\* ReserveAttestation.sol with agent/monitor.ts: who has received every event
\* knows the state of the contract.
THEOREM Informed == Spec => []InformedWhenCaughtUp
<1>1. MonitorInv /\ EventsMirrorState => InformedWhenCaughtUp
  <2> SUFFICES ASSUME MonitorInv, EventsMirrorState, Len(handed) = Len(log)
               PROVE  handed = log
    BY DEF InformedWhenCaughtUp, EventsMirrorState
  <2>1. log \in Seq(Event) /\ handed = SubSeq(log, 1, Len(log))
    BY DEF MonitorInv, TypeOK, ChainTypeOK, HandedIsMinedPrefix
  <2>2. handed \in Seq(Event)
    BY DEF MonitorInv, TypeOK
  <2>3. Len(log) \in Nat /\ \A i \in 1..Len(log) : handed[i] = log[i]
    BY <2>1, SubSeqType
  <2> QED BY <2>1, <2>2, <2>3, SeqEqual
<1>2. Spec => []EventsMirrorState
  BY EventsMirrorStateInit, EventsMirrorStateStep, MonitorInvariant, PTL DEF Spec
<1> QED BY <1>1, <1>2, MonitorInvariant, PTL
-----------------------------------------------------------------------------
(* The loop implements the stream it promises.                             *)

LEMMA StreamInit == Init => Stream!Init
BY SubSeqEmpty DEF Init, ChainInit, MonitorInit, Stream!Init, MinedLog, EventsUpTo, BlockNumber

LEMMA StreamPublish ==
  ASSUME MonitorInv, MonitorInv', ChainNext, UNCHANGED monitorVars
  PROVE  Stream!Publish
<1> DEFINE n == EventsUpTo(BlockNumber)
<1>1. ChainInv /\ ChainInv' /\ ChainGrows
  BY ChainStep DEF MonitorInv, TypeOK, ChainInv
<1>2. BlockNumber \in 0..BlockNumber /\ BlockNumber' \in Nat /\ BlockNumber \in Nat
  BY <1>1 DEF ChainInv, ChainTypeOK, BlockNumber
<1>3. n \in 0..Len(log)
  BY <1>1, <1>2, EventsUpToBound
<1>4. n' \in 0..Len(log') /\ n <= n'
  <2>1. BlockNumber' = 0 \/ BlockNumber' \in 1..Len(sealed')
    BY <1>2 DEF BlockNumber
  <2>2. n' \in 0..Len(log')
    BY <1>1, <2>1 DEF EventsUpTo, BlockNumber, ChainInv, ChainTypeOK, BlocksPartitionLog
  <2> QED BY <1>1, <2>2 DEF ChainGrows
<1>5. /\ log \in Seq(Event) /\ log' \in Seq(Event) /\ Len(log) \in Nat
      /\ Len(log) <= Len(log') /\ \A i \in 1..Len(log) : log'[i] = log[i]
  BY <1>1 DEF ChainInv, ChainTypeOK, ChainGrows
<1> HIDE DEF n
<1>6. /\ SubSeq(log, 1, n) \in Seq(Event) /\ Len(SubSeq(log, 1, n)) = n
      /\ \A i \in 1..n : SubSeq(log, 1, n)[i] = log[i]
  BY <1>3, <1>5, SubSeqType
<1>7. /\ SubSeq(log', 1, n') \in Seq(Event) /\ Len(SubSeq(log', 1, n')) = n'
      /\ \A i \in 1..n' : SubSeq(log', 1, n')[i] = log'[i]
  BY <1>4, <1>5, SubSeqType
<1> DEFINE u == SubSeq(log, 1, n)
<1> DEFINE v == SubSeq(log', 1, n')
<1>8. /\ SubSeq(v, 1, n) \in Seq(Event) /\ Len(SubSeq(v, 1, n)) = n
      /\ \A i \in 1..n : SubSeq(v, 1, n)[i] = v[i]
  <2>1. n \in 0..Len(v) /\ n \in Nat
    BY <1>3, <1>4, <1>5, <1>7
  <2> QED BY <1>7, <2>1, SubSeqType
<1>9. u = SubSeq(v, 1, n)
  <2>1. \A i \in 1..n : i \in 1..n' /\ i \in 1..Len(log)
    BY <1>3, <1>4, <1>5
  <2>2. \A i \in 1..n : u[i] = SubSeq(v, 1, n)[i]
    BY <1>5, <1>6, <1>7, <1>8, <2>1
  <2> HIDE DEF u, v
  <2> QED BY <1>6, <1>8, <2>2, SeqEqual DEF u
<1>10. MinedLog = u /\ MinedLog' = v
  BY DEF MinedLog, n
<1> QED
  BY <1>4, <1>6, <1>7, <1>9, <1>10 DEF Stream!Publish, Stream!IsPrefixOf, monitorVars

LEMMA StreamDeliver ==
  ASSUME MonitorInv, UNCHANGED chainVars, OnStatus
  PROVE  Stream!Deliver
<1> DEFINE n == EventsUpTo(BlockNumber)
<1> DEFINE u == SubSeq(log, 1, n)
<1>1. /\ Len(handed) < n
      /\ handed' = Append(handed, log[Len(handed) + 1])
  BY OnStatusKeepsMonitorInv
<1>2. n \in 0..Len(log) /\ Len(handed) \in Nat
  BY MonitorFacts, EventsUpToBound DEF MonitorInv, TypeOK
<1>3. MinedLog' = MinedLog /\ MinedLog = u
  BY DEF MinedLog, EventsUpTo, BlockNumber, chainVars
<1> HIDE DEF n
<1>4. Len(u) = n /\ \A i \in 1..n : u[i] = log[i]
  BY <1>2, MonitorFacts, SubSeqType
<1>5. Len(handed) + 1 \in 1..n
  BY <1>1, <1>2
<1> QED BY <1>1, <1>3, <1>4, <1>5 DEF Stream!Deliver

LEMMA StreamStep ==
  MonitorInv /\ MonitorInv' /\ [Next]_vars => [Stream!Next]_(Stream!vars)
<1> SUFFICES ASSUME MonitorInv, MonitorInv', [Next]_vars
             PROVE  Stream!Next \/ UNCHANGED <<MinedLog, handed>>
  BY DEF Stream!vars
<1>1. ASSUME UNCHANGED chainVars PROVE MinedLog' = MinedLog
  BY <1>1 DEF MinedLog, EventsUpTo, BlockNumber, chainVars
<1>2. CASE ChainNext /\ UNCHANGED monitorVars
  BY <1>2, StreamPublish DEF Stream!Next
<1>3. CASE MonitorNext /\ UNCHANGED chainVars
  <2>1. CASE OnStatus
    BY <1>3, <2>1, StreamDeliver DEF Stream!Next
  <2>2. CASE Exit
    BY <1>1, <1>3, <2>2 DEF Exit, Stream!Next, Stream!Restart
  <2>3. CASE ~OnStatus /\ ~Exit
    BY <1>1, <1>3, <2>3
       DEF MonitorNext, NewBlocks, NoNewBlocks, FetchLogs, PollFails, EndRound, Wake, Start
  <2> QED BY <2>1, <2>2, <2>3
<1>4. CASE UNCHANGED vars
  BY <1>1, <1>4 DEF vars, monitorVars
<1> QED BY <1>2, <1>3, <1>4 DEF Next

\* agent/monitor.ts delivers the stream of mined events that EventStream
\* promises: the polling loop, its failed rounds and its restarts refine it.
THEOREM StreamImplemented == Spec => StreamSpec
BY StreamInit, StreamStep, MonitorInvariant, PTL DEF Spec, StreamSpec, Stream!Spec
=============================================================================
