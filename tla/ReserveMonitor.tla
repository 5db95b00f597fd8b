--------------------------- MODULE ReserveMonitor ---------------------------
(***************************************************************************)
(* agent/monitor.ts: the polling loop that turns mined blocks into calls   *)
(* of onStatus.  Every await of the loop is a step boundary; a failed RPC  *)
(* call abandons the round without moving the cursor.  The cursor lives in *)
(* the process only, so a restart polls from block 1 again.                *)
(***************************************************************************)
EXTENDS ReserveAttestation

CONSTANT MaxRestarts   \* bound: times the agent process is started again

ASSUME MonitorAssumption == MaxRestarts \in Nat

VARIABLES pc,            \* where the loop waits
          lastBlock,     \* last block whose events were dispatched
          currentBlock,  \* the head read in this round
          logs,          \* events of this round not yet dispatched
          handed,        \* events onStatus received since the process began
          restarts

monitorVars == <<pc, lastBlock, currentBlock, logs, handed, restarts>>
vars == <<chainVars, monitorVars>>

Locations == {"getBlockNumber", "getContractEvents", "dispatch", "sleep", "down"}

\* The heads eth_blockNumber may answer with: viem serves it from a cache for
\* a while and a node may lag, so the answer can be old but never in the future.
Heads == 0..BlockNumber

MonitorInit ==
  /\ pc = "getBlockNumber"
  /\ lastBlock = 0
  /\ currentBlock = 0
  /\ logs = <<>>
  /\ handed = <<>>
  /\ restarts = 0

\* Mutant of NewBlocks: off by one, the newest block is left for later.
NewBlocksLagging(head) ==
  /\ pc = "getBlockNumber"
  /\ head > lastBlock + 1
  /\ currentBlock' = head
  /\ pc' = "getContractEvents"
  /\ UNCHANGED <<lastBlock, logs, handed, restarts>>

\* client.getBlockNumber() resolves to head; the round goes on only past new
\* blocks.
NewBlocks(head) ==
  /\ pc = "getBlockNumber"
  /\ head > lastBlock
  /\ currentBlock' = head
  /\ pc' = "getContractEvents"
  /\ UNCHANGED <<lastBlock, logs, handed, restarts>>

NoNewBlocks(head) ==
  /\ pc = "getBlockNumber"
  /\ head <= lastBlock
  /\ currentBlock' = head
  /\ pc' = "sleep"
  /\ UNCHANGED <<lastBlock, logs, handed, restarts>>

\* Mutant of FetchLogs: fromBlock is lastBlock, not lastBlock + 1.
FetchLogsInclusive ==
  /\ pc = "getContractEvents"
  /\ logs' = ContractEvents(IF lastBlock = 0 THEN 1 ELSE lastBlock, currentBlock)
  /\ pc' = "dispatch"
  /\ UNCHANGED <<lastBlock, currentBlock, handed, restarts>>

FetchLogs ==
  /\ pc = "getContractEvents"
  /\ logs' = ContractEvents(lastBlock + 1, currentBlock)
  /\ pc' = "dispatch"
  /\ UNCHANGED <<lastBlock, currentBlock, handed, restarts>>

\* Either RPC call rejects: the catch block logs it and the loop sleeps.
PollFails ==
  /\ pc \in {"getBlockNumber", "getContractEvents"}
  /\ pc' = "sleep"
  /\ UNCHANGED <<lastBlock, currentBlock, logs, handed, restarts>>

\* One iteration of the for loop.  The callback is async, so it cannot throw
\* into the loop: dispatch always completes.
OnStatus ==
  /\ pc = "dispatch"
  /\ logs # <<>>
  /\ handed' = Append(handed, Head(logs))
  /\ logs' = Tail(logs)
  /\ UNCHANGED <<pc, lastBlock, currentBlock, restarts>>

\* Mutant of EndRound: the head is read again after the dispatch.
EndRoundRereading ==
  /\ pc = "dispatch"
  /\ logs = <<>>
  /\ lastBlock' = BlockNumber
  /\ pc' = "sleep"
  /\ UNCHANGED <<currentBlock, logs, handed, restarts>>

EndRound ==
  /\ pc = "dispatch"
  /\ logs = <<>>
  /\ lastBlock' = currentBlock
  /\ pc' = "sleep"
  /\ UNCHANGED <<currentBlock, logs, handed, restarts>>

\* The setTimeout of pollInterval fires.
Wake ==
  /\ pc = "sleep"
  /\ pc' = "getBlockNumber"
  /\ UNCHANGED <<lastBlock, currentBlock, logs, handed, restarts>>

\* The process dies at any point, by signal (stop() and process.exit) or not.
Exit ==
  /\ pc # "down"
  /\ pc' = "down"
  /\ lastBlock' = 0
  /\ currentBlock' = 0
  /\ logs' = <<>>
  /\ handed' = <<>>
  /\ UNCHANGED restarts

Start ==
  /\ pc = "down"
  /\ restarts < MaxRestarts
  /\ restarts' = restarts + 1
  /\ pc' = "getBlockNumber"
  /\ UNCHANGED <<lastBlock, currentBlock, logs, handed>>

MonitorNext ==
  \/ \E head \in Heads : NewBlocks(head) \/ NoNewBlocks(head)
  \/ FetchLogs \/ PollFails
  \/ OnStatus \/ EndRound \/ Wake
  \/ Exit \/ Start

Init == ChainInit /\ MonitorInit

Next ==
  \/ ChainNext /\ UNCHANGED monitorVars
  \/ MonitorNext /\ UNCHANGED chainVars

Spec == Init /\ [][Next]_vars
-----------------------------------------------------------------------------
TypeOK ==
  /\ ChainTypeOK
  /\ pc \in Locations
  /\ lastBlock \in Nat
  /\ currentBlock \in Nat
  /\ logs \in Seq(Event)
  /\ handed \in Seq(Event)
  /\ restarts \in Nat

\* While events are being dispatched, what was handed over and what is still
\* queued are together exactly the events up to the head read in this round;
\* at every other point the cursor and the handed events agree.
CursorMatchesHanded ==
  /\ lastBlock <= BlockNumber
  /\ pc \in {"getContractEvents", "dispatch"} =>
        lastBlock < currentBlock /\ currentBlock <= BlockNumber
  /\ IF pc = "dispatch"
     THEN /\ Len(handed) <= EventsUpTo(currentBlock)
          /\ logs = SubSeq(log, Len(handed) + 1, EventsUpTo(currentBlock))
     ELSE /\ logs = <<>>
          /\ Len(handed) = EventsUpTo(lastBlock)
  /\ pc = "down" => lastBlock = 0

\* The callback has seen a prefix of the mined log: in order, nothing
\* skipped, nothing twice, nothing from a block that is not mined yet.
HandedIsMinedPrefix ==
  /\ Len(handed) <= EventsUpTo(BlockNumber)
  /\ handed = SubSeq(log, 1, Len(handed))

\* Events are enough to follow the contract: a callback that has received
\* everything emitted knows what it would read from isSolvent and lastUpdated,
\* whichever writers wrote, through however many rounds and restarts.
InformedWhenCaughtUp ==
  Len(handed) = Len(log) =>
     IF handed = <<>>
     THEN isSolvent /\ lastUpdated = 0
     ELSE LET e == handed[Len(handed)]
          IN isSolvent = e.isSolvent /\ lastUpdated = e.timestamp

\* Every mined event reaches the callback of a process that stays up, whatever
\* RPC calls fail on the way and however often it was restarted before.
EventsAreDelivered ==
  <>[](pc # "down") =>
     \A i \in 1..MaxEvents :
        (i <= EventsUpTo(BlockNumber)) ~> (Len(handed) >= i)

\* The promise the loop implements.
MinedLog == SubSeq(log, 1, EventsUpTo(BlockNumber))
Stream == INSTANCE EventStream WITH stream <- MinedLog, handed <- handed
StreamSpec == Stream!Spec
=============================================================================
