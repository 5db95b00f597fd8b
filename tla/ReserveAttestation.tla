------------------------- MODULE ReserveAttestation -------------------------
(***************************************************************************)
(* contracts/src/ReserveAttestation.sol and the chain it lives on: the     *)
(* boolean attestation, the ReserveStatusUpdated events it emits, and the  *)
(* blocks that carry them.  A transaction executes in the block being      *)
(* built; MineBlock makes that block visible to JSON-RPC readers.  Several *)
(* attestations may share a block and a block may carry none.              *)
(***************************************************************************)
EXTENDS Naturals, Sequences

CONSTANTS Accounts,    \* senders of transactions
          Owner,       \* msg.sender of the constructor
          MaxEvents,   \* bound: attestations written to the chain
          MaxBlocks    \* bound: blocks mined

ASSUME AttestationAssumption ==
  /\ Owner \in Accounts
  /\ MaxEvents \in Nat
  /\ MaxBlocks \in Nat

VARIABLES isSolvent,    \* the public boolean
          lastUpdated,  \* block.timestamp of the last write, 0 if none
          log,          \* ReserveStatusUpdated events, in emission order
          sealed        \* sealed[b]: how many events blocks 1..b carry

chainVars == <<isSolvent, lastUpdated, log, sealed>>

Event == [isSolvent : BOOLEAN, timestamp : Nat]

\* eth_blockNumber: the last mined block; the genesis block is 0.
BlockNumber == Len(sealed)

\* block.timestamp of the block being built, abstracted to its number: both
\* grow with every block.
Now == BlockNumber + 1

EventsUpTo(b) == IF b = 0 THEN 0 ELSE sealed[b]

\* eth_getLogs for ReserveStatusUpdated over the mined blocks from..to.
ContractEvents(from, to) ==
  SubSeq(log, EventsUpTo(from - 1) + 1, EventsUpTo(to))

ChainInit ==
  /\ isSolvent = TRUE
  /\ lastUpdated = 0
  /\ log = <<>>
  /\ sealed = <<>>

\* Mutant of Attest: the boolean is not stored.
AttestWithoutStore(solvent) ==
  /\ Len(log) < MaxEvents
  /\ BlockNumber < MaxBlocks
  /\ lastUpdated' = Now
  /\ log' = Append(log, [isSolvent |-> solvent, timestamp |-> Now])
  /\ UNCHANGED <<isSolvent, sealed>>

\* What both writers do: store the boolean and the time, emit the event.
Attest(solvent) ==
  /\ Len(log) < MaxEvents
  /\ BlockNumber < MaxBlocks
  /\ isSolvent' = solvent
  /\ lastUpdated' = Now
  /\ log' = Append(log, [isSolvent |-> solvent, timestamp |-> Now])
  /\ UNCHANGED sealed

UpdateAttestation(sender, solvent) ==
  /\ sender = Owner
  /\ Attest(solvent)

\* The CRE callback carries no sender check and no ordering of reports.
OnReport(solvent) == Attest(solvent)

MineBlock ==
  /\ BlockNumber < MaxBlocks
  /\ sealed' = Append(sealed, Len(log))
  /\ UNCHANGED <<isSolvent, lastUpdated, log>>

ChainNext ==
  \/ \E sender \in Accounts, solvent \in BOOLEAN :
        UpdateAttestation(sender, solvent)
  \/ \E solvent \in BOOLEAN : OnReport(solvent)
  \/ MineBlock

ChainTypeOK ==
  /\ isSolvent \in BOOLEAN
  /\ lastUpdated \in Nat
  /\ log \in Seq(Event)
  /\ sealed \in Seq(Nat)

\* Blocks partition the log: each one starts where the previous one ended,
\* and none carries an event that was not emitted.
BlocksPartitionLog ==
  /\ \A b \in 1..Len(sealed) : sealed[b] <= Len(log)
  /\ \A a, b \in 1..Len(sealed) : a <= b => sealed[a] <= sealed[b]

\* A watcher of the events knows the stored state: the contract holds what
\* its last event announced, or what the constructor wrote if there is none.
EventsMirrorState ==
  IF log = <<>>
  THEN isSolvent /\ lastUpdated = 0
  ELSE /\ isSolvent = log[Len(log)].isSolvent
       /\ lastUpdated = log[Len(log)].timestamp
=============================================================================
