----------------------------- MODULE CREDarkPool -----------------------------
(***************************************************************************)
(* contracts/src/CREDarkPool.sol: collateral requests, the four calls that *)
(* move them on (confidentialFill, confidentialPartialFill, cccSettle,     *)
(* expireRequest) and the withdrawal against a ticket.  A transaction runs *)
(* alone and a revert undoes it, so each external function is one action   *)
(* whose guard is the conjunction of its checks.  The contract's mappings  *)
(* are total functions whose default is the zero value, as in Solidity.    *)
(*                                                                         *)
(* A request id is keccak256 of the sender, the payload and the block, so  *)
(* it is that record; fields of a request that the id determines are not   *)
(* stored again, nor are those the contract never reads.                   *)
(***************************************************************************)
EXTENDS Naturals, Sequences, FiniteSets

CONSTANTS Users,           \* callers of requestCollateral
          Enclaves,        \* accounts that may hold CCC_ENCLAVE_ROLE
          Shielded,        \* shielded addresses
          Tickets,         \* withdrawal tickets the enclaves issue
          ZeroTicket,      \* bytes32(0)
          Hashes,          \* hashes of balance tables
          ZeroHash,
          MinTimeout, MaxTimeout,   \* 300 and 86400 seconds
          MaxPremiumBps,            \* 1000
          Timeouts, Premiums,       \* arguments tried for a request
          Amounts,                  \* amounts funded and withdrawn
          MaxTime, MaxRequests, MaxVersion, MaxPool   \* bounds

ASSUME DarkPoolAssumption ==
  /\ ZeroTicket \notin Tickets
  /\ ZeroHash \notin Hashes
  /\ MinTimeout \in Nat /\ MaxTimeout \in Nat /\ MaxPremiumBps \in Nat
  /\ Timeouts \subseteq Nat /\ Premiums \subseteq Nat /\ Amounts \subseteq Nat
  /\ MaxTime \in Nat /\ MaxRequests \in Nat /\ MaxVersion \in Nat /\ MaxPool \in Nat

VARIABLES now,          \* block.timestamp
          enclaves,     \* holders of CCC_ENCLAVE_ROLE
          requests,     \* requests[id]: timeout, status and ticket
          withdrawn,    \* the ids whose fills[id].withdrawn is set
          usedTickets,
          results,      \* settlementResults
          balanceTable,
          payments,     \* withdrawals the token carried out, in order
          pool          \* the tokens the contract holds

vars == <<now, enclaves, requests, withdrawn, usedTickets, results,
          balanceTable, payments, pool>>

RequestId == [requester : Users, shielded : Shielded, createdAt : 0..MaxTime]
Status == {"NONE", "PENDING", "PARTIALLY_FILLED", "FILLED", "EXPIRED"}
Ticket == Tickets \union {ZeroTicket}
Hash == Hashes \union {ZeroHash}

NoRequest == [timeout |-> 0, status |-> "NONE", ticket |-> ZeroTicket]
NoResult == [settled |-> FALSE, recoverySucceeded |-> FALSE,
             balanceHash |-> ZeroHash, timestamp |-> 0]

Init ==
  /\ now = 0
  /\ enclaves = {}
  /\ requests = [id \in RequestId |-> NoRequest]
  /\ withdrawn = {}
  /\ usedTickets = {}
  /\ results = [id \in RequestId |-> NoResult]
  /\ balanceTable = [hash |-> ZeroHash, lastUpdated |-> 0, version |-> 0]
  /\ payments = <<>>
  /\ pool = 0

Made == {id \in RequestId : requests[id].status # "NONE"}

Deadline(id) == id.createdAt + requests[id].timeout

\* The calls of the enclave revert once block.timestamp > createdAt + timeout.
InTime(id) == now <= Deadline(id)

WithStatus(id, status) == [requests[id] EXCEPT !.status = status]
Filled(id, ticket) == [requests[id] EXCEPT !.ticket = ticket, !.status = "FILLED"]

\* Mutant of IsOpen: a filled request may be settled again.
IsOpenFilled(id) == requests[id].status \in {"PENDING", "PARTIALLY_FILLED", "FILLED"}

\* The statuses cccSettle, confidentialPartialFill and expireRequest accept.
IsOpen(id) == requests[id].status \in {"PENDING", "PARTIALLY_FILLED"}
-----------------------------------------------------------------------------
RequestCollateral(user, shielded, premiumBps, timeout) ==
  LET id == [requester |-> user, shielded |-> shielded, createdAt |-> now]
  IN /\ premiumBps <= MaxPremiumBps
     /\ timeout >= MinTimeout /\ timeout <= MaxTimeout
     /\ requests[id].status = "NONE"
     /\ Cardinality(Made) < MaxRequests
     /\ requests' = [requests EXCEPT ![id] =
          [timeout |-> timeout, status |-> "PENDING", ticket |-> ZeroTicket]]
     /\ UNCHANGED <<now, enclaves, withdrawn, usedTickets, results,
                    balanceTable, payments, pool>>

ConfidentialFill(sender, id, shielded, ticket) ==
  /\ sender \in enclaves
  /\ requests[id].status = "PENDING"
  /\ InTime(id)
  /\ shielded = id.shielded
  /\ requests' = [requests EXCEPT ![id] = Filled(id, ticket)]
  /\ withdrawn' = withdrawn \ {id}
  /\ UNCHANGED <<now, enclaves, usedTickets, results, balanceTable,
                 payments, pool>>

ConfidentialPartialFill(sender, id, ticket, isFinalFill) ==
  /\ sender \in enclaves
  /\ IsOpen(id)
  /\ InTime(id)
  /\ requests' =
       IF isFinalFill
       THEN [requests EXCEPT ![id] = Filled(id, ticket)]
       ELSE [requests EXCEPT ![id] = WithStatus(id, "PARTIALLY_FILLED")]
  /\ UNCHANGED <<now, enclaves, withdrawn, usedTickets, results, balanceTable,
                 payments, pool>>

\* Mutant of StatusAfter: the status is not moved on a success.
StatusUnmoved(id, recoverySucceeded) == requests[id].status

StatusAfter(id, recoverySucceeded) ==
  IF recoverySucceeded THEN "FILLED" ELSE requests[id].status

\* The table is replaced whatever the outcome, and its version counted up.
NextTable(balanceHash, recoverySucceeded) ==
  [hash |-> balanceHash, lastUpdated |-> now, version |-> balanceTable.version + 1]

CccSettle(sender, id, balanceHash, recoverySucceeded) ==
  /\ sender \in enclaves
  /\ IsOpen(id)
  /\ InTime(id)
  /\ balanceTable.version < MaxVersion
  /\ balanceTable' = NextTable(balanceHash, recoverySucceeded)
  /\ results' = [results EXCEPT ![id] =
       [settled |-> TRUE, recoverySucceeded |-> recoverySucceeded,
        balanceHash |-> balanceHash, timestamp |-> now]]
  /\ requests' = [requests EXCEPT ![id] =
       WithStatus(id, StatusAfter(id, recoverySucceeded))]
  /\ UNCHANGED <<now, enclaves, withdrawn, usedTickets, payments, pool>>

\* Mutant of Unused: only the request's own flag is tested.
UnusedRequest(id, ticket) == id \notin withdrawn

Unused(id, ticket) == ticket \notin usedTickets /\ id \notin withdrawn

\* Mutants of Transfer: the token's refusal is not turned into a revert; the
\* token itself does not look at the balance.
TransferUnchecked(id, ticket, amount) ==
  IF pool >= amount
  THEN /\ pool' = pool - amount
       /\ payments' = Append(payments, [request |-> id, ticket |-> ticket])
  ELSE UNCHANGED <<pool, payments>>

TransferUnbacked(id, ticket, amount) ==
  /\ pool' = pool - amount
  /\ payments' = Append(payments, [request |-> id, ticket |-> ticket])

\* _executeWithdrawal: the token transfer succeeds or the whole call reverts.
Transfer(id, ticket, amount) ==
  /\ pool >= amount
  /\ pool' = pool - amount
  /\ payments' = Append(payments, [request |-> id, ticket |-> ticket])

\* The caller names the token, too: the one the pool is kept in is the only one
\* here.
WithdrawWithTicket(sender, id, amount, ticket) ==
  /\ requests[id].status = "FILLED"
  /\ sender = id.requester
  /\ requests[id].ticket = ticket
  /\ Unused(id, ticket)
  /\ usedTickets' = usedTickets \union {ticket}
  /\ withdrawn' = withdrawn \union {id}
  /\ Transfer(id, ticket, amount)
  /\ UNCHANGED <<now, enclaves, requests, results, balanceTable>>

\* Mutant of Expirable: the deadline itself already counts as expired.
ExpirableAtDeadline(id) == IsOpen(id) /\ now >= Deadline(id)

Expirable(id) == IsOpen(id) /\ now > Deadline(id)

ExpireRequest(id) ==
  /\ Expirable(id)
  /\ requests' = [requests EXCEPT ![id] = WithStatus(id, "EXPIRED")]
  /\ UNCHANGED <<now, enclaves, withdrawn, usedTickets, results, balanceTable,
                 payments, pool>>

\* OpenZeppelin's grantRole and revokeRole, called by the deployer.
SetRole(enclave, granted) ==
  /\ enclaves' = IF granted THEN enclaves \union {enclave} ELSE enclaves \ {enclave}
  /\ UNCHANGED <<now, requests, withdrawn, usedTickets, results, balanceTable,
                 payments, pool>>

\* Somebody transfers tokens to the contract.
Fund(amount) ==
  /\ pool + amount <= MaxPool
  /\ pool' = pool + amount
  /\ UNCHANGED <<now, enclaves, requests, withdrawn, usedTickets, results,
                 balanceTable, payments>>

\* The next block has a later timestamp.
NewBlock ==
  /\ now < MaxTime
  /\ now' = now + 1
  /\ UNCHANGED <<enclaves, requests, withdrawn, usedTickets, results,
                 balanceTable, payments, pool>>

\* Tickets come from the enclave and are not zero; a caller may present any.
CallOn(id) ==
  \/ \E sender \in Enclaves, shielded \in Shielded, ticket \in Tickets :
        ConfidentialFill(sender, id, shielded, ticket)
  \/ \E sender \in Enclaves, ticket \in Tickets, isFinalFill \in BOOLEAN :
        ConfidentialPartialFill(sender, id, ticket, isFinalFill)
  \/ \E sender \in Enclaves, hash \in Hashes, recoverySucceeded \in BOOLEAN :
        CccSettle(sender, id, hash, recoverySucceeded)
  \/ \E sender \in Users, amount \in Amounts, ticket \in Ticket :
        WithdrawWithTicket(sender, id, amount, ticket)
  \/ ExpireRequest(id)

Next ==
  \/ \E user \in Users, shielded \in Shielded, p \in Premiums, t \in Timeouts :
        RequestCollateral(user, shielded, p, t)
  \/ \E id \in RequestId : CallOn(id)
  \/ \E enclave \in Enclaves, granted \in BOOLEAN : SetRole(enclave, granted)
  \/ \E amount \in Amounts : Fund(amount)
  \/ NewBlock

Spec == Init /\ [][Next]_vars
-----------------------------------------------------------------------------
TypeOK ==
  /\ now \in 0..MaxTime
  /\ enclaves \subseteq Enclaves
  /\ requests \in [RequestId -> [timeout : Nat, status : Status, ticket : Ticket]]
  /\ withdrawn \subseteq RequestId
  /\ usedTickets \subseteq Ticket
  /\ results \in [RequestId -> [settled : BOOLEAN, recoverySucceeded : BOOLEAN,
                                balanceHash : Hash, timestamp : 0..MaxTime]]
  /\ balanceTable \in [hash : Hash, lastUpdated : 0..MaxTime, version : Nat]
  /\ payments \in Seq([request : RequestId, ticket : Ticket])
  /\ pool \in Nat

\* An expired request is past its deadline and stays dead: nothing was settled
\* for it successfully, and nothing is ever paid for it.
ExpiredIsDead ==
  \A id \in RequestId :
     requests[id].status = "EXPIRED" =>
        /\ now > Deadline(id)
        /\ ~results[id].recoverySucceeded
        /\ id \notin withdrawn

\* A settlement the chain reports as successful, in time for its request, is
\* never taken back: the request is filled and no later call reopens,
\* expires or settles it again.
SuccessIsFinal ==
  \A id \in RequestId :
     results[id].recoverySucceeded =>
        /\ requests[id].status = "FILLED"
        /\ results[id].timestamp <= Deadline(id)

\* A filled request is never paid twice and a ticket never pays for two
\* requests; what was paid was paid against the ticket the request carries.
PaidOnce ==
  /\ \A i, j \in 1..Len(payments) :
        i # j => /\ payments[i].request # payments[j].request
                 /\ payments[i].ticket # payments[j].ticket
  /\ \A i \in 1..Len(payments) :
        LET w == payments[i]
        IN /\ requests[w.request].status = "FILLED"
           /\ requests[w.request].ticket = w.ticket

\* A ticket is spent and a request marked withdrawn exactly when the payment
\* was made: a refused token transfer burns neither.
MarkedIffPaid ==
  /\ usedTickets = {payments[i].ticket : i \in 1..Len(payments)}
  /\ withdrawn = {payments[i].request : i \in 1..Len(payments)}

\* The contract keeps the life cycle it promises its requesters.
Stage(id) ==
  CASE requests[id].status = "NONE" -> "none"
    [] IsOpen(id) -> "open"
    [] requests[id].status = "EXPIRED" -> "expired"
    [] requests[id].status = "FILLED" ->
         IF id \in withdrawn THEN "paid" ELSE "filled"
Lifecycle == INSTANCE RequestLifecycle
  WITH Ids <- RequestId, Tickets <- Ticket,
       stage <- [id \in RequestId |-> Stage(id)], spent <- usedTickets
LifecycleSpec == Lifecycle!Spec

\* What the declaration of withdrawalTicket says: it is generated by the CCC
\* enclave, so a request that was filled has one.
FilledCarriesTicket ==
  \A id \in RequestId :
     requests[id].status = "FILLED" => requests[id].ticket # ZeroTicket

\* What the declaration of recoverySucceeded says: whether the recovery filled
\* the request.
ResultTellsFill ==
  \A id \in RequestId :
     results[id].settled =>
        (results[id].recoverySucceeded <=> requests[id].status = "FILLED")
=============================================================================
