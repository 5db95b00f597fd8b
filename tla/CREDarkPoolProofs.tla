-------------------------- MODULE CREDarkPoolProofs --------------------------
(***************************************************************************)
(* Theorems about CREDarkPool, for all sets of users, enclaves, addresses, *)
(* tickets, hashes, arguments and amounts and all values of the limits.    *)
(* The safety properties are inductive together: ExpiredIsDead needs that  *)
(* an open request was neither settled successfully nor paid, which        *)
(* SuccessIsFinal, PaidOnce and MarkedIffPaid say of it.                   *)
(***************************************************************************)
EXTENDS CREDarkPool, SequenceTheorems, TLAPS

USE DarkPoolAssumption

Request == [timeout : Nat, status : Status, ticket : Ticket]
Payment == [request : RequestId, ticket : Ticket]

PoolInv == TypeOK /\ ExpiredIsDead /\ SuccessIsFinal /\ PaidOnce /\ MarkedIffPaid

\* Only a filled request has been paid, and only an unpaid one is open.
LEMMA WithdrawnIsFilled ==
  ASSUME PoolInv, NEW id \in withdrawn
  PROVE  requests[id].status = "FILLED"
BY DEF PoolInv, PaidOnce, MarkedIffPaid

LEMMA OpenIsUnsettled ==
  ASSUME PoolInv, NEW id \in RequestId, requests[id].status # "FILLED"
  PROVE  id \notin withdrawn /\ ~results[id].recoverySucceeded
BY WithdrawnIsFilled DEF PoolInv, SuccessIsFinal

LEMMA PoolInvInit == Init => PoolInv
<1> SUFFICES ASSUME Init PROVE PoolInv
  OBVIOUS
<1>1. NoRequest \in Request
  BY DEF NoRequest, Request, Status, Ticket
<1>2. NoResult \in [settled : BOOLEAN, recoverySucceeded : BOOLEAN,
                    balanceHash : Hash, timestamp : 0..MaxTime]
  BY DEF NoResult, Hash
<1>3. payments \in Seq(Payment) /\ Len(payments) = 0
  BY EmptySeq DEF Init
<1>4. balanceTable \in [hash : Hash, lastUpdated : 0..MaxTime, version : Nat]
  BY DEF Init, Hash
<1>5. TypeOK
  <2>1. now \in 0..MaxTime /\ pool \in Nat /\ enclaves \subseteq Enclaves
        /\ withdrawn \subseteq RequestId /\ usedTickets \subseteq Ticket
    BY DEF Init
  <2>2. requests \in [RequestId -> Request]
    BY <1>1 DEF Init
  <2>3. results \in [RequestId -> [settled : BOOLEAN, recoverySucceeded : BOOLEAN,
                                   balanceHash : Hash, timestamp : 0..MaxTime]]
    BY <1>2 DEF Init
  <2> QED BY <1>3, <1>4, <2>1, <2>2, <2>3 DEF TypeOK, Request, Payment
<1>6. ExpiredIsDead /\ SuccessIsFinal
  BY DEF Init, ExpiredIsDead, SuccessIsFinal, NoRequest, NoResult
<1>7. PaidOnce /\ MarkedIffPaid
  BY <1>3 DEF Init, PaidOnce, MarkedIffPaid
<1> QED BY <1>5, <1>6, <1>7 DEF PoolInv
-----------------------------------------------------------------------------
(* A call that rewrites one unfilled request, and nothing else the         *)
(* properties look at, keeps the invariant if it leaves the timeout alone  *)
(* and expires the request only after its deadline.                        *)

LEMMA RewriteKeepsInv ==
  ASSUME PoolInv, NEW id \in RequestId, NEW r \in Request,
         requests' = [requests EXCEPT ![id] = r],
         requests[id].status # "FILLED",
         r.timeout = requests[id].timeout \/ requests[id].status = "NONE",
         r.status = "EXPIRED" => now > id.createdAt + r.timeout,
         withdrawn' = withdrawn \ {id},
         UNCHANGED <<now, enclaves, usedTickets, results, balanceTable, payments, pool>>
  PROVE  PoolInv'
<1>1. id \notin withdrawn /\ ~results[id].recoverySucceeded /\ withdrawn' = withdrawn
  BY OpenIsUnsettled
<1>2. /\ requests \in [RequestId -> Request] /\ requests' \in [RequestId -> Request]
      /\ requests'[id] = r
      /\ \A j \in RequestId : j # id => requests'[j] = requests[j]
  BY DEF PoolInv, TypeOK, Request
<1>3. TypeOK'
  BY <1>1, <1>2 DEF PoolInv, TypeOK, Request
<1>4. ExpiredIsDead'
  BY <1>1, <1>2 DEF PoolInv, ExpiredIsDead, Deadline
<1>5. SuccessIsFinal'
  BY <1>1, <1>2 DEF PoolInv, SuccessIsFinal, Deadline
<1>6. \A i \in 1..Len(payments) : payments[i].request \in RequestId /\ payments[i].request # id
  BY <1>1 DEF PoolInv, MarkedIffPaid, TypeOK
<1>7. PaidOnce'
  BY <1>2, <1>6 DEF PoolInv, PaidOnce
<1>8. MarkedIffPaid'
  BY <1>1 DEF PoolInv, MarkedIffPaid
<1> QED BY <1>3, <1>4, <1>5, <1>7, <1>8 DEF PoolInv

LEMMA RequestTypes ==
  ASSUME PoolInv, NEW id \in RequestId
  PROVE  /\ requests[id] \in Request
         /\ \A status \in Status : /\ WithStatus(id, status) \in Request
                                   /\ WithStatus(id, status).timeout = requests[id].timeout
                                   /\ WithStatus(id, status).status = status
                                   /\ WithStatus(id, status).ticket = requests[id].ticket
         /\ \A ticket \in Ticket : /\ Filled(id, ticket) \in Request
                                   /\ Filled(id, ticket).timeout = requests[id].timeout
                                   /\ Filled(id, ticket).status = "FILLED"
                                   /\ Filled(id, ticket).ticket = ticket
<1>1. requests[id] \in Request
  BY DEF PoolInv, TypeOK, Request
<1>2. "FILLED" \in Status
  BY DEF Status
<1> QED BY <1>1, <1>2 DEF WithStatus, Filled, Request

LEMMA RequestCollateralKeepsInv ==
  ASSUME PoolInv, NEW user \in Users, NEW shielded \in Shielded,
         NEW p \in Premiums, NEW t \in Timeouts, RequestCollateral(user, shielded, p, t)
  PROVE  PoolInv'
<1> DEFINE id == [requester |-> user, shielded |-> shielded, createdAt |-> now]
<1> DEFINE r == [timeout |-> t, status |-> "PENDING", ticket |-> ZeroTicket]
<1>1. id \in RequestId /\ r \in Request
  BY DEF PoolInv, TypeOK, RequestId, Request, Status, Ticket
<1>2. /\ requests' = [requests EXCEPT ![id] = r] /\ requests[id].status = "NONE"
      /\ UNCHANGED <<now, enclaves, withdrawn, usedTickets, results, balanceTable, payments, pool>>
  BY DEF RequestCollateral
<1>3. withdrawn' = withdrawn \ {id} /\ requests[id].status # "FILLED" /\ r.status # "EXPIRED"
  BY <1>1, <1>2, OpenIsUnsettled
<1> HIDE DEF id, r
<1> QED BY <1>1, <1>2, <1>3, RewriteKeepsInv

LEMMA ConfidentialFillKeepsInv ==
  ASSUME PoolInv, NEW id \in RequestId, NEW sender, NEW shielded, NEW ticket \in Tickets,
         ConfidentialFill(sender, id, shielded, ticket)
  PROVE  PoolInv'
<1>1. ticket \in Ticket
  BY DEF Ticket
<1>2. requests[id].status # "FILLED" /\ Filled(id, ticket).status # "EXPIRED"
  BY <1>1, RequestTypes DEF ConfidentialFill
<1> QED BY <1>1, <1>2, RequestTypes, RewriteKeepsInv DEF ConfidentialFill

LEMMA ConfidentialPartialFillKeepsInv ==
  ASSUME PoolInv, NEW id \in RequestId, NEW sender, NEW ticket \in Tickets,
         NEW isFinalFill \in BOOLEAN, ConfidentialPartialFill(sender, id, ticket, isFinalFill)
  PROVE  PoolInv'
<1>1. ticket \in Ticket /\ "PARTIALLY_FILLED" \in Status
  BY DEF Ticket, Status
<1>2. requests[id].status # "FILLED"
  BY DEF ConfidentialPartialFill, IsOpen
<1>3. withdrawn' = withdrawn \ {id}
  BY <1>2, OpenIsUnsettled DEF ConfidentialPartialFill
<1>4. CASE isFinalFill
  <2> DEFINE r == Filled(id, ticket)
  <2>1. requests' = [requests EXCEPT ![id] = r]
    BY <1>4 DEF ConfidentialPartialFill
  <2>2. /\ r \in Request /\ r.timeout = requests[id].timeout
        /\ r.status # "EXPIRED"
    BY <1>1, RequestTypes
  <2>3. UNCHANGED <<now, enclaves, usedTickets, results, balanceTable, payments, pool>>
    BY DEF ConfidentialPartialFill
  <2> HIDE DEF r
  <2> QED BY <1>2, <1>3, <2>1, <2>2, <2>3, RewriteKeepsInv
<1>5. CASE ~isFinalFill
  <2> DEFINE r == WithStatus(id, "PARTIALLY_FILLED")
  <2>1. requests' = [requests EXCEPT ![id] = r]
    BY <1>5 DEF ConfidentialPartialFill
  <2>2. /\ r \in Request /\ r.timeout = requests[id].timeout
        /\ r.status # "EXPIRED"
    BY <1>1, RequestTypes
  <2>3. UNCHANGED <<now, enclaves, usedTickets, results, balanceTable, payments, pool>>
    BY DEF ConfidentialPartialFill
  <2> HIDE DEF r
  <2> QED BY <1>2, <1>3, <2>1, <2>2, <2>3, RewriteKeepsInv
<1> QED BY <1>4, <1>5

LEMMA ExpireRequestKeepsInv ==
  ASSUME PoolInv, NEW id \in RequestId, ExpireRequest(id)
  PROVE  PoolInv'
<1>1. "EXPIRED" \in Status
  BY DEF Status
<1>2. requests[id].status # "FILLED" /\ now > id.createdAt + requests[id].timeout
  BY DEF ExpireRequest, Expirable, IsOpen, Deadline
<1>3. withdrawn' = withdrawn \ {id}
  BY <1>2, OpenIsUnsettled DEF ExpireRequest
<1> QED BY <1>1, <1>2, <1>3, RequestTypes, RewriteKeepsInv DEF ExpireRequest

\* A settlement writes the result and, if it succeeded, the status.
LEMMA CccSettleKeepsInv ==
  ASSUME PoolInv, NEW id \in RequestId, NEW sender, NEW hash \in Hashes,
         NEW recoverySucceeded \in BOOLEAN, CccSettle(sender, id, hash, recoverySucceeded)
  PROVE  PoolInv'
<1> DEFINE status == StatusAfter(id, recoverySucceeded)
<1> DEFINE r == WithStatus(id, status)
<1> DEFINE res == [settled |-> TRUE, recoverySucceeded |-> recoverySucceeded,
                   balanceHash |-> hash, timestamp |-> now]
<1> DEFINE Result == [settled : BOOLEAN, recoverySucceeded : BOOLEAN,
                      balanceHash : Hash, timestamp : 0..MaxTime]
<1>1. /\ status \in Status \ {"EXPIRED", "NONE"} /\ requests[id].status # "FILLED"
      /\ requests[id].status # "EXPIRED"
      /\ recoverySucceeded => status = "FILLED"
  BY RequestTypes DEF CccSettle, IsOpen, StatusAfter, Status, Request
<1>2. /\ r \in Request /\ r.timeout = requests[id].timeout /\ r.status = status
      /\ r.ticket = requests[id].ticket
  BY <1>1, RequestTypes
<1>3. /\ requests' = [requests EXCEPT ![id] = r] /\ results' = [results EXCEPT ![id] = res]
      /\ now <= id.createdAt + requests[id].timeout
      /\ balanceTable' = NextTable(hash, recoverySucceeded)
      /\ UNCHANGED <<now, enclaves, withdrawn, usedTickets, payments, pool>>
  BY DEF CccSettle, InTime, Deadline
<1> HIDE DEF status, r
<1>4. res \in Result
  BY DEF PoolInv, TypeOK, Hash
<1>5. /\ requests \in [RequestId -> Request] /\ requests' \in [RequestId -> Request]
      /\ requests'[id] = r
      /\ \A j \in RequestId : j # id => requests'[j] = requests[j]
  BY <1>2, <1>3 DEF PoolInv, TypeOK, Request
<1>6. /\ results' \in [RequestId -> Result] /\ results'[id] = res
      /\ \A j \in RequestId : j # id => results'[j] = results[j]
  BY <1>3, <1>4 DEF PoolInv, TypeOK
<1>7. balanceTable' \in [hash : Hash, lastUpdated : 0..MaxTime, version : Nat]
  BY <1>3 DEF NextTable, PoolInv, TypeOK, Hash
<1>8. TypeOK'
  BY <1>3, <1>5, <1>6, <1>7 DEF PoolInv, TypeOK, Request
<1>9. id \notin withdrawn
  BY <1>1, OpenIsUnsettled
<1>10. ExpiredIsDead'
  BY <1>1, <1>2, <1>3, <1>5, <1>6 DEF PoolInv, ExpiredIsDead, Deadline
<1>11. SuccessIsFinal'
  BY <1>1, <1>2, <1>3, <1>5, <1>6 DEF PoolInv, SuccessIsFinal, Deadline
<1>12. \A i \in 1..Len(payments) : payments[i].request \in RequestId /\ payments[i].request # id
  BY <1>9 DEF PoolInv, MarkedIffPaid, TypeOK
<1>13. PaidOnce'
  BY <1>3, <1>5, <1>12 DEF PoolInv, PaidOnce
<1>14. MarkedIffPaid'
  BY <1>3 DEF PoolInv, MarkedIffPaid
<1> QED BY <1>8, <1>10, <1>11, <1>13, <1>14 DEF PoolInv

LEMMA WithdrawKeepsInv ==
  ASSUME PoolInv, NEW id \in RequestId, NEW sender, NEW amount \in Amounts, NEW ticket \in Ticket,
         WithdrawWithTicket(sender, id, amount, ticket)
  PROVE  PoolInv'
<1> DEFINE p == [request |-> id, ticket |-> ticket]
<1>1. /\ requests[id].status = "FILLED" /\ requests[id].ticket = ticket
      /\ ticket \notin usedTickets /\ id \notin withdrawn
      /\ usedTickets' = usedTickets \union {ticket} /\ withdrawn' = withdrawn \union {id}
      /\ pool >= amount /\ pool' = pool - amount
      /\ payments' = Append(payments, p)
      /\ UNCHANGED <<now, enclaves, requests, results, balanceTable>>
  BY DEF WithdrawWithTicket, Unused, Transfer
<1>2. payments \in Seq(Payment) /\ p \in Payment /\ Len(payments) \in Nat
  BY DEF PoolInv, TypeOK, Payment
<1> HIDE DEF p
<1>3. /\ payments' \in Seq(Payment) /\ Len(payments') = Len(payments) + 1
      /\ payments'[Len(payments) + 1] = p
      /\ \A i \in 1..Len(payments) : payments'[i] = payments[i]
      /\ \A i \in 1..Len(payments') : i \in 1..Len(payments) \/ i = Len(payments) + 1
  BY <1>1, <1>2
<1>4. p.request = id /\ p.ticket = ticket
  BY DEF p
<1>5. pool' \in Nat
  BY <1>1 DEF PoolInv, TypeOK
<1>6. TypeOK'
  BY <1>1, <1>3, <1>5 DEF PoolInv, TypeOK, Payment
<1>7. ExpiredIsDead' /\ SuccessIsFinal'
  BY <1>1 DEF PoolInv, ExpiredIsDead, SuccessIsFinal, Deadline
<1>8. \A i \in 1..Len(payments) : payments[i].request # id /\ payments[i].ticket # ticket
  BY <1>1 DEF PoolInv, MarkedIffPaid
<1>9. PaidOnce'
  <2>1. \A i, j \in 1..Len(payments') :
          i # j => /\ payments'[i].request # payments'[j].request
                   /\ payments'[i].ticket # payments'[j].ticket
    BY <1>3, <1>4, <1>8 DEF PoolInv, PaidOnce
  <2>2. \A i \in 1..Len(payments') :
          /\ requests[payments'[i].request].status = "FILLED"
          /\ requests[payments'[i].request].ticket = payments'[i].ticket
    BY <1>1, <1>3, <1>4 DEF PoolInv, PaidOnce
  <2> QED BY <1>1, <2>1, <2>2 DEF PaidOnce
<1>10. MarkedIffPaid'
  <2>1. \A i \in 1..Len(payments) : i \in 1..Len(payments')
    BY <1>2, <1>3
  <2>2. Len(payments) + 1 \in 1..Len(payments')
    BY <1>2, <1>3
  <2>3. {payments'[i].ticket : i \in 1..Len(payments')}
          = {payments[i].ticket : i \in 1..Len(payments)} \union {ticket}
    BY <1>3, <1>4, <2>1, <2>2
  <2>4. {payments'[i].request : i \in 1..Len(payments')}
          = {payments[i].request : i \in 1..Len(payments)} \union {id}
    BY <1>3, <1>4, <2>1, <2>2
  <2> QED BY <1>1, <2>3, <2>4 DEF PoolInv, MarkedIffPaid
<1> QED BY <1>6, <1>7, <1>9, <1>10 DEF PoolInv

LEMMA EnvironmentKeepsInv ==
  ASSUME PoolInv,
         \/ \E enclave \in Enclaves, granted \in BOOLEAN : SetRole(enclave, granted)
         \/ \E amount \in Amounts : Fund(amount)
         \/ NewBlock
         \/ UNCHANGED vars
  PROVE  PoolInv'
<1>1. /\ UNCHANGED <<requests, withdrawn, usedTickets, results, balanceTable, payments>>
      /\ now' = now \/ (now < MaxTime /\ now' = now + 1)
      /\ now' >= now /\ now' \in 0..MaxTime /\ pool' \in Nat /\ enclaves' \subseteq Enclaves
  BY DEF SetRole, Fund, NewBlock, vars, PoolInv, TypeOK
<1>2. TypeOK'
  BY <1>1 DEF PoolInv, TypeOK
<1>3. \A id \in RequestId : id.createdAt + requests[id].timeout \in Nat
  <2> SUFFICES ASSUME NEW id \in RequestId
               PROVE  id.createdAt + requests[id].timeout \in Nat
    OBVIOUS
  <2>1. requests[id].timeout \in Nat
    BY RequestTypes DEF Request
  <2>2. id.createdAt \in Nat
    BY DEF RequestId
  <2> QED BY <2>1, <2>2
<1>4. ExpiredIsDead' /\ SuccessIsFinal'
  BY <1>1, <1>3 DEF PoolInv, TypeOK, ExpiredIsDead, SuccessIsFinal, Deadline
<1>5. PaidOnce' /\ MarkedIffPaid'
  BY <1>1 DEF PoolInv, PaidOnce, MarkedIffPaid
<1> QED BY <1>2, <1>4, <1>5 DEF PoolInv

LEMMA PoolInvStep == PoolInv /\ [Next]_vars => PoolInv'
<1> SUFFICES ASSUME PoolInv, [Next]_vars PROVE PoolInv'
  OBVIOUS
<1>1. ASSUME NEW id \in RequestId, CallOn(id) PROVE PoolInv'
  BY <1>1, ConfidentialFillKeepsInv, ConfidentialPartialFillKeepsInv, CccSettleKeepsInv,
     WithdrawKeepsInv, ExpireRequestKeepsInv DEF CallOn
<1> QED BY <1>1, RequestCollateralKeepsInv, EnvironmentKeepsInv DEF Next

THEOREM PoolInvariant == Spec => []PoolInv
BY PoolInvInit, PoolInvStep, PTL DEF Spec

\* CREDarkPool.sol: every variable keeps its type; the balance of the pool
\* never goes below zero.
THEOREM PoolTypeCorrect == Spec => []TypeOK
<1>1. PoolInv => TypeOK
  BY DEF PoolInv
<1> QED BY <1>1, PoolInvariant, PTL

\* expireRequest: expired requests are dead.
THEOREM ExpiryFinal == Spec => []ExpiredIsDead
<1>1. PoolInv => ExpiredIsDead
  BY DEF PoolInv
<1> QED BY <1>1, PoolInvariant, PTL

\* cccSettle: successful settlements are final.
THEOREM SettlementFinal == Spec => []SuccessIsFinal
<1>1. PoolInv => SuccessIsFinal
  BY DEF PoolInv
<1> QED BY <1>1, PoolInvariant, PTL

\* withdrawWithTicket: a request and a ticket pay at most once.
THEOREM NoDoublePayment == Spec => []PaidOnce
<1>1. PoolInv => PaidOnce
  BY DEF PoolInv
<1> QED BY <1>1, PoolInvariant, PTL

\* withdrawWithTicket: a request and a ticket are marked exactly when they paid.
THEOREM MarksAreTrue == Spec => []MarkedIffPaid
<1>1. PoolInv => MarkedIffPaid
  BY DEF PoolInv
<1> QED BY <1>1, PoolInvariant, PTL
-----------------------------------------------------------------------------
(* The contract keeps the life cycle that RequestLifecycle promises.       *)

StageOf == [id \in RequestId |-> Stage(id)]

LEMMA StageValues ==
  ASSUME PoolInv, NEW id \in RequestId
  PROVE  /\ requests[id].status = "NONE" => Stage(id) = "none"
         /\ IsOpen(id) => Stage(id) = "open"
         /\ requests[id].status = "EXPIRED" => Stage(id) = "expired"
         /\ requests[id].status = "FILLED" =>
              Stage(id) = IF id \in withdrawn THEN "paid" ELSE "filled"
BY DEF Stage, IsOpen

\* A call that touches one request moves that request's stage only.
LEMMA StageMoves ==
  ASSUME PoolInv, PoolInv', NEW id \in RequestId,
         \A j \in RequestId : j # id => /\ requests'[j] = requests[j]
                                        /\ j \in withdrawn' <=> j \in withdrawn
  PROVE  StageOf' = [StageOf EXCEPT ![id] = Stage(id)']
<1>1. \A j \in RequestId : j # id => Stage(j)' = Stage(j)
  BY DEF Stage, IsOpen
<1> QED BY <1>1 DEF StageOf

LEMMA LifecycleInit == Init => Lifecycle!Init
<1> SUFFICES ASSUME Init PROVE Lifecycle!Init
  OBVIOUS
<1>1. \A id \in RequestId : requests[id].status = "NONE"
  BY DEF Init, NoRequest
<1>2. ASSUME NEW id \in RequestId PROVE Stage(id) = "none"
  <2>1. requests[id].status = "NONE"
    BY <1>1
  <2> QED BY <2>1 DEF Stage, IsOpen
<1>3. usedTickets = {}
  BY DEF Init
<1> QED BY <1>2, <1>3 DEF Lifecycle!Init

LEMMA LifecycleStep ==
  PoolInv /\ PoolInv' /\ [Next]_vars => [Lifecycle!Next]_(Lifecycle!vars)
<1> SUFFICES ASSUME PoolInv, PoolInv', [Next]_vars
             PROVE  Lifecycle!Next \/ UNCHANGED <<StageOf, usedTickets>>
  BY DEF Lifecycle!vars, StageOf
<1>1. ASSUME UNCHANGED <<requests, withdrawn>> PROVE StageOf' = StageOf
  BY <1>1 DEF StageOf, Stage, IsOpen
<1>2. ASSUME NEW id \in RequestId, NEW r,
             requests' = [requests EXCEPT ![id] = r], requests[id].status # "FILLED",
             withdrawn' = withdrawn \/ withdrawn' = withdrawn \ {id}
      PROVE  /\ StageOf' = [StageOf EXCEPT ![id] = Stage(id)']
             /\ id \notin withdrawn' /\ requests'[id] = r
  <2>1. id \notin withdrawn /\ requests \in [RequestId -> Request]
    BY <1>2, OpenIsUnsettled DEF PoolInv, TypeOK, Request
  <2>2. /\ \A j \in RequestId : j # id => /\ requests'[j] = requests[j]
                                          /\ j \in withdrawn' <=> j \in withdrawn
        /\ requests'[id] = r /\ id \notin withdrawn'
    BY <1>2, <2>1
  <2> QED BY <2>2, StageMoves
<1>3. ASSUME NEW id \in RequestId, NEW r, requests[id].status = "NONE",
             requests' = [requests EXCEPT ![id] = r], r.status = "PENDING",
             UNCHANGED <<withdrawn, usedTickets>>
      PROVE  Lifecycle!Next
  <2>1. /\ StageOf' = [StageOf EXCEPT ![id] = Stage(id)'] /\ requests'[id] = r
    BY <1>2, <1>3
  <2>2. Stage(id) = "none" /\ Stage(id)' = "open"
    BY <1>3, <2>1 DEF Stage, IsOpen
  <2>3. Lifecycle!Open(id)
    BY <1>3, <2>1, <2>2 DEF Lifecycle!Open, Lifecycle!Move, StageOf
  <2> QED BY <2>3 DEF Lifecycle!Next
<1>4. ASSUME NEW user \in Users, NEW shielded \in Shielded, NEW p \in Premiums,
             NEW t \in Timeouts, RequestCollateral(user, shielded, p, t)
      PROVE  Lifecycle!Next
  <2> DEFINE id == [requester |-> user, shielded |-> shielded, createdAt |-> now]
  <2> DEFINE r == [timeout |-> t, status |-> "PENDING", ticket |-> ZeroTicket]
  <2>1. id \in RequestId /\ r.status = "PENDING"
    BY DEF PoolInv, TypeOK, RequestId
  <2>2. /\ requests' = [requests EXCEPT ![id] = r] /\ requests[id].status = "NONE"
        /\ UNCHANGED <<withdrawn, usedTickets>>
    BY <1>4 DEF RequestCollateral
  <2> HIDE DEF id, r
  <2> QED BY <1>3, <2>1, <2>2
\* The calls that leave a request open or fill it.
<1>5. ASSUME NEW id \in RequestId, NEW r, IsOpen(id),
             requests' = [requests EXCEPT ![id] = r],
             r.status \in {"PENDING", "PARTIALLY_FILLED", "FILLED"},
             withdrawn' = withdrawn \/ withdrawn' = withdrawn \ {id},
             UNCHANGED usedTickets
      PROVE  Lifecycle!Next \/ UNCHANGED <<StageOf, usedTickets>>
  <2>1. /\ StageOf' = [StageOf EXCEPT ![id] = Stage(id)'] /\ requests'[id] = r
        /\ id \notin withdrawn' /\ Stage(id) = "open"
    BY <1>2, <1>5, StageValues DEF IsOpen
  <2>2. CASE r.status = "FILLED"
    <3>1. Stage(id)' = "filled"
      BY <2>1, <2>2 DEF Stage, IsOpen
    <3>2. Lifecycle!Fill(id)
      BY <1>5, <2>1, <3>1 DEF Lifecycle!Fill, Lifecycle!Move, StageOf
    <3> QED BY <3>2 DEF Lifecycle!Next
  <2>3. CASE r.status # "FILLED"
    <3>1. Stage(id)' = "open"
      BY <1>5, <2>1, <2>3 DEF Stage, IsOpen
    <3>2. StageOf[id] = "open"
      BY <2>1 DEF StageOf
    <3>3. StageOf' = StageOf
      BY <2>1, <3>1, <3>2 DEF StageOf
    <3> QED BY <1>5, <3>3
  <2> QED BY <2>2, <2>3
<1>6. ASSUME NEW id \in RequestId, NEW sender \in Enclaves, NEW shielded \in Shielded,
             NEW ticket \in Tickets, ConfidentialFill(sender, id, shielded, ticket)
      PROVE  Lifecycle!Next \/ UNCHANGED <<StageOf, usedTickets>>
  <2>1. IsOpen(id) /\ ticket \in Ticket
    BY <1>6 DEF ConfidentialFill, IsOpen, Ticket
  <2> QED BY <1>5, <1>6, <2>1, RequestTypes DEF ConfidentialFill
<1>7. ASSUME NEW id \in RequestId, NEW sender \in Enclaves, NEW ticket \in Tickets,
             NEW isFinalFill \in BOOLEAN,
             ConfidentialPartialFill(sender, id, ticket, isFinalFill)
      PROVE  Lifecycle!Next \/ UNCHANGED <<StageOf, usedTickets>>
  <2>1. ticket \in Ticket /\ "PARTIALLY_FILLED" \in Status
    BY DEF Ticket, Status
  <2>2. \/ requests' = [requests EXCEPT ![id] = Filled(id, ticket)]
        \/ requests' = [requests EXCEPT ![id] = WithStatus(id, "PARTIALLY_FILLED")]
    BY <1>7 DEF ConfidentialPartialFill
  <2> QED BY <1>5, <1>7, <2>1, <2>2, RequestTypes DEF ConfidentialPartialFill
<1>8. ASSUME NEW id \in RequestId, NEW sender \in Enclaves, NEW hash \in Hashes,
             NEW recoverySucceeded \in BOOLEAN,
             CccSettle(sender, id, hash, recoverySucceeded)
      PROVE  Lifecycle!Next \/ UNCHANGED <<StageOf, usedTickets>>
  <2>1. StatusAfter(id, recoverySucceeded) \in {"PENDING", "PARTIALLY_FILLED", "FILLED"}
        /\ StatusAfter(id, recoverySucceeded) \in Status
    BY <1>8 DEF CccSettle, IsOpen, StatusAfter, Status
  <2>2. WithStatus(id, StatusAfter(id, recoverySucceeded)).status
          = StatusAfter(id, recoverySucceeded)
    BY <2>1, RequestTypes
  <2> QED BY <1>5, <1>8, <2>1, <2>2 DEF CccSettle
<1>9. ASSUME NEW id \in RequestId, ExpireRequest(id) PROVE Lifecycle!Next
  <2>1. "EXPIRED" \in Status /\ IsOpen(id)
    BY <1>9 DEF Status, ExpireRequest, Expirable
  <2>2. /\ StageOf' = [StageOf EXCEPT ![id] = Stage(id)']
        /\ requests'[id] = WithStatus(id, "EXPIRED") /\ Stage(id) = "open"
    BY <1>2, <1>9, <2>1, StageValues DEF ExpireRequest, IsOpen
  <2>3. Stage(id)' = "expired"
    BY <2>1, <2>2, RequestTypes DEF Stage, IsOpen
  <2>4. Lifecycle!GiveUp(id)
    BY <1>9, <2>2, <2>3 DEF ExpireRequest, Lifecycle!GiveUp, Lifecycle!Move, StageOf
  <2> QED BY <2>4 DEF Lifecycle!Next
<1>10. ASSUME NEW id \in RequestId, NEW sender \in Users, NEW amount \in Amounts,
             NEW ticket \in Ticket, WithdrawWithTicket(sender, id, amount, ticket)
      PROVE  Lifecycle!Next
  <2>1. /\ requests[id].status = "FILLED" /\ requests' = requests
        /\ ticket \notin usedTickets /\ id \notin withdrawn
        /\ usedTickets' = usedTickets \union {ticket} /\ withdrawn' = withdrawn \union {id}
    BY <1>10 DEF WithdrawWithTicket, Unused
  <2>2. StageOf' = [StageOf EXCEPT ![id] = Stage(id)']
    BY <2>1, StageMoves
  <2>3. Stage(id) = "filled" /\ Stage(id)' = "paid"
    BY <2>1, StageValues DEF Stage, IsOpen
  <2>4. Lifecycle!Pay(id, ticket)
    BY <2>1, <2>2, <2>3 DEF Lifecycle!Pay, StageOf
  <2> QED BY <2>4 DEF Lifecycle!Next
<1>11. ASSUME NEW id \in RequestId, CallOn(id)
       PROVE  Lifecycle!Next \/ UNCHANGED <<StageOf, usedTickets>>
  BY <1>6, <1>7, <1>8, <1>9, <1>10, <1>11 DEF CallOn
<1>12. ASSUME UNCHANGED <<requests, withdrawn, usedTickets>>
       PROVE  UNCHANGED <<StageOf, usedTickets>>
  BY <1>1, <1>12
<1> QED BY <1>4, <1>11, <1>12 DEF Next, SetRole, Fund, NewBlock, vars

\* CREDarkPool.sol: requests go through their life cycle once, and no ticket
\* is spent twice, in every interleaving of calls and blocks.
THEOREM LifecycleImplemented == Spec => LifecycleSpec
BY LifecycleInit, LifecycleStep, PoolInvariant, PTL DEF Spec, LifecycleSpec, Lifecycle!Spec
=============================================================================
