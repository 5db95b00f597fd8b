-------------------------- MODULE RequestLifecycle --------------------------
(***************************************************************************)
(* What the dark pool promises the owner of a collateral request: it is    *)
(* open until it is filled or given up, each of which happens once and for *)
(* ever; what is filled is paid out at most once, against a ticket that    *)
(* pays for no other request; what is given up is never paid.              *)
(***************************************************************************)
CONSTANTS Ids,      \* the requests that may be made
          Tickets   \* what a payment is authorised by

VARIABLES stage,    \* stage[id]: how far the request has come
          spent     \* the tickets that have paid for a request

vars == <<stage, spent>>

Init ==
  /\ stage = [id \in Ids |-> "none"]
  /\ spent = {}

Move(id, from, to) ==
  /\ stage[id] \in from
  /\ stage' = [stage EXCEPT ![id] = to]
  /\ UNCHANGED spent

Open(id) == Move(id, {"none"}, "open")
Fill(id) == Move(id, {"open"}, "filled")
GiveUp(id) == Move(id, {"open"}, "expired")

Pay(id, ticket) ==
  /\ stage[id] = "filled"
  /\ ticket \notin spent
  /\ stage' = [stage EXCEPT ![id] = "paid"]
  /\ spent' = spent \union {ticket}

Next ==
  \E id \in Ids :
     \/ Open(id)
     \/ Fill(id)
     \/ GiveUp(id)
     \/ \E ticket \in Tickets : Pay(id, ticket)

Spec == Init /\ [][Next]_vars
=============================================================================
