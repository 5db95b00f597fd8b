------------------------------- MODULE TxClient -------------------------------
(***************************************************************************)
(* cmd/client/tx.go of the CRE command line tool: how a call of the        *)
(* workflow registry becomes a transaction.  Every command that changes    *)
(* the registry ends here, so the modules of those commands share this one.*)
(* A call has one of the results below:                                    *)
(*   failed     nothing left the machine (building, encoding or sending)   *)
(*   cancelled  the user declined the prompt, nothing was sent             *)
(*   timedOut   sent, but no receipt came in time: it may be mined later   *)
(*   reverted   mined, and rejected by the contract                        *)
(*   noEvent    mined and accepted, but none of the expected events shows  *)
(*   confirmed  mined, accepted and announced                              *)
(*   prepared   turned into call data or into a changeset, not sent        *)
(***************************************************************************)
EXTENDS Naturals

TxTypes == {"regular", "raw", "changeset"}
TxOutcomes == {"failed", "cancelled", "timedOut", "reverted", "noEvent",
               "confirmed", "prepared"}

\* A receipt is good when it did not fail and shows one of the named events.
ReceiptResult(accepted, announced) ==
  IF ~accepted THEN "reverted"
  ELSE IF announced THEN "confirmed" ELSE "noEvent"

\* Everything executeTransactionByTxType may come to.
TxResults(type, skipPrompt, accepted, announced) ==
  IF type = "regular"
  THEN {"failed", "timedOut", ReceiptResult(accepted, announced)}
         \cup IF skipPrompt THEN {} ELSE {"cancelled"}
  ELSE {"failed", "prepared"}

\* The results after which the contract has carried the call out.
Landed(r) == r \in {"confirmed", "noEvent"}

\* The results a command reports as a success.
Succeeded(r) == r \in {"confirmed", "prepared"}
===============================================================================
