----------------------------- MODULE EventStream -----------------------------
(***************************************************************************)
(* What a subscriber to ReserveStatusUpdated is promised.  The published   *)
(* stream only grows; while the subscriber runs, the events handed to its  *)
(* callback are the stream's, in order, each once and none skipped.  The   *)
(* subscriber keeps no position on disk: when it restarts it is handed the *)
(* stream from its beginning again.                                        *)
(***************************************************************************)
EXTENDS Naturals, Sequences

VARIABLES stream,   \* the events of the mined blocks
          handed    \* what this incarnation's callback has received

vars == <<stream, handed>>

Init ==
  /\ stream = <<>>
  /\ handed = <<>>

IsPrefixOf(s, t) == Len(s) <= Len(t) /\ s = SubSeq(t, 1, Len(s))

Publish ==
  /\ IsPrefixOf(stream, stream')
  /\ UNCHANGED handed

Deliver ==
  /\ Len(handed) < Len(stream)
  /\ handed' = Append(handed, stream[Len(handed) + 1])
  /\ UNCHANGED stream

Restart ==
  /\ handed' = <<>>
  /\ UNCHANGED stream

Next == Publish \/ Deliver \/ Restart

Spec == Init /\ [][Next]_vars
=============================================================================
