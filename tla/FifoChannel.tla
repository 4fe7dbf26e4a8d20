----------------------------- MODULE FifoChannel -----------------------------
(***************************************************************************)
(* What one direction of onioncall.protocol.SecureChannel promises: the    *)
(* receiver gets the messages that were sent, in the order in which they   *)
(* were sent, each once, until the channel is over; it never gets anything *)
(* else.  Encryption, frames, locks and damaged frames do not appear.      *)
(***************************************************************************)
EXTENDS Naturals, Sequences

CONSTANT Msg

VARIABLES sent, delivered, over

vars == <<sent, delivered, over>>

Init ==
    /\ sent = <<>>
    /\ delivered = <<>>
    /\ over = FALSE

Send(m) ==
    /\ sent' = Append(sent, m)
    /\ UNCHANGED <<delivered, over>>

Deliver ==
    /\ ~over
    /\ Len(delivered) < Len(sent)
    /\ delivered' = Append(delivered, sent[Len(delivered) + 1])
    /\ UNCHANGED <<sent, over>>

End ==
    /\ over' = TRUE
    /\ UNCHANGED <<sent, delivered>>

Next ==
    \/ \E m \in Msg : Send(m)
    \/ Deliver
    \/ End

Spec == Init /\ [][Next]_vars
==============================================================================
