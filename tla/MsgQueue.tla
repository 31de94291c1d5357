------------------------------- MODULE MsgQueue -------------------------------
(***************************************************************************)
(* What the framing of pbrpc-svc.c promises to xdr->proc: the messages the  *)
(* peer has written are handed over whole, one by one, in their order and   *)
(* once each.  A connection that ends loses those not yet handed over.      *)
(***************************************************************************)
EXTENDS Naturals, Sequences

VARIABLES
    sent,    \* how many messages the peer has written
    got,     \* the messages handed over
    closed   \* the connection has ended

vars == <<sent, got, closed>>

Init == sent = 0 /\ got = <<>> /\ closed = FALSE

Send == /\ ~closed
        /\ sent' = sent + 1
        /\ UNCHANGED <<got, closed>>

Take == /\ ~closed
        /\ Len(got) < sent
        /\ got' = Append(got, Len(got) + 1)
        /\ UNCHANGED <<sent, closed>>

Close == /\ ~closed
         /\ closed' = TRUE
         /\ UNCHANGED <<sent, got>>

Next == Send \/ Take \/ Close

Spec == Init /\ [][Next]_vars
=============================================================================
