------------------------------- MODULE Relay -------------------------------
(***************************************************************************)
(* What a forwarding task promises of one stream: messages come out in the *)
(* order they went in, each at most once, none invented, none skipped.  It *)
(* may stop at any moment.  TdpTee, and TdpMerge for each of its two       *)
(* lanes, are shown to implement it.                                       *)
(***************************************************************************)
EXTENDS Naturals, Sequences

CONSTANT Messages

VARIABLES
    sent,       \* everything put into the stream
    forwarded   \* everything that has come out

vars == <<sent, forwarded>>

Init == sent = <<>> /\ forwarded = <<>>

Send == /\ \E msg \in Messages : sent' = Append(sent, msg)
        /\ UNCHANGED forwarded

Forward == /\ Len(forwarded) < Len(sent)
           /\ forwarded' = Append(forwarded, sent[Len(forwarded) + 1])
           /\ UNCHANGED sent

Next == Send \/ Forward

Spec == Init /\ [][Next]_vars
=============================================================================
