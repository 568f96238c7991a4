-------------------------------- MODULE Fifo --------------------------------
(***************************************************************************)
(* What one direction of a connection promises to its two ends: got is     *)
(* always an initial part of sent, and neither ever shrinks.  Nothing is   *)
(* lost from the middle, repeated, reordered or changed; the end may be    *)
(* missing when the connection breaks.  The tunnel and the AEAD chunk      *)
(* stream are shown to implement it.                                       *)
(***************************************************************************)
EXTENDS Naturals, Sequences

VARIABLES
    sent,      \* what the one end handed in
    got        \* what the other end was handed

(* s is an initial part of t.                                              *)
Begins(s, t) == Len(s) <= Len(t) /\ s = SubSeq(t, 1, Len(s))

Init == sent = <<>> /\ got = <<>>

Send    == Begins(sent, sent') /\ UNCHANGED got
Deliver == Begins(got, got') /\ Begins(got', sent) /\ UNCHANGED sent

Spec == Init /\ [][Send \/ Deliver]_<<sent, got>>
=============================================================================
