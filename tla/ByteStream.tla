----------------------------- MODULE ByteStream -----------------------------
(***************************************************************************)
(* What the two ends of a connection may rely on, without segments,        *)
(* acknowledgements or timers: what one end has written, the other gets,   *)
(* each byte once and in order.                                            *)
(***************************************************************************)
EXTENDS Sequences, SequencesExt

CONSTANT Byte

VARIABLES written,    \* what one end has written
          received    \* what the other end has got of it

vars == <<written, received>>

Init == written = << >> /\ received = << >>

Write == /\ IsStrictPrefix(written, written')
         /\ written' \in Seq(Byte)
         /\ UNCHANGED received

Receive == /\ IsStrictPrefix(received, received')
           /\ IsPrefix(received', written)
           /\ UNCHANGED written

Next == Write \/ Receive

Spec == Init /\ [][Next]_vars
=============================================================================
