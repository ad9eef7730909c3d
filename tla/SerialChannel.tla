--------------------------- MODULE SerialChannel ---------------------------
(***************************************************************************)
(* What a caller of SendCom2Data may rely on, without buffers, flags or a  *)
(* channel: a queue of at most Capacity bytes in front of a serial line.   *)
(* A call adds as many bytes as fit and the line takes them in order.      *)
(***************************************************************************)
EXTENDS Naturals, Sequences

CONSTANT Capacity

VARIABLES accepted,   \* number of bytes accepted, the k-th one is k
          wire        \* the bytes sent, oldest first

vars == <<accepted, wire>>

Init == accepted = 0 /\ wire = << >>

Accept == \E n \in 1..Capacity :
            /\ accepted + n - Len(wire) <= Capacity
            /\ accepted' = accepted + n
            /\ UNCHANGED wire

Emit == /\ Len(wire) < accepted
        /\ wire' = Append(wire, Len(wire) + 1)
        /\ UNCHANGED accepted

Next == Accept \/ Emit

Spec == Init /\ [][Next]_vars
=============================================================================
