----------------------------- MODULE MCFraming -----------------------------
(* Four packets: one without a payload, two with a short and one with a     *)
(* long one, which takes three reads.                                       *)
EXTENDS Framing

CONSTANTS p1, p2, p3, p4

MCPayload == [p \in Packets |-> CASE p = p1 -> 0 [] p = p2 -> 1 [] p = p3 -> 3
                               [] p = p4 -> 2]
=============================================================================
