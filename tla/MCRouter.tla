------------------------------ MODULE MCRouter ------------------------------
(* One router, linked to the servers of u1 and u2.  b1 has come a long way: *)
(* user u4 sent it, and u1 stands for the link of another router.           *)
EXTENDS Router

CONSTANTS r1, s1, s2, s4, l1, l2, u1, u2, u4, b1, b2, b3

MCRouterOf == [l \in Links |-> r1]
MCLoopOf == [w \in Workers |-> r1]
MCServerOf == [x \in Links \cup Users |->
                 CASE x \in {l1, u1} -> s1 [] x \in {l2, u2} -> s2 [] x = u4 -> s4]
MCSender == [b \in Broadcasts |-> IF b \in {b1, b3} THEN u1 ELSE u2]
MCKinds == [b \in Broadcasts |-> IF b = b2 THEN CastKinds ELSE {"sig_broadcast"}]
MCOrigin == [b \in Broadcasts |-> CASE b = b1 -> u4 [] b = b2 -> u2 [] b = b3 -> u1]

(* The servers of this instance are linked as NoEcho asks. *)
ASSUME MCTree == LinkedAsTree
=============================================================================
