----------------------------- MODULE MCSession -----------------------------
(* The calls of an application: a request, a ping, a gather, and so on. *)
EXTENDS Session, TLC

CONSTANTS u1, u2, req1, req2, ping1, gat1, misc1, misc2, resp2

(* The workers are interchangeable. *)
MCSymmetry == Permutations(Workers)

MCOp == [c \in Calls |->
           CASE c \in {req1, req2} -> [kind |-> "request", to |-> u1]
             [] c = ping1 -> [kind |-> "ping", to |-> Server]
             [] c = resp2 -> [kind |-> "respond", to |-> u1]
             [] c = gat1 -> [kind |-> "gather", to |-> u1]
             [] c \in {misc1, misc2} -> [kind |-> "misc", to |-> Server]]
=============================================================================
