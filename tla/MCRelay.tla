------------------------------ MODULE MCRelay ------------------------------
(* Three connections, two of them from the same UID, and two workers.       *)
EXTENDS Relay, TLC

CONSTANTS c1, c2, c3, u1, u2

MCUidOf == (c1 :> u1) @@ (c2 :> u2) @@ (c3 :> u1)

MCSendable == {[to |-> u2, kind |-> "message"], [to |-> u1, kind |-> "message"],
               [to |-> Server, kind |-> "ping"],
               [to |-> Server, kind |-> "broadcast"]}
=============================================================================
