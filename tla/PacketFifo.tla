----------------------------- MODULE PacketFifo -----------------------------
(***************************************************************************)
(* What the framing of a connection promises: messages come out whole,     *)
(* once and in the order they went in, up to the first one that was not    *)
(* written or not read completely.  From that one on the stream means      *)
(* nothing, and the receiver may make anything of it.                      *)
(***************************************************************************)
EXTENDS Naturals, Sequences

VARIABLES
    sent,       \* the messages handed over for sending, in order
    delivered,  \* the messages handed out at the other end
    cutAt       \* the index of the first message cut short; 0: none is

vars == <<sent, delivered, cutAt>>

Init == sent = <<>> /\ delivered = <<>> /\ cutAt = 0

Send == /\ Len(sent') = Len(sent) + 1
        /\ SubSeq(sent', 1, Len(sent)) = sent
        /\ UNCHANGED <<delivered, cutAt>>

Deliver == LET n == Len(delivered) + 1
           IN /\ n \in DOMAIN sent /\ (cutAt = 0 \/ n < cutAt)
              /\ delivered' = Append(delivered, sent[n])
              /\ UNCHANGED <<sent, cutAt>>

(* A message is cut short before it has been delivered, and before any that *)
(* is cut already.                                                          *)
Cut == /\ cutAt' \in Len(delivered) + 1..Len(sent)
       /\ cutAt = 0 \/ cutAt' < cutAt
       /\ UNCHANGED <<sent, delivered>>

DeliverAny == /\ cutAt # 0 /\ Len(delivered) + 1 >= cutAt
              /\ Len(delivered') = Len(delivered) + 1
              /\ SubSeq(delivered', 1, Len(delivered)) = delivered
              /\ UNCHANGED <<sent, cutAt>>

Next == Send \/ Deliver \/ Cut \/ DeliverAny

Spec == Init /\ [][Next]_vars
=============================================================================
