------------------------------ MODULE BlockFifo ------------------------------
(***************************************************************************)
(* What struct queue promises: a FIFO of byte blocks, copied on the way in *)
(* and on the way out, each user with a block of its own to copy from and  *)
(* to.                                                                     *)
(***************************************************************************)
EXTENDS Sequences

CONSTANTS Users, Data, NoData

VARIABLES
    items,  \* the contents of the blocks in the queue of each user
    block   \* the contents of the block of each user

vars == <<items, block>>

Init == items = [u \in Users |-> <<>>] /\ block = [u \in Users |-> NoData]

Set(u) == /\ \E x \in Data \cup {NoData} : block' = [block EXCEPT ![u] = x]
          /\ UNCHANGED items

Push(u) == /\ items' = [items EXCEPT ![u] = Append(@, block[u])]
           /\ UNCHANGED block

Peek(u) == /\ items[u] # <<>>
           /\ block' = [block EXCEPT ![u] = Head(items[u])]
           /\ UNCHANGED items

Pop(u) == /\ items[u] # <<>>
          /\ block' = [block EXCEPT ![u] = Head(items[u])]
          /\ items' = [items EXCEPT ![u] = Tail(@)]

Discard(u) == items' = [items EXCEPT ![u] = <<>>] /\ UNCHANGED block

(* The end of the allocator takes everything with it. *)
End == items' = [u \in Users |-> <<>>] /\ block' = [u \in Users |-> NoData]

Next == End \/ \E u \in Users : Set(u) \/ Push(u) \/ Peek(u) \/ Pop(u) \/ Discard(u)

Spec == Init /\ [][Next]_vars
==============================================================================
