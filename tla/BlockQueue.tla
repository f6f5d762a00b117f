----------------------------- MODULE BlockQueue -----------------------------
(***************************************************************************)
(* src/queue.c: how struct queue keeps its blocks, one step for each call  *)
(* it makes of the allocator that all its users share.                     *)
(*                                                                         *)
(* Each user has a queue and a block of its own, and is alone on it: what  *)
(* blocks_mtx is there for.  What the unlock in the middle of pop_block    *)
(* loses when there are two is in Relay.                                   *)
(***************************************************************************)
EXTENDS Allocator, Sequences

CONSTANTS
    Users,         \* the threads
    MaxBlocks,     \* bound: the blocks in the queue of each
    QueueHeadStep  \* QUEUE_HEAD_STEP

ASSUME QueueAssumption == /\ QueueHeadStep \in Nat \ {0, 1}
                          /\ MaxBlocks \in [Users -> Nat]
                          /\ (Data \cup {NoData}) \cap Nat = {}

VARIABLES
    mem,        \* the memory and the table of struct allocator
    blocks,     \* q->blocks: the address of the array of slots
    lcopy,      \* the array push_block has got from alc_realloc
    bsize,      \* q->bsize
    head_size,  \* q->head_size
    data,       \* the data pointers: 0, the block of the user; n, slot n - 1
    pc,         \* the step each user is at
    ended       \* allocator_end has been called

queue == <<blocks, lcopy, bsize, head_size>>
vars == <<mem, queue, data, pc, ended>>

Slot(u) == 0..MaxBlocks[u]

(* A step of an operation, and the slot it works on. *)
At(op, n) == [op |-> op, n |-> n]
Idle == At("idle", 0)

Init == /\ mem = EmptyMemory
        /\ blocks = [u \in Users |-> NULL] /\ lcopy = [u \in Users |-> NULL]
        /\ bsize = [u \in Users |-> 0] /\ head_size = [u \in Users |-> 0]
        /\ data = [u \in Users |-> [n \in Slot(u) |-> NULL]]
        /\ pc = [u \in Users |-> Idle] /\ ended = FALSE

(* The contents of a block: one of length 0 may have no memory. *)
Contents(p) == IF p = NULL THEN NoData ELSE mem.heap[p]

(* The outcomes of a call whose result is not tested: it has memory.        *)
Got(outcomes, x) == {o \in outcomes : o.ptr # NULL \/ x = NoData}

Goto(u, op, n) == pc' = [pc EXCEPT ![u] = At(op, n)]
InCall(u, op)  == pc[u].op = op
Ready(u)       == ~ended /\ pc[u] = Idle

(* Data pointer n of u becomes that of an outcome. *)
Assign(u, n, o) == mem' = o.mem /\ data' = [data EXCEPT ![u][n] = o.ptr]

(* Faulty variant: the pointer to the freed data is kept. *)
FreeOnly(u, n) == mem' = alc_free(mem, data[u][n]) /\ UNCHANGED data

qblock_free(u, n) == Assign(u, n, Outcome(alc_free(mem, data[u][n]), NULL))

-----------------------------------------------------------------------------
(* The block of the user. *)

(* qblock_fill and generic_qbfill. *)
Fill(u) == /\ Ready(u)
           /\ \E x \in Data \cup {NoData} :
                \E o \in Got(alc_realloc(mem, data[u][0], x), x) : Assign(u, 0, o)
           /\ UNCHANGED <<queue, pc, ended>>

(* Users of the allocator take zeroed memory as well. *)
Calloc(u) == /\ Ready(u) /\ data[u][0] = NULL
             /\ \E x \in Data : \E o \in Got(alc_calloc(mem, x), x) : Assign(u, 0, o)
             /\ UNCHANGED <<queue, pc, ended>>

FreeBlock(u) == /\ Ready(u) /\ data[u][0] # NULL
                /\ qblock_free(u, 0)
                /\ UNCHANGED <<queue, pc, ended>>

-----------------------------------------------------------------------------
(* push_block. *)

GrownHead(u) == IF head_size[u] <= bsize[u] + 1 THEN head_size[u] + QueueHeadStep
                                                ELSE head_size[u]

(* Faulty variant: the array is reallocated only when head_size grows. *)
PushGrowOnce(u) ==
    /\ Ready(u) /\ bsize[u] < MaxBlocks[u]
    /\ head_size' = [head_size EXCEPT ![u] = GrownHead(u)]
    /\ IF GrownHead(u) = head_size[u] /\ blocks[u] # NULL
       THEN /\ lcopy' = [lcopy EXCEPT ![u] = blocks[u]]
            /\ Goto(u, "push", bsize[u] + 1) /\ UNCHANGED mem
       ELSE \E o \in alc_realloc(mem, blocks[u], GrownHead(u)) :
               /\ mem' = o.mem
               /\ IF o.ptr = NULL THEN UNCHANGED <<lcopy, pc>>
                  ELSE /\ lcopy' = [lcopy EXCEPT ![u] = o.ptr]
                       /\ Goto(u, "push", bsize[u] + 1)
    /\ UNCHANGED <<blocks, bsize, data, ended>>

(* The array gets head_size slots; without memory, push_block gives up with *)
(* head_size already raised.                                                *)
PushGrow(u) ==
    /\ Ready(u) /\ bsize[u] < MaxBlocks[u]
    /\ head_size' = [head_size EXCEPT ![u] = GrownHead(u)]
    /\ \E o \in alc_realloc(mem, blocks[u], GrownHead(u)) :
          /\ mem' = o.mem
          /\ IF o.ptr = NULL THEN UNCHANGED <<lcopy, pc>>
             ELSE /\ lcopy' = [lcopy EXCEPT ![u] = o.ptr]
                  /\ Goto(u, "push", bsize[u] + 1)
    /\ UNCHANGED <<blocks, bsize, data, ended>>

(* qblock_copy to a destination without data. *)
CopyTo(u, n, src) ==
    LET x == Contents(src)
    IN IF x = NoData
       THEN UNCHANGED mem /\ data' = [data EXCEPT ![u][n] = NULL]
       ELSE \E o \in Got(alc_realloc(mem, NULL, x), x) : Assign(u, n, o)

PushCopy(u) ==
    /\ InCall(u, "push")
    /\ CopyTo(u, pc[u].n, data[u][0])
    /\ blocks' = [blocks EXCEPT ![u] = lcopy[u]]
    /\ lcopy' = [lcopy EXCEPT ![u] = NULL]
    /\ bsize' = [bsize EXCEPT ![u] = @ + 1]
    /\ pc' = [pc EXCEPT ![u] = Idle]
    /\ UNCHANGED <<head_size, ended>>

-----------------------------------------------------------------------------
(* pop_block and peek_block: the block of the user takes what slot 0 has;   *)
(* pop_block then moves up every other slot, each by a qblock_copy, which   *)
(* frees the destination and allocates it again.                            *)

Begin(u) == /\ Ready(u) /\ bsize[u] > 0
            /\ qblock_free(u, 0)
            /\ \E op \in {"pop", "peek"} : Goto(u, op, 1)
            /\ UNCHANGED <<queue, ended>>

PeekCopy(u) == /\ InCall(u, "peek")
               /\ CopyTo(u, 0, data[u][1])
               /\ pc' = [pc EXCEPT ![u] = Idle]
               /\ UNCHANGED <<queue, ended>>

(* Faulty variant: the last slot is not moved up. *)
AfterCopyShort(u, n) == IF bsize[u] = 1 THEN At("free", 1)
                        ELSE IF n + 1 < bsize[u] THEN At("clear", n + 1)
                        ELSE At("last", bsize[u] + 1)

(* A queue left without blocks is freed; else the slot behind is cleared    *)
(* for the next block, or the last slot dropped.                            *)
AfterCopy(u, n) == IF bsize[u] = 1 THEN At("free", 1)
                   ELSE IF n < bsize[u] THEN At("clear", n)
                   ELSE At("last", n + 1)

PopCopy(u) == LET n == pc[u].n
              IN /\ InCall(u, "pop")
                 /\ CopyTo(u, n - 1, data[u][n])
                 /\ pc' = [pc EXCEPT ![u] = AfterCopy(u, n)]
                 /\ UNCHANGED <<queue, ended>>

PopClear(u) == /\ InCall(u, "clear")
               /\ qblock_free(u, pc[u].n)
               /\ Goto(u, "pop", pc[u].n + 1)
               /\ UNCHANGED <<queue, ended>>

PopLast(u) == /\ InCall(u, "last")
              /\ qblock_free(u, bsize[u])
              /\ Goto(u, "shrink", pc[u].n)
              /\ UNCHANGED <<queue, ended>>

(* One slot less; head_size is left as it is. *)
PopShrink(u) ==
    /\ InCall(u, "shrink")
    /\ \E o \in Got(alc_realloc(mem, blocks[u], bsize[u] - 1), bsize[u] - 1) :
          mem' = o.mem /\ blocks' = [blocks EXCEPT ![u] = o.ptr]
    /\ bsize' = [bsize EXCEPT ![u] = @ - 1]
    /\ pc' = [pc EXCEPT ![u] = Idle]
    /\ UNCHANGED <<lcopy, head_size, data, ended>>

-----------------------------------------------------------------------------
(* queue_free, from pop_block or when a connection is closed: then another  *)
(* queue_init gives a head_size of 0.                                       *)

Discard(u) == /\ Ready(u) /\ head_size[u] > 0
              /\ head_size' = [head_size EXCEPT ![u] = 0]
              /\ Goto(u, "free", 1)
              /\ UNCHANGED <<mem, blocks, lcopy, bsize, data, ended>>

FreeSlot(u) == LET n == pc[u].n
               IN /\ InCall(u, "free") /\ n <= bsize[u]
                  /\ qblock_free(u, n)
                  /\ Goto(u, "free", n + 1)
                  /\ UNCHANGED <<queue, ended>>

FreeBlocks(u) == /\ InCall(u, "free") /\ pc[u].n > bsize[u]
                 /\ mem' = alc_free(mem, blocks[u])
                 /\ blocks' = [blocks EXCEPT ![u] = NULL]
                 /\ bsize' = [bsize EXCEPT ![u] = 0]
                 /\ pc' = [pc EXCEPT ![u] = Idle]
                 /\ UNCHANGED <<lcopy, head_size, data, ended>>

(* allocator_end, once the threads are done. *)
allocator_end == /\ \A u \in Users : Ready(u)
                 /\ ended' = TRUE /\ mem' = alc_gcollect(mem)
                 /\ UNCHANGED <<queue, data, pc>>

-----------------------------------------------------------------------------
Use(u) == \/ Fill(u) \/ Calloc(u) \/ FreeBlock(u)
          \/ PushGrow(u) \/ PushCopy(u)
          \/ Begin(u) \/ PeekCopy(u) \/ PopCopy(u) \/ PopClear(u)
          \/ PopLast(u) \/ PopShrink(u)
          \/ Discard(u) \/ FreeSlot(u) \/ FreeBlocks(u)

Next == allocator_end \/ \E u \in Users : Use(u)

Spec == Init /\ [][Next]_vars

-----------------------------------------------------------------------------
Pointer == Address \cup {NULL}
Step == {"idle", "push", "peek", "pop", "clear", "last", "shrink", "free"}

TypeOK ==
    /\ DOMAIN mem = {"heap", "table", "size", "capacity"}
    /\ DOMAIN mem.heap \subseteq Address
    /\ \A a \in DOMAIN mem.heap : mem.heap[a] \in Nat \cup Data \cup {NoData}
    /\ mem.table \subseteq [ptr : Address, at : 0..mem.capacity - 1]
    /\ mem.size \in Nat /\ mem.capacity \in Nat
    /\ blocks \in [Users -> Pointer] /\ lcopy \in [Users -> Pointer]
    /\ bsize \in [Users -> Nat] /\ head_size \in [Users -> Nat]
    /\ DOMAIN data = Users /\ \A u \in Users : data[u] \in [Slot(u) -> Pointer]
    /\ pc \in [Users -> [op : Step, n : Nat]] /\ ended \in BOOLEAN

(* The table is exact: one entry for each piece of memory given out, in the *)
(* bucket its pointer is looked for in, through every resize.  An entry in  *)
(* another bucket is never found again, and alc_realloc returns NULL for a  *)
(* live block; an entry of freed memory is freed again at allocator_end.    *)
TableExact ==
    /\ Registered(mem) = DOMAIN mem.heap
    /\ \A e \in mem.table : e.at = hash_ptr(e.ptr, mem.capacity)
    /\ mem.size = Cardinality(mem.table)

(* The array of slots of a queue: between the realloc and the last line of  *)
(* push_block q->blocks is the old one.                                     *)
Array(u) == IF InCall(u, "push") THEN lcopy[u] ELSE blocks[u]

(* Who holds memory: <<u, n>> for data pointer n of u, <<u, "array">>.      *)
Holders == {h \in UNION {{<<u, n>> : n \in Slot(u)} : u \in Users} : data[h[1]][h[2]] # NULL}
Arrays  == {u \in Users : Array(u) # NULL}

(* Memory has one holder: nothing is freed while it is in use, used after   *)
(* it is freed, shared by two blocks, or forgotten.                         *)
OneHolder ==
    ~ended =>
      /\ DOMAIN mem.heap = {data[h[1]][h[2]] : h \in Holders} \cup {Array(u) : u \in Arrays}
      /\ Cardinality(DOMAIN mem.heap) = Cardinality(Holders) + Cardinality(Arrays)

(* No operation touches a slot past the end of the array, although          *)
(* pop_block shortens the array and leaves head_size as it was.             *)
SlotsInBounds ==
    ~ended => \A u \in Users :
        LET last == IF InCall(u, "push") THEN pc[u].n ELSE bsize[u]
        IN last > 0 => mem.heap[Array(u)] >= last

-----------------------------------------------------------------------------
(* The refinement: what is in the queue while blocks are moved up.          *)

Moving(u) == pc[u].op \in {"pop", "clear", "last", "shrink"}

(* The blocks in front of slot m have been moved up by one. *)
Frontier(u) == IF InCall(u, "clear") THEN pc[u].n + 1 ELSE pc[u].n

InQueue(u) ==
    [n \in 1..bsize[u] |->
        Contents(data[u][IF Moving(u) /\ n < Frontier(u) THEN n - 1 ELSE n])]

items == [u \in Users |-> IF ended \/ InCall(u, "free") THEN <<>>
                          ELSE IF Moving(u) THEN Tail(InQueue(u))
                          ELSE InQueue(u)]

block == [u \in Users |->
             IF ended THEN NoData
             ELSE IF Moving(u) \/ InCall(u, "peek") THEN InQueue(u)[1]
             ELSE Contents(data[u][0])]

(* The queue of each user is a FIFO of blocks, whatever the others do with  *)
(* the allocator: no block is lost, repeated, moved or mixed with another   *)
(* by the copies of pop_block.                                              *)
Fifo == INSTANCE BlockFifo
ImplementsFifo == Fifo!Spec
=============================================================================
