------------------------------ MODULE Allocator ------------------------------
(***************************************************************************)
(* src/allocator.c: a hash table, under one mutex, of every pointer handed *)
(* out and not yet freed.  Every function holds the mutex but for the call *)
(* of malloc, whose result no other thread can name: one call is one step. *)
(*                                                                         *)
(* A call is an operator from the memory to the set of its outcomes,       *)
(* records of the memory after the call and the pointer it returns.  The   *)
(* chain of a bucket is a set: its order decides nothing.                  *)
(***************************************************************************)
EXTENDS Naturals, FiniteSets

CONSTANTS
    MaxAddress,    \* bound: malloc returns one of 1..MaxAddress,
    Choices,       \* bound: one of so many that are free, from the lowest
    HashTableSize, \* HASH_TABLE_SIZE
    HashFactor,    \* the multiplier of hash_ptr, 2654435761
    Data,          \* the contents a block of memory may have
    NoData         \* the contents of a block of length 0

ASSUME TableAssumption == /\ HashTableSize \in Nat \ {0} /\ HashFactor \in Nat
                          /\ MaxAddress \in Nat /\ Choices \in Nat
                          /\ NoData \notin Data

NULL == 0
Address == 1..MaxAddress

(* What malloc has given out is `heap', from addresses to contents; table,  *)
(* size and capacity are the fields of struct allocator.                    *)
EmptyMemory == [heap |-> <<>>, table |-> {}, size |-> 0,
                capacity |-> HashTableSize]

(* Faulty variant: not reduced to the size of the table. *)
hash_whole(p, n) == p * HashFactor

hash_ptr(p, n) == (p * HashFactor) % n

Registered(m) == {e.ptr : e \in m.table}

(* What malloc and realloc choose from. *)
Free(m) == {a \in Address \ DOMAIN m.heap :
               Cardinality(1..(a - 1) \ DOMAIN m.heap) < Choices}

(* Faulty variant: the entries stay in the buckets they are in. *)
ResizedInPlace(m) == [m EXCEPT !.capacity = 2 * m.capacity]

(* Every entry moves to the bucket its pointer has in the new table. *)
hash_table_resize(m) ==
    LET n == 2 * m.capacity
    IN [m EXCEPT !.capacity = n,
                 !.size     = Cardinality(m.table),
                 !.table    = {[ptr |-> p, at |-> hash_ptr(p, n)] : p \in Registered(m)}]

(* Above the load factor of 3/4 the table grows, unless calloc fails. *)
LoadChecked(m) ==
    {m} \cup (IF 4 * m.size > 3 * m.capacity THEN {hash_table_resize(m)} ELSE {})

Linked(m, p) ==
    [m EXCEPT !.size  = @ + 1,
              !.table = @ \cup {[ptr |-> p, at |-> hash_ptr(p, m.capacity)]}]

(* The entry of a pointer, looked for in its own bucket only. *)
Entry(m, p) == {e \in m.table : e = [ptr |-> p, at |-> hash_ptr(p, m.capacity)]}

Unlinked(m, p) == [m EXCEPT !.size = @ - 1, !.table = @ \ Entry(m, p)]

(* Memory with the contents x at p, and without what is at p. *)
With(h, p, x) == [a \in DOMAIN h \cup {p} |-> IF a = p THEN x ELSE h[a]]
Without(h, p) == [a \in DOMAIN h \ {p} |-> h[a]]

Stored(m, p, x) == [m EXCEPT !.heap = With(@, p, x)]
Dropped(m, p)   == [m EXCEPT !.heap = Without(@, p)]

Outcome(m, p) == [mem |-> m, ptr |-> p]
Failed(m)     == Outcome(m, NULL)

(* alc_malloc of a block that is then filled with x. *)
alc_malloc(m, x) ==
    {Failed(m)} \cup
    UNION {{Outcome(Linked(r, p), p) : r \in LoadChecked(Stored(m, p, x))} : p \in Free(m)}

(* alc_calloc does not look at the load. *)
alc_calloc(m, x) ==
    {Failed(m)} \cup {Outcome(Linked(Stored(m, p, x), p), p) : p \in Free(m)}

(* alc_free: NULL, and a pointer the table does not have, are ignored. *)
alc_free(m, p) == IF Entry(m, p) = {} THEN m ELSE Dropped(Unlinked(m, p), p)

(* alc_realloc of a block that is not of length 0.  realloc may move it.    *)
Moved(m, p, x) ==
    LET u == Unlinked(m, p)
    IN UNION {{Outcome(r, q) : r \in LoadChecked(Linked(Stored(Dropped(u, p), q, x), q))} :
              q \in {p} \cup Free(m)}

alc_realloc(m, p, x) ==
    IF p = NULL THEN alc_malloc(m, x)
    ELSE IF x = NoData THEN {Outcome(alc_free(m, p), NULL)}
    ELSE IF Entry(m, p) = {} THEN {Failed(m)}
    ELSE {Failed(m)} \cup Moved(m, p, x)

(* alc_gcollect frees what the table has. *)
alc_gcollect(m) ==
    [m EXCEPT !.heap  = [a \in DOMAIN @ \ Registered(m) |-> @[a]],
              !.table = {}, !.size = 0]
==============================================================================
