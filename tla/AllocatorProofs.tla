-------------------------- MODULE AllocatorProofs --------------------------
(***************************************************************************)
(* What the calls of Allocator do, for any size of the table, multiplier   *)
(* and number of addresses.                                                *)
(***************************************************************************)
EXTENDS Allocator, FiniteSetTheorems, TLAPS

Contained == Nat \cup Data \cup {NoData}
Heap   == UNION {[D -> Contained] : D \in SUBSET Address}
Memory == [heap : Heap, table : SUBSET [ptr : Address, at : Nat],
           size : Nat, capacity : Nat \ {0}]

(* The table that has the addresses D, each in its bucket. *)
Buckets(D, n) == {[ptr |-> p, at |-> hash_ptr(p, n)] : p \in D}

ExactFor(m, D) == /\ m \in Memory /\ D \subseteq Address
                  /\ m.table = Buckets(D, m.capacity)
                  /\ m.size = Cardinality(D)

Exact(m) == ExactFor(m, DOMAIN m.heap)



-----------------------------------------------------------------------------
LEMMA HashInTable ==
    ASSUME NEW p \in Nat, NEW n \in Nat \ {0}
    PROVE  hash_ptr(p, n) \in 0..n - 1
<1>1. p * HashFactor \in Int
    BY TableAssumption
<1>2. \A k \in Int : k % n \in 0..n - 1
    OBVIOUS
<1> QED
    BY <1>1, <1>2 DEF hash_ptr

LEMMA AddressesFinite == \A D \in SUBSET Address : IsFiniteSet(D)
<1>1. IsFiniteSet(Address)
    BY FS_Interval, TableAssumption DEF Address
<1> QED
    BY <1>1, FS_Subset

LEMMA BucketsIn ==
    ASSUME NEW D \in SUBSET Address, NEW n \in Nat \ {0}
    PROVE  /\ Buckets(D, n) \subseteq [ptr : Address, at : 0..n - 1]
           /\ Cardinality(Buckets(D, n)) = Cardinality(D)
           /\ {e.ptr : e \in Buckets(D, n)} = D
           /\ \A e \in Buckets(D, n) : e.at = hash_ptr(e.ptr, n)
<1>1. \A p \in Address : hash_ptr(p, n) \in 0..n - 1
    BY HashInTable DEF Address
<1>2. Buckets(D, n) \subseteq [ptr : Address, at : 0..n - 1]
    BY <1>1 DEF Buckets
<1> DEFINE f == [p \in D |-> [ptr |-> p, at |-> hash_ptr(p, n)]]
<1>3. f \in Bijection(D, Buckets(D, n))
    <2>1. f \in [D -> Buckets(D, n)]
        BY DEF Buckets
    <2>2. \A p, r \in D : f[p] = f[r] => p = r
        OBVIOUS
    <2>3. \A e \in Buckets(D, n) : \E p \in D : f[p] = e
        BY DEF Buckets
    <2> HIDE DEF f
    <2> QED
        BY <2>1, <2>2, <2>3 DEF Bijection, Injection, Surjection, IsInjective
<1> HIDE DEF f
<1>4. Cardinality(Buckets(D, n)) = Cardinality(D)
    <2>1. IsFiniteSet(D) /\ ExistsBijection(D, Buckets(D, n))
        BY <1>3, AddressesFinite DEF ExistsBijection
    <2> QED
        BY <2>1, FS_Bijection
<1>5. {e.ptr : e \in Buckets(D, n)} = D
    <2>1. ASSUME NEW p \in D PROVE \E e \in Buckets(D, n) : e.ptr = p
        <3>1. [ptr |-> p, at |-> hash_ptr(p, n)] \in Buckets(D, n)
            BY DEF Buckets
        <3> QED BY <3>1
    <2>2. \A e \in Buckets(D, n) : e.ptr \in D
        BY DEF Buckets
    <2> QED BY <2>1, <2>2
<1>6. \A e \in Buckets(D, n) : e.at = hash_ptr(e.ptr, n)
    BY DEF Buckets
<1> QED
    BY <1>2, <1>4, <1>5, <1>6

LEMMA EntryOf ==
    ASSUME NEW m, NEW D, ExactFor(m, D), NEW p \in Address
    PROVE  /\ p \in D => Entry(m, p) = {[ptr |-> p, at |-> hash_ptr(p, m.capacity)]}
           /\ p \notin D => Entry(m, p) = {}
BY DEF ExactFor, Entry, Buckets

-----------------------------------------------------------------------------
(* The parts of a call, on a memory whose table has the addresses D. *)

LEMMA LinkedEntry ==
    ASSUME NEW m, NEW D, ExactFor(m, D), NEW p \in Address \ D
    PROVE  ExactFor(Linked(m, p), D \cup {p}) /\ Linked(m, p).heap = m.heap
<1> DEFINE r == Linked(m, p)
<1>1. m \in Memory /\ D \subseteq Address /\ IsFiniteSet(D)
    BY AddressesFinite DEF ExactFor
<1>2. hash_ptr(p, m.capacity) \in Nat
    <2>1. p \in Nat /\ m.capacity \in Nat \ {0}
        BY <1>1 DEF Memory, Address
    <2> QED BY <2>1, HashInTable
<1>3. Cardinality(D) \in Nat /\ Cardinality(D \cup {p}) = Cardinality(D) + 1
    BY <1>1, FS_AddElement, FS_CardinalityType
<1>4. /\ r.heap = m.heap /\ r.capacity = m.capacity /\ r.size = m.size + 1
      /\ r.table = m.table \cup {[ptr |-> p, at |-> hash_ptr(p, m.capacity)]}
    BY <1>1 DEF Linked, Memory
<1>5. r \in Memory
    <2> DEFINE s == [m EXCEPT !.size = @ + 1]
               t == m.table \cup {[ptr |-> p, at |-> hash_ptr(p, m.capacity)]}
    <2>1. s \in Memory /\ t \in SUBSET [ptr : Address, at : Nat]
        BY <1>1, <1>2 DEF Memory
    <2>2. r = [s EXCEPT !.table = t]
        BY DEF Linked
    <2> HIDE DEF r, s, t
    <2> QED BY <2>1, <2>2 DEF Memory
<1> HIDE DEF r
<1>6. r.table = Buckets(D \cup {p}, r.capacity) /\ r.size = Cardinality(D \cup {p})
    BY <1>3, <1>4 DEF ExactFor, Buckets
<1> QED
    BY <1>1, <1>4, <1>5, <1>6 DEF ExactFor, r

LEMMA UnlinkedEntry ==
    ASSUME NEW m, NEW D, ExactFor(m, D), NEW p \in D
    PROVE  ExactFor(Unlinked(m, p), D \ {p}) /\ Unlinked(m, p).heap = m.heap
<1> DEFINE r == Unlinked(m, p)
<1>1. m \in Memory /\ D \subseteq Address /\ IsFiniteSet(D)
    BY AddressesFinite DEF ExactFor
<1>2. /\ Cardinality(D) \in Nat /\ Cardinality(D \ {p}) = Cardinality(D) - 1
      /\ Cardinality(D \ {p}) \in Nat
    BY <1>1, FS_RemoveElement, FS_CardinalityType
<1>3. Entry(m, p) = {[ptr |-> p, at |-> hash_ptr(p, m.capacity)]}
    BY <1>1, EntryOf
<1>4. /\ r.heap = m.heap /\ r.capacity = m.capacity /\ r.size = m.size - 1
      /\ r.table = m.table \ {[ptr |-> p, at |-> hash_ptr(p, m.capacity)]}
    BY <1>1, <1>3 DEF Unlinked, Memory
<1>5. r \in Memory
    BY <1>1, <1>2 DEF Unlinked, Memory, ExactFor
<1> HIDE DEF r
<1>6. r.table = Buckets(D \ {p}, r.capacity) /\ r.size = Cardinality(D \ {p})
    BY <1>2, <1>4 DEF ExactFor, Buckets
<1> QED
    BY <1>1, <1>4, <1>5, <1>6 DEF ExactFor, r

LEMMA ResizedTable ==
    ASSUME NEW m, NEW D, ExactFor(m, D)
    PROVE  /\ ExactFor(hash_table_resize(m), D)
           /\ hash_table_resize(m).heap = m.heap
<1> DEFINE r == hash_table_resize(m)
           n == 2 * m.capacity
<1>1. m \in Memory /\ D \in SUBSET Address /\ m.table = Buckets(D, m.capacity)
    BY DEF ExactFor
<1>2. m.capacity \in Nat \ {0} /\ n \in Nat \ {0}
    BY <1>1 DEF Memory
<1>3. Registered(m) = D /\ Cardinality(m.table) = Cardinality(D)
    BY <1>1, <1>2, BucketsIn DEF Registered
<1>4. /\ r.heap = m.heap /\ r.capacity = n /\ r.size = Cardinality(D)
      /\ r.table = Buckets(D, n)
    BY <1>1, <1>3 DEF hash_table_resize, Memory, Buckets
<1>5. Buckets(D, n) \subseteq [ptr : Address, at : Nat]
    BY <1>1, <1>2, BucketsIn
<1>6. r \in Memory
    <2>1. Cardinality(D) \in Nat
        BY <1>1, AddressesFinite, FS_CardinalityType
    <2>2. Cardinality(m.table) \in Nat
        BY <1>3, <2>1
    <2>3. {[ptr |-> p, at |-> hash_ptr(p, n)] : p \in Registered(m)} = Buckets(D, n)
        BY <1>3 DEF Buckets
    <2> QED BY <1>1, <1>2, <1>5, <2>2, <2>3 DEF hash_table_resize, Memory
<1> HIDE DEF r, n
<1> QED
    BY <1>1, <1>4, <1>6 DEF ExactFor, r

LEMMA CheckedTable ==
    ASSUME NEW m, NEW D, ExactFor(m, D), NEW r \in LoadChecked(m)
    PROVE  ExactFor(r, D) /\ r.heap = m.heap
BY ResizedTable DEF LoadChecked

-----------------------------------------------------------------------------
(* The heap. *)

LEMMA HeapIs ==
    ASSUME NEW h
    PROVE  h \in Heap <=> /\ DOMAIN h \subseteq Address
                          /\ h \in [DOMAIN h -> Contained]
BY DEF Heap

LEMMA HeapOps ==
    ASSUME NEW h \in Heap, NEW p, NEW x \in Contained
    PROVE  /\ Without(h, p) \in Heap /\ DOMAIN Without(h, p) = DOMAIN h \ {p}
           /\ \A a \in DOMAIN h \ {p} : Without(h, p)[a] = h[a]
           /\ p \notin DOMAIN h => Without(h, p) = h
           /\ DOMAIN With(h, p, x) = DOMAIN h \cup {p}
           /\ p \in Address => With(h, p, x) \in Heap
           /\ With(h, p, x)[p] = x
           /\ \A a \in DOMAIN h \ {p} : With(h, p, x)[a] = h[a]
<1>1. DOMAIN h \subseteq Address /\ h \in [DOMAIN h -> Contained]
    BY HeapIs
<1>2. /\ DOMAIN Without(h, p) = DOMAIN h \ {p}
      /\ \A a \in DOMAIN h \ {p} : Without(h, p)[a] = h[a]
    BY DEF Without
<1>3. Without(h, p) \in [DOMAIN h \ {p} -> Contained]
    BY <1>1 DEF Without
<1>4. p \notin DOMAIN h => Without(h, p) = h
    BY <1>1 DEF Without
<1>5. With(h, p, x) = [a \in DOMAIN h \cup {p} |-> IF a = p THEN x ELSE h[a]]
    BY DEF With
<1>6. p \in Address => With(h, p, x) \in Heap
    BY <1>1, <1>5 DEF Heap
<1>7. Without(h, p) \in Heap
    BY <1>1, <1>2, <1>3 DEF Heap
<1> QED
    BY <1>2, <1>4, <1>5, <1>6, <1>7

LEMMA WithoutNone ==
    ASSUME NEW h \in Heap, NEW p, p \notin DOMAIN h
    PROVE  Without(h, p) = h
BY HeapIs DEF Without

LEMMA WithoutNull ==
    ASSUME NEW m, Exact(m)
    PROVE  /\ Without(m.heap, NULL) = m.heap
           /\ NULL \notin Address /\ NULL \notin DOMAIN m.heap
<1>1. m.heap \in Heap /\ DOMAIN m.heap \subseteq Address
    BY DEF Exact, ExactFor, Memory
<1>2. NULL \notin Address
    BY DEF NULL, Address
<1> QED
    BY <1>1, <1>2, WithoutNone

(* The pointer p is given up, and another one got for x; a block of length  *)
(* 0 may get none.                                                          *)
Replaced(h, p, g, r, x) ==
    \/ r = NULL /\ g = Without(h, p) /\ x = NoData
    \/ r \in Address \ (DOMAIN h \ {p}) /\ g = With(Without(h, p), r, x)

(* What a call may do: fail, or replace the pointer it is given.  In every  *)
(* case the table is exact after it.                                        *)
Does(m, p, o, x) ==
    /\ Exact(o.mem)
    /\ \/ o = Failed(m) /\ x # NoData
       \/ Replaced(m.heap, p, o.mem.heap, o.ptr, x)

LEMMA Storing ==
    ASSUME NEW m, Exact(m), NEW p \in Address \ DOMAIN m.heap, NEW x \in Contained
    PROVE  /\ ExactFor(Stored(m, p, x), DOMAIN m.heap)
           /\ Stored(m, p, x).heap = With(m.heap, p, x)
           /\ DOMAIN Stored(m, p, x).heap = DOMAIN m.heap \cup {p}
<1>1. m \in Memory /\ m.heap \in Heap
    BY DEF Exact, ExactFor, Memory
<1>2. Stored(m, p, x) = [m EXCEPT !.heap = With(m.heap, p, x)]
    BY DEF Stored, With
<1>3. With(m.heap, p, x) \in Heap /\ DOMAIN With(m.heap, p, x) = DOMAIN m.heap \cup {p}
    BY <1>1, HeapOps
<1> QED
    BY <1>1, <1>2, <1>3 DEF Exact, ExactFor, Memory

LEMMA Dropping ==
    ASSUME NEW m, NEW D, ExactFor(m, D), NEW p
    PROVE  /\ ExactFor(Dropped(m, p), D)
           /\ Dropped(m, p).heap = Without(m.heap, p)
<1>1. m \in Memory /\ m.heap \in Heap
    BY DEF ExactFor, Memory
<1>2. Dropped(m, p) = [m EXCEPT !.heap = Without(m.heap, p)]
    BY DEF Dropped
<1>3. Without(m.heap, p) \in Heap
    BY <1>1, HeapOps DEF Contained
<1> QED
    BY <1>1, <1>2, <1>3 DEF ExactFor, Memory

LEMMA ExactMemory ==
    ASSUME NEW m, Exact(m)
    PROVE  m \in Memory /\ m.heap \in Heap /\ DOMAIN m.heap \subseteq Address
BY DEF Exact, ExactFor, Memory

-----------------------------------------------------------------------------
(* The calls. *)

(* A new entry for memory that has just been given out. *)
LEMMA Linking ==
    ASSUME NEW m, NEW D, ExactFor(m, D), NEW p \in Address \ D,
           DOMAIN m.heap = D \cup {p}
    PROVE  Exact(Linked(m, p)) /\ Linked(m, p).heap = m.heap
BY LinkedEntry DEF Exact

LEMMA Checking ==
    ASSUME NEW m, Exact(m), NEW r \in LoadChecked(m)
    PROVE  Exact(r) /\ r.heap = m.heap
BY CheckedTable DEF Exact

LEMMA MallocDoes ==
    ASSUME NEW m, Exact(m), NEW x \in Contained, NEW o \in alc_malloc(m, x)
    PROVE  Does(m, NULL, o, x)
<1>1. CASE o = Failed(m)
    BY <1>1, WithoutNull DEF Does, Replaced, Failed, Outcome
<1>2. ASSUME NEW p \in Free(m), NEW r \in LoadChecked(Stored(m, p, x)),
             o = Outcome(Linked(r, p), p)
      PROVE  Does(m, NULL, o, x)
    <2>1. p \in Address \ DOMAIN m.heap
        BY DEF Free
    <2>2. /\ ExactFor(r, DOMAIN m.heap) /\ r.heap = With(m.heap, p, x)
          /\ DOMAIN r.heap = DOMAIN m.heap \cup {p}
        BY <2>1, Storing, CheckedTable
    <2>3. Exact(Linked(r, p)) /\ Linked(r, p).heap = With(m.heap, p, x)
        BY <2>1, <2>2, Linking
    <2>4. Without(m.heap, NULL) = m.heap /\ NULL \notin Address
        BY WithoutNull
    <2> QED
        BY <1>2, <2>1, <2>3, <2>4 DEF Does, Replaced, Outcome
<1> QED
    BY <1>1, <1>2 DEF alc_malloc

LEMMA CallocDoes ==
    ASSUME NEW m, Exact(m), NEW x \in Contained, NEW o \in alc_calloc(m, x)
    PROVE  Does(m, NULL, o, x)
<1>1. CASE o = Failed(m)
    BY <1>1, WithoutNull DEF Does, Replaced, Failed, Outcome
<1>2. ASSUME NEW p \in Free(m), o = Outcome(Linked(Stored(m, p, x), p), p)
      PROVE  Does(m, NULL, o, x)
    <2>1. p \in Address \ DOMAIN m.heap
        BY DEF Free
    <2>2. Exact(Linked(Stored(m, p, x), p))
          /\ Linked(Stored(m, p, x), p).heap = With(m.heap, p, x)
        BY <2>1, Storing, Linking
    <2>3. Without(m.heap, NULL) = m.heap /\ NULL \notin Address
        BY WithoutNull
    <2> QED
        BY <1>2, <2>1, <2>2, <2>3 DEF Does, Replaced, Outcome
<1> QED
    BY <1>1, <1>2 DEF alc_calloc

(* Freed memory leaves the table with its pointer.  A pointer that the      *)
(* table does not have is NULL or has been freed, and is ignored.           *)
THEOREM FreeDoes ==
    ASSUME NEW m, Exact(m), NEW p \in Address \cup {NULL}
    PROVE  /\ Exact(alc_free(m, p)) /\ alc_free(m, p).heap = Without(m.heap, p)
           /\ Does(m, p, Outcome(alc_free(m, p), NULL), NoData)
<1>1. /\ Exact(alc_free(m, p)) /\ alc_free(m, p).heap = Without(m.heap, p)
    <2>1. CASE p \in DOMAIN m.heap
        <3> DEFINE D == DOMAIN m.heap
                   u == Unlinked(m, p)
        <3>1. p \in Address /\ ExactFor(m, D) /\ m.heap \in Heap
            BY <2>1, ExactMemory DEF Exact
        <3>2. Entry(m, p) # {}
            <4>1. Entry(m, p) = {[ptr |-> p, at |-> hash_ptr(p, m.capacity)]}
                BY <2>1, <3>1, EntryOf, Zenon
            <4> QED BY <4>1
        <3>3. ExactFor(u, D \ {p}) /\ u.heap = m.heap
            BY <2>1, <3>1, UnlinkedEntry
        <3>4. ExactFor(Dropped(u, p), D \ {p}) /\ Dropped(u, p).heap = Without(m.heap, p)
            BY <3>3, Dropping
        <3>5. DOMAIN Without(m.heap, p) = D \ {p}
            BY DEF Without
        <3> QED BY <3>2, <3>4, <3>5 DEF alc_free, Exact
    <2>2. CASE p \notin DOMAIN m.heap
        <3>1. Without(m.heap, p) = m.heap
            BY <2>2, ExactMemory, WithoutNone
        <3>2. CASE p \in Address
            BY <2>2, <3>1, <3>2, EntryOf DEF alc_free, Exact
        <3>3. CASE p = NULL
            <4>1. p \notin Address
                BY <3>3 DEF NULL, Address
            <4>2. m.table \subseteq [ptr : Address, at : Nat]
                BY ExactMemory DEF Memory
            <4>3. Entry(m, p) = {}
                BY <4>1, <4>2 DEF Entry
            <4> QED BY <3>1, <4>3 DEF alc_free
        <3> QED BY <3>2, <3>3
    <2> QED BY <2>1, <2>2
<1> QED
    BY <1>1 DEF Does, Replaced, Outcome

(* A reallocation that fails leaves the memory as it was; one that succeeds *)
(* moves the entry of the pointer, also where realloc moves the block into  *)
(* another bucket and where the table grows under the new entry.            *)
THEOREM ReallocDoes ==
    ASSUME NEW m, Exact(m), NEW x \in Contained,
           NEW p \in DOMAIN m.heap \cup {NULL}, NEW o \in alc_realloc(m, p, x)
    PROVE  Does(m, p, o, x)
<1>1. CASE p = NULL
    BY <1>1, MallocDoes DEF alc_realloc
<1>2. CASE p # NULL /\ x = NoData
    <2>1. p \in Address \cup {NULL} /\ o = Outcome(alc_free(m, p), NULL)
        BY <1>2, ExactMemory DEF alc_realloc
    <2> QED
        BY <1>2, <2>1, FreeDoes
<1>3. CASE o = Failed(m) /\ x # NoData
    BY <1>3 DEF Does, Failed, Outcome
<1>4. ASSUME p # NULL, NEW q \in {p} \cup Free(m),
             NEW r \in LoadChecked(Linked(Stored(Dropped(Unlinked(m, p), p), q, x), q)),
             o = Outcome(r, q)
      PROVE  Does(m, p, o, x)
    <2> DEFINE D == DOMAIN m.heap
               u == Unlinked(m, p)
               d == Dropped(u, p)
               s == Stored(d, q, x)
    <2>1. p \in D /\ ExactFor(m, D) /\ D \subseteq Address
        BY <1>4, ExactMemory DEF Exact
    <2>2. q \in Address \ (D \ {p})
        BY <2>1 DEF Free
    <2>3. ExactFor(u, D \ {p}) /\ u.heap = m.heap
        BY <2>1, UnlinkedEntry
    <2>4. ExactFor(d, D \ {p}) /\ d.heap = Without(m.heap, p)
        BY <2>3, Dropping
    <2>5. DOMAIN d.heap = D \ {p}
        BY <2>4 DEF Without
    <2> HIDE DEF D, u, d
    <2>6. Exact(d) /\ q \in Address \ DOMAIN d.heap
        BY <2>2, <2>4, <2>5 DEF Exact
    <2>7. /\ ExactFor(s, DOMAIN d.heap) /\ s.heap = With(d.heap, q, x)
          /\ DOMAIN s.heap = DOMAIN d.heap \cup {q}
        BY <2>6, Storing
    <2> HIDE DEF s
    <2>8. Exact(Linked(s, q)) /\ Linked(s, q).heap = s.heap
        BY <2>6, <2>7, Linking
    <2>9. r \in LoadChecked(Linked(s, q))
        BY DEF s, d, u
    <2>10. Exact(r) /\ r.heap = With(Without(m.heap, p), q, x)
        BY <2>4, <2>7, <2>8, <2>9, Checking
    <2> QED
        BY <1>4, <2>2, <2>10 DEF Does, Replaced, Outcome, D
<1>5. CASE p # NULL /\ x # NoData
    BY <1>3, <1>4, <1>5 DEF alc_realloc, Moved
<1> QED
    BY <1>1, <1>2, <1>5

LEMMA CollectDoes ==
    ASSUME NEW m, Exact(m)
    PROVE  Exact(alc_gcollect(m)) /\ DOMAIN alc_gcollect(m).heap = {}
<1> DEFINE g == alc_gcollect(m)
           h == [a \in DOMAIN m.heap \ Registered(m) |-> m.heap[a]]
<1>1. m \in Memory /\ m.table = Buckets(DOMAIN m.heap, m.capacity)
      /\ DOMAIN m.heap \in SUBSET Address /\ m.capacity \in Nat \ {0}
    BY DEF Exact, ExactFor, Memory
<1>2. Registered(m) = DOMAIN m.heap
    BY <1>1, BucketsIn DEF Registered
<1>3. DOMAIN h = {} /\ h \in Heap
    <2>1. DOMAIN h = {} /\ h \in [{} -> Contained]
        BY <1>2
    <2> QED BY <2>1 DEF Heap
<1> HIDE DEF h
<1>4. g \in Memory /\ g.table = {} /\ g.size = 0 /\ g.heap = h
    <2> DEFINE m1 == [m EXCEPT !.heap = h]
               m2 == [m1 EXCEPT !.table = {}]
    <2>1. m1 \in Memory /\ m1.heap = h
        BY <1>1, <1>3 DEF Memory
    <2> HIDE DEF m1
    <2>2. m2 \in Memory /\ m2.heap = h /\ m2.table = {}
        BY <2>1 DEF Memory
    <2> HIDE DEF m2
    <2>3. g = [m2 EXCEPT !.size = 0]
        BY DEF alc_gcollect, m1, m2, h
    <2> HIDE DEF g
    <2> QED BY <2>2, <2>3 DEF Memory
<1> HIDE DEF g
<1>5. g.table = Buckets({}, g.capacity) /\ Cardinality({}) = 0
    BY <1>4, FS_EmptySet DEF Buckets
<1> QED
    BY <1>3, <1>4, <1>5 DEF Exact, ExactFor, g

LEMMA EmptyIsExact == Exact(EmptyMemory) /\ DOMAIN EmptyMemory.heap = {}
<1>1. DOMAIN <<>> = {} /\ <<>> \in [{} -> Contained]
    OBVIOUS
<1>2. EmptyMemory \in Memory
    BY <1>1, TableAssumption DEF EmptyMemory, Memory, Heap
<1>3. Buckets({}, HashTableSize) = {} /\ Cardinality({}) = 0
    BY FS_EmptySet DEF Buckets
<1> QED
    BY <1>1, <1>2, <1>3 DEF Exact, ExactFor, EmptyMemory

(* A table that is exact has an entry for each piece of memory, in the      *)
(* bucket that its pointer is looked for in.                                *)
LEMMA ExactTable ==
    ASSUME NEW m, Exact(m)
    PROVE  /\ Registered(m) = DOMAIN m.heap
           /\ \A e \in m.table : e.at = hash_ptr(e.ptr, m.capacity)
           /\ m.size = Cardinality(m.table)
           /\ m.table \subseteq [ptr : Address, at : 0..m.capacity - 1]
           /\ IsFiniteSet(DOMAIN m.heap)
<1>1. m \in Memory /\ m.table = Buckets(DOMAIN m.heap, m.capacity)
      /\ DOMAIN m.heap \in SUBSET Address /\ m.capacity \in Nat \ {0}
      /\ m.size = Cardinality(DOMAIN m.heap)
    BY DEF Exact, ExactFor, Memory
<1> QED
    BY <1>1, BucketsIn, AddressesFinite DEF Registered
=============================================================================
