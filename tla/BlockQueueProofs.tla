-------------------------- MODULE BlockQueueProofs --------------------------
(***************************************************************************)
(* Proofs about BlockQueue for any users, bounds on their queues, step of  *)
(* head_size, table and number of addresses.                               *)
(***************************************************************************)
EXTENDS BlockQueue, AllocatorProofs, SequenceTheorems, FunctionTheorems

USE DEF queue

(* What one step of Next is, named action by action. *)
LEMMA NextCases ==
    ASSUME Next
    PROVE  \/ allocator_end
           \/ \E u \in Users :
                 \/ Fill(u) \/ Calloc(u) \/ FreeBlock(u)
                 \/ PushGrow(u) \/ PushCopy(u)
                 \/ Begin(u) \/ PeekCopy(u) \/ PopCopy(u) \/ PopClear(u)
                 \/ PopLast(u) \/ PopShrink(u)
                 \/ Discard(u) \/ FreeSlot(u) \/ FreeBlocks(u)
BY DEF Next, Use

-----------------------------------------------------------------------------
(* Who owns memory.  The cells of a user hold its pointers: its block, its  *)
(* slots and, last, its array.                                              *)

Cells(u) == 0..MaxBlocks[u] + 1
ArrayCell(u) == MaxBlocks[u] + 1

Pointers == [u \in Users |-> [i \in Cells(u) |->
                IF i = ArrayCell(u) THEN Array(u) ELSE data[u][i]]]

(* Each piece of memory has one owner. *)
Owned(h, P) ==
    /\ \A u \in Users : \A i \in Cells(u) : P[u][i] \in DOMAIN h \cup {NULL}
    /\ \A u, v \in Users : \A i \in Cells(u), j \in Cells(v) :
          P[u][i] = P[v][j] /\ P[u][i] # NULL => u = v /\ i = j
    /\ \A a \in DOMAIN h : \E u \in Users : \E i \in Cells(u) : P[u][i] = a

Value(h, p) == IF p = NULL THEN NoData ELSE h[p]

(* Where a pointer is replaced and the others are left alone, memory still  *)
(* has one owner and only one value changes.                                *)
LEMMA Replacing ==
    ASSUME NEW h \in Heap, NEW P, Owned(h, P), NEW g, NEW Q,
           NEW u \in Users, NEW i \in Cells(u), NEW x \in Contained,
           Replaced(h, P[u][i], g, Q[u][i], x),
           \A v \in Users : \A j \in Cells(v) : v # u \/ j # i => Q[v][j] = P[v][j]
    PROVE  /\ Owned(g, Q) /\ Value(g, Q[u][i]) = x
           /\ \A v \in Users : \A j \in Cells(v) :
                 v # u \/ j # i => Value(g, Q[v][j]) = Value(h, P[v][j])
<1> DEFINE p == P[u][i]
           q == Q[u][i]
           d == Without(h, p)
<1>0. DOMAIN h \subseteq Address /\ NULL \notin Address /\ NULL \notin DOMAIN h
    BY HeapIs DEF NULL, Address
<1>1. /\ d \in Heap /\ DOMAIN d = DOMAIN h \ {p}
      /\ \A a \in DOMAIN h \ {p} : d[a] = h[a]
    BY HeapOps
<1>2. /\ q # NULL => q \in Address /\ q \notin DOMAIN d
      /\ q = NULL => x = NoData
      /\ DOMAIN g = (IF q = NULL THEN DOMAIN d ELSE DOMAIN d \cup {q})
      /\ q # NULL => g[q] = x
      /\ \A a \in DOMAIN d : g[a] = d[a]
    <2>1. CASE q = NULL /\ g = d /\ x = NoData
        BY <2>1
    <2>2. CASE q \in Address \ (DOMAIN h \ {p}) /\ g = With(d, q, x)
        <3> HIDE DEF p, q, d
        <3>1. /\ DOMAIN With(d, q, x) = DOMAIN d \cup {q}
              /\ With(d, q, x)[q] = x
              /\ \A a \in DOMAIN d \ {q} : With(d, q, x)[a] = d[a]
            BY DEF With
        <3> QED BY <1>0, <1>1, <2>2, <3>1
    <2> QED BY <2>1, <2>2 DEF Replaced
<1> HIDE DEF p, q, d
<1>3. ASSUME NEW v \in Users, NEW j \in Cells(v), v # u \/ j # i
      PROVE  /\ Q[v][j] = P[v][j]
             /\ P[v][j] # NULL => P[v][j] \in DOMAIN d
             /\ Value(g, Q[v][j]) = Value(h, P[v][j])
    <2>1. Q[v][j] = P[v][j]
        BY <1>3
    <2>2. P[v][j] # NULL => P[v][j] \in DOMAIN h /\ P[v][j] # p
        BY <1>3 DEF Owned, p
    <2> QED BY <1>1, <1>2, <2>1, <2>2 DEF Value
<1>4. Value(g, q) = x
    BY <1>2 DEF Value
<1>5. Owned(g, Q)
    <2>1. ASSUME NEW v \in Users, NEW j \in Cells(v)
          PROVE  Q[v][j] \in DOMAIN g \cup {NULL}
        <3>1. CASE v = u /\ j = i BY <1>2, <3>1 DEF q
        <3>2. CASE v # u \/ j # i BY <1>2, <1>3, <3>2
        <3> QED BY <3>1, <3>2
    <2>2. ASSUME NEW v \in Users, NEW j \in Cells(v), v # u \/ j # i
          PROVE  Q[v][j] # NULL => Q[v][j] # q
        BY <1>2, <1>3, <2>2
    <2>3. ASSUME NEW v \in Users, NEW w \in Users, NEW j \in Cells(v), NEW k \in Cells(w),
                 Q[v][j] = Q[w][k], Q[v][j] # NULL
          PROVE  v = w /\ j = k
        <3>1. CASE v = u /\ j = i BY <2>2, <2>3, <3>1 DEF q
        <3>2. CASE w = u /\ k = i BY <2>2, <2>3, <3>2 DEF q
        <3>3. CASE ~(v = u /\ j = i) /\ ~(w = u /\ k = i)
            <4>1. Q[v][j] = P[v][j] /\ Q[w][k] = P[w][k]
                BY <1>3, <3>3
            <4>2. P[v][j] = P[w][k] /\ P[v][j] # NULL
                BY <2>3, <4>1
            <4>3. \A y, z \in Users : \A a \in Cells(y), b \in Cells(z) :
                      P[y][a] = P[z][b] /\ P[y][a] # NULL => y = z /\ a = b
                BY DEF Owned
            <4> QED BY <4>2, <4>3
        <3> QED BY <3>1, <3>2, <3>3
    <2>4. ASSUME NEW a \in DOMAIN g
          PROVE  \E v \in Users : \E j \in Cells(v) : Q[v][j] = a
        <3>1. CASE q # NULL /\ a = q BY <3>1 DEF q
        <3>2. CASE a \in DOMAIN d
            <4>1. PICK v \in Users : \E j \in Cells(v) : P[v][j] = a
                BY <1>1, <3>2 DEF Owned
            <4>2. PICK j \in Cells(v) : P[v][j] = a
                BY <4>1
            <4>3. v # u \/ j # i
                BY <1>1, <3>2, <4>2 DEF p
            <4> QED BY <1>3, <4>2, <4>3
        <3> QED BY <1>2, <3>1, <3>2
    <2> QED BY <2>1, <2>3, <2>4 DEF Owned
<1> QED
    BY <1>3, <1>4, <1>5 DEF q

-----------------------------------------------------------------------------
(* The inductive invariant. *)

Typed ==
    /\ Exact(mem)
    /\ blocks \in [Users -> Pointer] /\ lcopy \in [Users -> Pointer]
    /\ bsize \in [Users -> Nat] /\ head_size \in [Users -> Nat]
    /\ DOMAIN data = Users /\ \A u \in Users : data[u] \in [Slot(u) -> Pointer]
    /\ pc \in [Users -> [op : Step, n : Nat]] /\ ended \in BOOLEAN

(* The slot an operation works on. *)
Steps(u) ==
    LET op == pc[u].op
        n  == pc[u].n
    IN /\ bsize[u] <= MaxBlocks[u] /\ (op # "free" => bsize[u] <= head_size[u])
       /\ op = "push" => n = bsize[u] + 1 /\ n <= MaxBlocks[u] /\ n <= head_size[u]
       /\ op = "peek" => n = 1 /\ bsize[u] >= 1
       /\ op = "pop" => 1 <= n /\ n <= bsize[u]
       /\ op = "clear" => 1 <= n /\ n < bsize[u]
       /\ op \in {"last", "shrink"} => n = bsize[u] + 1 /\ bsize[u] >= 2
       /\ op = "free" => 1 <= n /\ n <= bsize[u] + 1

(* The slots that have no data: those behind the last, and the one that an  *)
(* operation has cleared.                                                   *)
Cleared(u) ==
    LET op == pc[u].op
        n  == pc[u].n
    IN /\ \A k \in Slot(u) : k > bsize[u] => data[u][k] = NULL
       /\ op \in {"pop", "peek"} => data[u][n - 1] = NULL
       /\ op = "shrink" => data[u][bsize[u]] = NULL
       /\ op = "free" => \A k \in 1..n - 1 : data[u][k] = NULL

(* The last slot in use. *)
Last(u) == IF InCall(u, "push") THEN pc[u].n ELSE bsize[u]

Values(u) ==
    /\ \A n \in Slot(u) : Contents(data[u][n]) \in Data \cup {NoData}
    /\ Last(u) > 0 => /\ Value(mem.heap, Array(u)) \in Nat
                      /\ Value(mem.heap, Array(u)) >= Last(u)

QueueInv ==
    /\ Typed /\ \A u \in Users : Steps(u) /\ Cleared(u)
    /\ ended => \A u \in Users : pc[u] = Idle
    /\ ~ended => Owned(mem.heap, Pointers) /\ \A u \in Users : Values(u)

-----------------------------------------------------------------------------
(* What one step does to one pointer. *)

(* Data pointer n of u becomes q, which holds x. *)
DataEffect(u, n, q, x) ==
    /\ Exact(mem') /\ q \in Pointer
    /\ data' = [data EXCEPT ![u][n] = q]
    /\ Replaced(mem.heap, data[u][n], mem'.heap, q, x)

LEMMA Replacements ==
    ASSUME NEW h, NEW p, NEW g, NEW q, NEW x, Replaced(h, p, g, q, x)
    PROVE  q \in Pointer
BY DEF Replaced, Pointer

LEMMA GotReplaced ==
    ASSUME NEW m, NEW p, NEW x, NEW S, NEW o \in Got(S, x), Does(m, p, o, x)
    PROVE  /\ Exact(o.mem) /\ Replaced(m.heap, p, o.mem.heap, o.ptr, x)
           /\ o.ptr \in Pointer
BY Replacements DEF Does, Got, Failed, Outcome

LEMMA CellTypes ==
    ASSUME QueueInv, NEW u \in Users, NEW n \in Slot(u)
    PROVE  /\ MaxBlocks[u] \in Nat /\ n \in Cells(u) /\ n # ArrayCell(u)
           /\ ArrayCell(u) \in Cells(u)
           /\ data[u][n] \in Pointer /\ Pointers[u][n] = data[u][n]
           /\ Pointers[u][ArrayCell(u)] = Array(u)
           /\ ~ended => /\ data[u][n] \in DOMAIN mem.heap \cup {NULL}
                        /\ Array(u) \in DOMAIN mem.heap \cup {NULL}
                        /\ Contents(data[u][n]) \in Data \cup {NoData}
<1>1. MaxBlocks[u] \in Nat
    BY QueueAssumption
<1>2. n \in Cells(u) /\ n # ArrayCell(u) /\ ArrayCell(u) \in Cells(u)
    BY <1>1 DEF Slot, Cells, ArrayCell
<1>3. data[u][n] \in Pointer
    BY DEF QueueInv, Typed
<1>4. Pointers[u][n] = data[u][n] /\ Pointers[u][ArrayCell(u)] = Array(u)
    BY <1>2 DEF Pointers
<1>5. ~ended => /\ data[u][n] \in DOMAIN mem.heap \cup {NULL}
                /\ Array(u) \in DOMAIN mem.heap \cup {NULL}
    <2>1. ~ended => \A i \in Cells(u) : Pointers[u][i] \in DOMAIN mem.heap \cup {NULL}
        BY DEF QueueInv, Owned
    <2> QED BY <1>2, <1>4, <2>1
<1>6. ~ended => Contents(data[u][n]) \in Data \cup {NoData}
    BY DEF QueueInv, Values
<1> QED
    BY <1>1, <1>2, <1>3, <1>4, <1>5, <1>6

LEMMA Freed ==
    ASSUME QueueInv, ~ended, NEW u \in Users, NEW n \in Slot(u), qblock_free(u, n)
    PROVE  DataEffect(u, n, NULL, NoData)
<1> DEFINE o == Outcome(alc_free(mem, data[u][n]), NULL)
<1>1. Exact(mem) /\ data[u][n] \in Address \cup {NULL}
    BY CellTypes DEF QueueInv, Typed, Pointer
<1>2. Does(mem, data[u][n], o, NoData)
    BY <1>1, FreeDoes
<1>3. o.ptr = NULL /\ NULL \in Pointer
    BY DEF Outcome, Pointer
<1>4. mem' = o.mem /\ data' = [data EXCEPT ![u][n] = NULL]
    BY <1>3 DEF qblock_free, Assign
<1> HIDE DEF o
<1>5. Exact(o.mem) /\ Replaced(mem.heap, data[u][n], o.mem.heap, o.ptr, NoData)
    BY <1>2 DEF Does
<1> QED
    BY <1>3, <1>4, <1>5 DEF DataEffect

LEMMA Reallocated ==
    ASSUME QueueInv, ~ended, NEW u \in Users, NEW n \in Slot(u),
           NEW x \in Data \cup {NoData},
           NEW o \in Got(alc_realloc(mem, data[u][n], x), x), Assign(u, n, o)
    PROVE  DataEffect(u, n, o.ptr, x)
<1>1. Exact(mem) /\ data[u][n] \in DOMAIN mem.heap \cup {NULL} /\ x \in Contained
    BY CellTypes DEF QueueInv, Typed, Contained
<1>2. o \in alc_realloc(mem, data[u][n], x)
    BY DEF Got
<1>3. Does(mem, data[u][n], o, x)
    BY <1>1, <1>2, ReallocDoes
<1> QED
    BY <1>3, GotReplaced DEF Assign, DataEffect

LEMMA Copied ==
    ASSUME QueueInv, ~ended, NEW u \in Users, NEW n \in Slot(u), NEW k \in Slot(u),
           data[u][n] = NULL, CopyTo(u, n, data[u][k])
    PROVE  \E q : DataEffect(u, n, q, Contents(data[u][k]))
<1> DEFINE x == Contents(data[u][k])
<1>1. x \in Data \cup {NoData}
    BY CellTypes
<1>2. CASE x = NoData
    <2>1. mem' = mem /\ data' = [data EXCEPT ![u][n] = NULL] /\ Exact(mem)
        BY <1>2 DEF CopyTo, QueueInv, Typed
    <2>2. Replaced(mem.heap, data[u][n], mem'.heap, NULL, NoData)
        BY <2>1, WithoutNull DEF Replaced
    <2>3. NULL \in Pointer
        BY DEF Pointer
    <2> QED BY <1>2, <2>1, <2>2, <2>3 DEF DataEffect
<1>3. CASE x # NoData
    <2>1. PICK o \in Got(alc_realloc(mem, data[u][n], x), x) : Assign(u, n, o)
        BY <1>3 DEF CopyTo
    <2> HIDE DEF x
    <2>2. DataEffect(u, n, o.ptr, x)
        BY <1>1, <2>1, Reallocated
    <2> QED BY <2>2 DEF x
<1> QED
    BY <1>2, <1>3

(* After it, that pointer holds x and every other what it has held. *)
LEMMA DataStep ==
    ASSUME QueueInv, ~ended, NEW u \in Users, NEW n \in Slot(u), NEW q,
           NEW x \in Data \cup {NoData}, DataEffect(u, n, q, x),
           \A v \in Users : Array(v)' = Array(v)
    PROVE  /\ DOMAIN data' = Users /\ \A v \in Users : data'[v] \in [Slot(v) -> Pointer]
           /\ \A v \in Users : \A k \in Slot(v) :
                 data'[v][k] = IF v = u /\ k = n THEN q ELSE data[v][k]
           /\ Owned(mem.heap, Pointers)'
           /\ \A v \in Users : \A k \in Slot(v) :
                 Contents(data[v][k])' = IF v = u /\ k = n THEN x ELSE Contents(data[v][k])
           /\ \A v \in Users : Value(mem.heap, Array(v))' = Value(mem.heap, Array(v))
<1>1. /\ DOMAIN data = Users /\ \A v \in Users : data[v] \in [Slot(v) -> Pointer]
      /\ mem.heap \in Heap /\ Owned(mem.heap, Pointers) /\ x \in Contained
    BY ExactMemory DEF QueueInv, Typed, Contained
<1>2. /\ DOMAIN data' = Users
      /\ \A v \in Users : v # u => data'[v] = data[v]
      /\ data'[u] = [data[u] EXCEPT ![n] = q]
    BY <1>1 DEF DataEffect
<1>3. \A v \in Users : \A k \in Slot(v) :
          data'[v][k] = IF v = u /\ k = n THEN q ELSE data[v][k]
    BY <1>1, <1>2
<1>4. \A v \in Users : data'[v] \in [Slot(v) -> Pointer]
    BY <1>1, <1>2 DEF DataEffect
<1>5. ASSUME NEW v \in Users, NEW j \in Cells(v)
      PROVE  Pointers'[v][j] = IF v = u /\ j = n THEN q ELSE Pointers[v][j]
    <2>1. MaxBlocks[v] \in Nat /\ n # ArrayCell(u)
        BY CellTypes, QueueAssumption
    <2>2. CASE j = ArrayCell(v)
        BY <2>1, <2>2 DEF Pointers
    <2>3. CASE j # ArrayCell(v)
        <3>1. j \in Slot(v)
            BY <2>1, <2>3 DEF Cells, Slot, ArrayCell
        <3> QED BY <1>3, <2>3, <3>1 DEF Pointers
    <2> QED BY <2>2, <2>3
<1>6. n \in Cells(u) /\ Pointers[u][n] = data[u][n]
    BY CellTypes
<1> DEFINE P == Pointers
           Q == Pointers'
           h == mem.heap
           g == mem'.heap
<1>7. /\ Replaced(h, P[u][n], g, Q[u][n], x)
      /\ \A v \in Users : \A j \in Cells(v) : v # u \/ j # n => Q[v][j] = P[v][j]
    BY <1>5, <1>6 DEF DataEffect
<1> HIDE DEF P, Q, h, g
<1>8. /\ Owned(g, Q) /\ Value(g, Q[u][n]) = x
      /\ \A v \in Users : \A j \in Cells(v) :
            v # u \/ j # n => Value(g, Q[v][j]) = Value(h, P[v][j])
    <2>1. h \in Heap /\ Owned(h, P)
        BY <1>1 DEF P, h
    <2>2. x \in Contained /\ n \in Cells(u)
        BY <1>1, <1>6
    <2> QED BY <1>7, <2>1, <2>2, Replacing, Z3
<1>9. ASSUME NEW v \in Users, NEW k \in Slot(v)
      PROVE  Contents(data[v][k])' = IF v = u /\ k = n THEN x ELSE Contents(data[v][k])
    <2>1. k \in Cells(v) /\ P[v][k] = data[v][k] /\ Q[v][k] = data'[v][k]
        BY <1>3, <1>5, CellTypes DEF P, Q
    <2>2. Value(g, Q[v][k]) = IF v = u /\ k = n THEN x ELSE Value(h, P[v][k])
        BY <1>8, <2>1
    <2> QED BY <2>1, <2>2 DEF Value, Contents, g, h
<1>10. ASSUME NEW v \in Users
       PROVE  Value(mem.heap, Array(v))' = Value(mem.heap, Array(v))
    <2>1. 0 \in Slot(v)
        BY QueueAssumption DEF Slot
    <2>2. ArrayCell(v) \in Cells(v) /\ (v # u \/ ArrayCell(v) # n) /\ P[v][ArrayCell(v)] = Array(v)
        BY <2>1, CellTypes DEF P
    <2>3. Q[v][ArrayCell(v)] = Array(v)'
        BY <1>5, <2>2 DEF P, Q
    <2>4. Value(g, Q[v][ArrayCell(v)]) = Value(h, P[v][ArrayCell(v)])
        BY <1>8, <2>2
    <2> QED BY <2>2, <2>3, <2>4 DEF Value, g, h
<1> QED
    BY <1>2, <1>3, <1>4, <1>8, <1>9, <1>10 DEF Q, g

(* The same where it is the array of u that is replaced. *)
LEMMA ArrayStep ==
    ASSUME QueueInv, ~ended, NEW u \in Users, NEW x \in Contained, data' = data,
           Replaced(mem.heap, Array(u), mem'.heap, Array(u)', x),
           \A v \in Users : v # u => Array(v)' = Array(v)
    PROVE  /\ Owned(mem.heap, Pointers)'
           /\ \A v \in Users : \A k \in Slot(v) : Contents(data[v][k])' = Contents(data[v][k])
           /\ \A v \in Users : Value(mem.heap, Array(v))'
                                 = IF v = u THEN x ELSE Value(mem.heap, Array(v))
<1>1. mem.heap \in Heap /\ Owned(mem.heap, Pointers)
    BY ExactMemory DEF QueueInv, Typed
<1> DEFINE P == Pointers
           Q == Pointers'
           h == mem.heap
           g == mem'.heap
           i == ArrayCell(u)
<1>2. ASSUME NEW v \in Users
      PROVE  /\ ArrayCell(v) \in Cells(v)
             /\ P[v][ArrayCell(v)] = Array(v) /\ Q[v][ArrayCell(v)] = Array(v)'
    BY QueueAssumption DEF Pointers, Cells, ArrayCell
<1>3. ASSUME NEW v \in Users, NEW j \in Cells(v), v # u \/ j # i
      PROVE  Q[v][j] = P[v][j]
    BY <1>3 DEF Pointers
<1>4. ASSUME NEW v \in Users, NEW k \in Slot(v)
      PROVE  /\ k \in Cells(v) /\ k # ArrayCell(v)
             /\ P[v][k] = data[v][k] /\ Q[v][k] = data[v][k]
    <2>1. k \in Cells(v) /\ k # ArrayCell(v)
        BY CellTypes
    <2> QED BY <2>1 DEF Pointers
<1> HIDE DEF P, Q, h, g, i
<1>5. /\ Owned(g, Q) /\ Value(g, Q[u][i]) = x
      /\ \A v \in Users : \A j \in Cells(v) :
            v # u \/ j # i => Value(g, Q[v][j]) = Value(h, P[v][j])
    <2>1. i \in Cells(u) /\ Replaced(h, P[u][i], g, Q[u][i], x)
        BY <1>2 DEF i, g, h
    <2>2. h \in Heap /\ Owned(h, P)
        BY <1>1 DEF P, h
    <2> QED BY <1>3, <2>1, <2>2, Replacing
<1>6. ASSUME NEW v \in Users, NEW k \in Slot(v)
      PROVE  Contents(data[v][k])' = Contents(data[v][k])
    <2>1. Value(g, Q[v][k]) = Value(h, P[v][k])
        BY <1>4, <1>5 DEF i
    <2> QED BY <1>4, <2>1 DEF Value, Contents, g, h
<1>7. ASSUME NEW v \in Users
      PROVE  Value(mem.heap, Array(v))' = IF v = u THEN x ELSE Value(mem.heap, Array(v))
    <2>1. Value(g, Q[v][ArrayCell(v)])
            = IF v = u THEN x ELSE Value(h, P[v][ArrayCell(v)])
        BY <1>2, <1>5 DEF i
    <2> QED BY <1>2, <2>1 DEF Value, g, h
<1> QED
    BY <1>5, <1>6, <1>7 DEF Q, g

-----------------------------------------------------------------------------
(* The invariant holds after a step of u that changes one data pointer. *)
LEMMA DataKeeps ==
    ASSUME QueueInv, ~ended, NEW u \in Users, NEW n \in Slot(u), NEW q,
           NEW x \in Data \cup {NoData}, DataEffect(u, n, q, x),
           UNCHANGED <<head_size, ended>>,
           blocks' \in [Users -> Pointer], lcopy' \in [Users -> Pointer],
           bsize' \in [Users -> Nat], pc' \in [Users -> [op : Step, n : Nat]],
           \A v \in Users : Array(v)' = Array(v),
           \A v \in Users : v # u => pc'[v] = pc[v] /\ bsize'[v] = bsize[v],
           Last(u)' <= Last(u), Steps(u)', Cleared(u)'
    PROVE  QueueInv'
<1>1. /\ DOMAIN data' = Users /\ \A v \in Users : data'[v] \in [Slot(v) -> Pointer]
      /\ \A v \in Users : \A k \in Slot(v) :
            data'[v][k] = IF v = u /\ k = n THEN q ELSE data[v][k]
      /\ Owned(mem.heap, Pointers)'
      /\ \A v \in Users : \A k \in Slot(v) :
            Contents(data[v][k])' = IF v = u /\ k = n THEN x ELSE Contents(data[v][k])
      /\ \A v \in Users : Value(mem.heap, Array(v))' = Value(mem.heap, Array(v))
    BY DataStep
<1>2. /\ DOMAIN data = Users /\ \A v \in Users : data[v] \in [Slot(v) -> Pointer]
      /\ bsize \in [Users -> Nat] /\ pc \in [Users -> [op : Step, n : Nat]]
      /\ \A v \in Users : Steps(v) /\ Cleared(v) /\ Values(v)
      /\ head_size \in [Users -> Nat] /\ ended' = ended /\ ended \in BOOLEAN
    BY DEF QueueInv, Typed
<1>3. Typed'
    BY <1>1, <1>2 DEF Typed, DataEffect
<1>4. ASSUME NEW v \in Users PROVE Steps(v)' /\ Cleared(v)'
    <2>1. CASE v = u BY <2>1
    <2>2. CASE v # u
        <3>1. Steps(v)'
            BY <1>2, <2>2 DEF Steps
        <3>2. data'[v] = data[v]
            BY <1>1, <1>2, <2>2
        <3>3. Cleared(v)'
            BY <1>2, <2>2, <3>2 DEF Cleared
        <3> QED BY <3>1, <3>3
    <2> QED BY <2>1, <2>2
<1>5. ASSUME NEW v \in Users PROVE Values(v)'
    <2>1. \A k \in Slot(v) : Contents(data[v][k])' \in Data \cup {NoData}
        BY <1>1, <1>2 DEF Values
    <2>2. Last(v)' <= Last(v) /\ Last(v)' \in Nat /\ Last(v) \in Nat
        BY <1>2 DEF Last, InCall
    <2>3. Last(v) > 0 => /\ Value(mem.heap, Array(v)) \in Nat
                         /\ Value(mem.heap, Array(v)) >= Last(v)
        BY <1>2 DEF Values
    <2>4. Value(mem.heap, Array(v))' = Value(mem.heap, Array(v))
        BY <1>1
    <2> HIDE DEF Array, Value, Last
    <2>5. Last(v)' > 0 => /\ Value(mem.heap, Array(v))' \in Nat
                          /\ Value(mem.heap, Array(v))' >= Last(v)'
        BY <2>2, <2>3, <2>4
    <2> QED BY <2>1, <2>5 DEF Values
<1> QED
    BY <1>1, <1>2, <1>3, <1>4, <1>5 DEF QueueInv

(* And after one that changes its array. *)
LEMMA ArrayKeeps ==
    ASSUME QueueInv, ~ended, NEW u \in Users, NEW x \in Contained,
           Replaced(mem.heap, Array(u), mem'.heap, Array(u)', x), Exact(mem'),
           UNCHANGED <<data, ended>>,
           blocks' \in [Users -> Pointer], lcopy' \in [Users -> Pointer],
           bsize' \in [Users -> Nat], head_size' \in [Users -> Nat],
           pc' \in [Users -> [op : Step, n : Nat]],
           \A v \in Users : v # u => /\ Array(v)' = Array(v) /\ pc'[v] = pc[v]
                                     /\ bsize'[v] = bsize[v] /\ head_size'[v] = head_size[v],
           Last(u)' > 0 => x \in Nat /\ x >= Last(u)',
           Steps(u)', Cleared(u)'
    PROVE  QueueInv'
<1>1. /\ Owned(mem.heap, Pointers)'
      /\ \A v \in Users : \A k \in Slot(v) : Contents(data[v][k])' = Contents(data[v][k])
      /\ \A v \in Users : Value(mem.heap, Array(v))'
                            = IF v = u THEN x ELSE Value(mem.heap, Array(v))
    BY ArrayStep
<1>2. /\ DOMAIN data = Users /\ \A v \in Users : data[v] \in [Slot(v) -> Pointer]
      /\ \A v \in Users : Steps(v) /\ Cleared(v) /\ Values(v)
      /\ ended' = ended /\ ended \in BOOLEAN
    BY DEF QueueInv, Typed
<1>3. Typed'
    BY <1>2 DEF Typed
<1>4. ASSUME NEW v \in Users PROVE Steps(v)' /\ Cleared(v)'
    <2>1. CASE v = u BY <2>1
    <2>2. CASE v # u
        BY <1>2, <2>2 DEF Steps, Cleared
    <2> QED BY <2>1, <2>2
<1>5. ASSUME NEW v \in Users PROVE Values(v)'
    <2>1. \A k \in Slot(v) : Contents(data[v][k])' \in Data \cup {NoData}
        BY <1>1, <1>2 DEF Values
    <2>2. CASE v = u
        BY <1>1, <2>1, <2>2 DEF Values
    <2>3. CASE v # u
        <3>1. Last(v)' = Last(v)
            BY <2>3 DEF Last, InCall
        <3>2. Value(mem.heap, Array(v))' = Value(mem.heap, Array(v))
            BY <1>1, <2>3
        <3> QED BY <1>2, <2>1, <3>1, <3>2 DEF Values
    <2> QED BY <2>2, <2>3
<1> QED
    BY <1>1, <1>2, <1>3, <1>4, <1>5 DEF QueueInv

-----------------------------------------------------------------------------
LEMMA Basics ==
    ASSUME QueueInv, NEW u \in Users
    PROVE  /\ bsize[u] \in Nat /\ head_size[u] \in Nat /\ MaxBlocks[u] \in Nat
           /\ pc[u] \in [op : Step, n : Nat] /\ 0 \in Slot(u)
           /\ bsize \in [Users -> Nat] /\ head_size \in [Users -> Nat]
           /\ pc \in [Users -> [op : Step, n : Nat]]
           /\ blocks \in [Users -> Pointer] /\ lcopy \in [Users -> Pointer]
           /\ DOMAIN data = Users /\ data[u] \in [Slot(u) -> Pointer]
           /\ Steps(u) /\ Cleared(u)
           /\ Ready(u) => ~ended /\ pc[u].op = "idle"
           /\ pc[u].op # "idle" => ~ended
BY QueueAssumption DEF QueueInv, Typed, Slot, Ready, Idle, At

LEMMA OneSlot ==
    ASSUME QueueInv, NEW u \in Users, NEW n \in Slot(u), NEW q, NEW x,
           DataEffect(u, n, q, x)
    PROVE  \A k \in Slot(u) : data'[u][k] = IF k = n THEN q ELSE data[u][k]
BY DEF DataEffect, QueueInv, Typed

(* The block of the user. *)
LEMMA BlockSteps ==
    ASSUME QueueInv, NEW u \in Users, Fill(u) \/ Calloc(u) \/ FreeBlock(u)
    PROVE  /\ \E x \in Data \cup {NoData} : \E q : DataEffect(u, 0, q, x)
           /\ QueueInv'
<1>1. /\ ~ended /\ pc[u].op = "idle" /\ 0 \in Slot(u) /\ Ready(u)
      /\ UNCHANGED <<queue, pc, ended>>
    BY Basics DEF Fill, Calloc, FreeBlock
<1>2. \E x \in Data \cup {NoData} : \E q : DataEffect(u, 0, q, x)
    <2>1. CASE Fill(u)
        <3>1. PICK x \in Data \cup {NoData} :
                  \E o \in Got(alc_realloc(mem, data[u][0], x), x) : Assign(u, 0, o)
            BY <2>1 DEF Fill
        <3> QED BY <1>1, <3>1, Reallocated
    <2>2. CASE Calloc(u)
        <3>1. PICK x \in Data : \E o \in Got(alc_calloc(mem, x), x) : Assign(u, 0, o)
            BY <2>2 DEF Calloc
        <3>2. PICK o \in Got(alc_calloc(mem, x), x) : Assign(u, 0, o)
            BY <3>1
        <3>3. Exact(mem) /\ x \in Contained /\ data[u][0] = NULL
            BY <2>2 DEF QueueInv, Typed, Contained, Calloc
        <3>4. o \in alc_calloc(mem, x)
            BY DEF Got
        <3>5. Does(mem, NULL, o, x)
            BY <3>3, <3>4, CallocDoes
        <3>6. DataEffect(u, 0, o.ptr, x)
            BY <3>2, <3>3, <3>5, GotReplaced DEF Assign, DataEffect
        <3> QED BY <3>6
    <2>3. CASE FreeBlock(u)
        BY <1>1, <2>3, Freed DEF FreeBlock
    <2> QED BY <2>1, <2>2, <2>3
<1>3. ASSUME NEW x \in Data \cup {NoData}, NEW q, DataEffect(u, 0, q, x)
      PROVE  QueueInv'
    <2>1. \A k \in Slot(u) : data'[u][k] = IF k = 0 THEN q ELSE data[u][k]
        BY <1>1, <1>3, OneSlot
    <2>2. Steps(u)' /\ Last(u)' <= Last(u)
        BY <1>1, Basics DEF Steps, Last, InCall
    <2>3. Cleared(u)'
        BY <1>1, <2>1, Basics DEF Cleared
    <2>4. \A v \in Users : Array(v)' = Array(v)
        BY <1>1 DEF Array, InCall
    <2> QED BY <1>1, <1>3, <2>2, <2>3, <2>4, Basics, DataKeeps
<1> QED
    BY <1>2, <1>3

(* push_block: head_size has room for one more block, also where it has not *)
(* come down with the array.                                                *)
LEMMA GrowStep ==
    ASSUME QueueInv, NEW u \in Users, PushGrow(u)
    PROVE  /\ QueueInv' /\ GrownHead(u) \in Nat
           /\ \/ UNCHANGED <<mem, pc>>
              \/ /\ pc' = [pc EXCEPT ![u] = At("push", bsize[u] + 1)]
                 /\ Replaced(mem.heap, Array(u), mem'.heap, Array(u)', GrownHead(u))
                 /\ \A v \in Users : v # u => Array(v)' = Array(v)
<1> DEFINE x == GrownHead(u)
<1>1. /\ ~ended /\ pc[u].op = "idle" /\ bsize[u] < MaxBlocks[u]
      /\ head_size' = [head_size EXCEPT ![u] = x]
      /\ UNCHANGED <<blocks, bsize, data, ended>>
    BY Basics DEF PushGrow
<1>2. x \in Nat /\ x >= bsize[u] + 1 /\ x >= head_size[u]
    BY <1>1, Basics, QueueAssumption DEF GrownHead, Steps
<1> HIDE DEF x
<1>3. x # NoData /\ x \in Contained
    BY <1>2, QueueAssumption DEF Contained
<1>4. PICK o \in alc_realloc(mem, blocks[u], x) :
          /\ mem' = o.mem
          /\ IF o.ptr = NULL THEN UNCHANGED <<lcopy, pc>>
             ELSE /\ lcopy' = [lcopy EXCEPT ![u] = o.ptr]
                  /\ Goto(u, "push", bsize[u] + 1)
    BY DEF PushGrow, x
<1>5. Exact(mem) /\ blocks[u] \in DOMAIN mem.heap \cup {NULL} /\ Array(u) = blocks[u]
    BY <1>1, Basics, CellTypes DEF QueueInv, Typed, Array, InCall
<1>6. Does(mem, blocks[u], o, x)
    BY <1>3, <1>5, ReallocDoes
<1>7. head_size' \in [Users -> Nat] /\ head_size'[u] = x
    BY <1>1, <1>2, Basics
<1>8. CASE o.ptr = NULL
    <2>1. mem' = mem /\ UNCHANGED <<lcopy, pc>>
        <3>1. ~Replaced(mem.heap, blocks[u], o.mem.heap, o.ptr, x)
            BY <1>3, <1>8 DEF Replaced, NULL, Address
        <3> QED BY <1>4, <1>6, <1>8, <3>1 DEF Does, Failed, Outcome
    <2>2. \A v \in Users : Array(v)' = Array(v) /\ Last(v)' = Last(v)
        BY <1>1, <2>1 DEF Array, Last, InCall
    <2>3. Pointers' = Pointers
        BY <1>1, <2>2 DEF Pointers
    <2>4. \A v \in Users : Cleared(v)' /\ (~ended => Values(v)')
        BY <1>1, <2>1, <2>2 DEF QueueInv, Cleared, Values, Contents, Value
    <2>5. \A v \in Users : Steps(v)'
        BY <1>1, <1>2, <1>7, <2>1, Basics DEF Steps
    <2>6. Typed'
        BY <1>1, <1>7, <2>1 DEF QueueInv, Typed
    <2> QED BY <1>1, <1>2, <2>1, <2>3, <2>4, <2>5, <2>6 DEF QueueInv, x
<1>9. CASE o.ptr # NULL
    <2>1. /\ lcopy' = [lcopy EXCEPT ![u] = o.ptr]
          /\ pc' = [pc EXCEPT ![u] = At("push", bsize[u] + 1)]
        BY <1>4, <1>9 DEF Goto
    <2>2. Exact(o.mem) /\ Replaced(mem.heap, blocks[u], o.mem.heap, o.ptr, x)
        BY <1>6, <1>9 DEF Does, Failed, Outcome
    <2>3. /\ pc'[u].op = "push" /\ pc'[u].n = bsize[u] + 1
          /\ pc' \in [Users -> [op : Step, n : Nat]]
        BY <2>1, Basics DEF At, Step
    <2>4. lcopy'[u] = o.ptr /\ lcopy' \in [Users -> Pointer]
        BY <2>1, <2>2, Replacements, Basics
    <2>5. Array(u)' = o.ptr
        BY <2>3, <2>4 DEF Array, InCall
    <2>6. \A v \in Users : v # u => /\ Array(v)' = Array(v) /\ pc'[v] = pc[v]
                                    /\ bsize'[v] = bsize[v] /\ head_size'[v] = head_size[v]
        BY <1>1, <2>1, Basics DEF Array, InCall
    <2>7. Last(u)' > 0 => x \in Nat /\ x >= Last(u)'
        BY <1>2, <2>3 DEF Last, InCall
    <2>8. Steps(u)' /\ Cleared(u)'
        BY <1>1, <1>2, <1>7, <2>3, Basics DEF Steps, Cleared
    <2>9. Replaced(mem.heap, Array(u), mem'.heap, Array(u)', x) /\ Exact(mem')
        BY <1>4, <1>5, <2>2, <2>5
    <2>10. QueueInv'
        BY <1>1, <1>3, <1>7, <2>3, <2>4, <2>6, <2>7, <2>8, <2>9, Basics, ArrayKeeps
    <2> QED BY <1>2, <2>1, <2>6, <2>9, <2>10 DEF x
<1> QED
    BY <1>8, <1>9

-----------------------------------------------------------------------------
LEMMA Went ==
    ASSUME QueueInv, NEW u \in Users, NEW op \in Step, NEW n \in Nat,
           pc' = [pc EXCEPT ![u] = At(op, n)]
    PROVE  /\ pc'[u].op = op /\ pc'[u].n = n
           /\ pc' \in [Users -> [op : Step, n : Nat]]
           /\ \A v \in Users : v # u => pc'[v] = pc[v]
BY Basics DEF At

(* push_block, once the array is there: the slot behind the last one has no *)
(* data yet.                                                                *)
LEMMA PushStep ==
    ASSUME QueueInv, NEW u \in Users, PushCopy(u)
    PROVE  /\ \E q : DataEffect(u, pc[u].n, q, Contents(data[u][0]))
           /\ \A v \in Users : Array(v)' = Array(v)
           /\ QueueInv'
<1> DEFINE n == pc[u].n
<1>1. /\ pc[u].op = "push" /\ ~ended /\ n = bsize[u] + 1
      /\ n <= MaxBlocks[u] /\ n <= head_size[u]
    BY Basics DEF PushCopy, InCall, Steps
<1>2. n \in Slot(u) /\ 0 \in Slot(u) /\ n > 0
    BY <1>1, Basics DEF Slot
<1>3. data[u][n] = NULL
    BY <1>1, <1>2, Basics DEF Cleared
<1>4. PICK q : DataEffect(u, n, q, Contents(data[u][0]))
    BY <1>1, <1>2, <1>3, Copied DEF PushCopy
<1>5. /\ blocks' = [blocks EXCEPT ![u] = lcopy[u]]
      /\ lcopy' = [lcopy EXCEPT ![u] = NULL]
      /\ bsize' = [bsize EXCEPT ![u] = @ + 1]
      /\ pc' = [pc EXCEPT ![u] = At("idle", 0)]
      /\ UNCHANGED <<head_size, ended>>
    BY DEF PushCopy, Idle
<1>6. /\ pc'[u].op = "idle" /\ pc' \in [Users -> [op : Step, n : Nat]]
      /\ \A v \in Users : v # u => pc'[v] = pc[v]
    BY <1>5, Went DEF Step
<1>7. /\ blocks' \in [Users -> Pointer] /\ lcopy' \in [Users -> Pointer]
      /\ bsize' \in [Users -> Nat] /\ bsize'[u] = n
      /\ \A v \in Users : v # u => bsize'[v] = bsize[v]
    BY <1>1, <1>5, Basics DEF Pointer
<1>8. \A v \in Users : Array(v)' = Array(v)
    BY <1>1, <1>5, <1>6, Basics DEF Array, InCall
<1>9. \A k \in Slot(u) : data'[u][k] = IF k = n THEN q ELSE data[u][k]
    BY <1>2, <1>4, OneSlot
<1>10. Last(u)' <= Last(u) /\ Steps(u)'
    BY <1>1, <1>5, <1>6, <1>7, Basics DEF Last, InCall, Steps
<1>11. Cleared(u)'
    <2>1. ASSUME NEW k \in Slot(u), k > bsize'[u] PROVE data'[u][k] = NULL
        <3>1. k # n /\ k > bsize[u]
            BY <1>1, <1>7, <2>1, Basics DEF Slot
        <3> QED BY <1>9, <3>1, Basics DEF Cleared
    <2> QED BY <1>6, <2>1 DEF Cleared
<1>12. Contents(data[u][0]) \in Data \cup {NoData}
    BY <1>1, <1>2, CellTypes
<1>13. QueueInv'
    BY <1>1, <1>2, <1>4, <1>5, <1>6, <1>7, <1>8, <1>10, <1>11, <1>12, DataKeeps
<1> QED
    BY <1>4, <1>8, <1>13

(* The steps of pop_block, peek_block and queue_free change one data        *)
(* pointer of u, and neither its array nor its size.                        *)
MoveTo(u, op, k) == /\ pc' = [pc EXCEPT ![u] = At(op, k)]
                    /\ UNCHANGED <<queue, ended>>

(* Where u may go once slot n has the pointer q. *)
CanGo(u, n, q, op, k) ==
    /\ pc[u].op # "push" /\ op # "push" /\ n <= bsize[u]
    /\ pc[u].op = "free" => op = "free"
    /\ op = "peek" => k = 1 /\ bsize[u] >= 1 /\ n = 0 /\ q = NULL
    /\ op = "pop" => 1 <= k /\ k <= bsize[u] /\ n = k - 1 /\ q = NULL
    /\ op = "clear" => 1 <= k /\ k < bsize[u]
    /\ op = "last" => k = bsize[u] + 1 /\ bsize[u] >= 2
    /\ op = "shrink" => k = bsize[u] + 1 /\ bsize[u] >= 2 /\ n = bsize[u] /\ q = NULL
    /\ op = "free" => /\ 1 <= k /\ k <= bsize[u] + 1
                      /\ k = 1 \/ (k = n + 1 /\ q = NULL /\ pc[u] = At("free", n))

LEMMA SlotSteps ==
    ASSUME QueueInv, ~ended, NEW u \in Users, NEW n \in Slot(u), NEW q,
           NEW x \in Data \cup {NoData}, DataEffect(u, n, q, x),
           NEW op \in Step, NEW k \in Nat, MoveTo(u, op, k), CanGo(u, n, q, op, k)
    PROVE  (\A v \in Users : Array(v)' = Array(v)) /\ QueueInv'
<1>1. /\ pc'[u].op = op /\ pc'[u].n = k
      /\ pc' \in [Users -> [op : Step, n : Nat]]
      /\ \A v \in Users : v # u => pc'[v] = pc[v]
    BY Went DEF MoveTo
<1>2. \A v \in Users : Array(v)' = Array(v)
    BY <1>1, Basics DEF Array, InCall, MoveTo, CanGo
<1>3. \A j \in Slot(u) : data'[u][j] = IF j = n THEN q ELSE data[u][j]
    BY OneSlot
<1>4. n \in Nat /\ bsize[u] \in Nat /\ bsize[u] <= MaxBlocks[u] /\ Last(u)' <= Last(u)
    BY <1>1, Basics DEF Slot, Last, InCall, Steps, MoveTo, CanGo
<1>5. Steps(u)'
    BY <1>1, <1>4, Basics DEF Steps, MoveTo, CanGo
<1>6. Cleared(u)'
    <2>1. ASSUME NEW j \in Slot(u), j > bsize[u] PROVE data'[u][j] = NULL
        <3>1. j # n
            BY <1>4, <2>1 DEF CanGo
        <3> QED BY <1>3, <2>1, <3>1, Basics DEF Cleared
    <2>2. op \in {"pop", "peek"} => data'[u][k - 1] = NULL
        BY <1>3 DEF CanGo
    <2>3. op = "shrink" => data'[u][bsize[u]] = NULL
        BY <1>3 DEF CanGo
    <2>4. ASSUME op = "free", NEW j \in 1..k - 1 PROVE data'[u][j] = NULL
        <3>1. j \in Slot(u)
            BY <1>4, <2>4, Basics DEF Slot, CanGo
        <3>2. pc[u].op = "free" /\ n = pc[u].n /\ k - 1 = n /\ q = NULL
            BY <1>4, <2>4 DEF At, CanGo
        <3>3. j = n \/ j \in 1..n - 1
            BY <1>4, <2>4, <3>2
        <3>4. j \in 1..n - 1 => data[u][j] = NULL
            BY <3>2, Basics DEF Cleared
        <3> QED BY <1>3, <3>1, <3>2, <3>3, <3>4
    <2> QED BY <1>1, <2>1, <2>2, <2>3, <2>4 DEF Cleared, MoveTo
<1>7. QueueInv'
    BY <1>1, <1>2, <1>4, <1>5, <1>6, Basics, DataKeeps DEF MoveTo
<1> QED
    BY <1>2, <1>7

(* The effect of each of these steps, and the step it goes on to. *)
LEMMA BeginStep ==
    ASSUME QueueInv, NEW u \in Users, Begin(u)
    PROVE  /\ DataEffect(u, 0, NULL, NoData)
           /\ \E op \in {"pop", "peek"} : MoveTo(u, op, 1)
           /\ ~ended /\ pc[u].op = "idle" /\ bsize[u] > 0
           /\ (\A v \in Users : Array(v)' = Array(v)) /\ QueueInv'
<1>1. ~ended /\ pc[u].op = "idle" /\ bsize[u] > 0 /\ 0 \in Slot(u)
    BY Basics DEF Begin
<1>2. DataEffect(u, 0, NULL, NoData)
    BY <1>1, Freed DEF Begin
<1>3. PICK op \in {"pop", "peek"} : MoveTo(u, op, 1)
    BY DEF Begin, Goto, MoveTo
<1>4. CanGo(u, 0, NULL, op, 1) /\ op \in Step
    BY <1>1, Basics DEF CanGo, Step
<1>5. (\A v \in Users : Array(v)' = Array(v)) /\ QueueInv'
    BY <1>1, <1>2, <1>3, <1>4, SlotSteps
<1> QED
    BY <1>1, <1>2, <1>3, <1>5

LEMMA PeekStep ==
    ASSUME QueueInv, NEW u \in Users, PeekCopy(u)
    PROVE  /\ \E q : DataEffect(u, 0, q, Contents(data[u][1]))
           /\ MoveTo(u, "idle", 0) /\ bsize[u] >= 1 /\ ~ended /\ 1 \in Slot(u)
           /\ (\A v \in Users : Array(v)' = Array(v)) /\ QueueInv'
<1>1. /\ pc[u].op = "peek" /\ ~ended /\ bsize[u] >= 1 /\ bsize[u] <= MaxBlocks[u]
      /\ pc[u].n - 1 = 0 /\ 0 \in Slot(u)
    BY Basics DEF PeekCopy, InCall, Steps
<1>2. 1 \in Slot(u) /\ data[u][0] = NULL
    BY <1>1, Basics DEF Slot, Cleared
<1>3. PICK q : DataEffect(u, 0, q, Contents(data[u][1]))
    BY <1>1, <1>2, Copied DEF PeekCopy
<1>4. MoveTo(u, "idle", 0)
    BY DEF PeekCopy, MoveTo, Idle
<1>5. Contents(data[u][1]) \in Data \cup {NoData}
    BY <1>1, <1>2, CellTypes
<1>6. CanGo(u, 0, q, "idle", 0) /\ "idle" \in Step
    BY <1>1, Basics DEF CanGo, Step
<1>7. (\A v \in Users : Array(v)' = Array(v)) /\ QueueInv'
    BY <1>1, <1>3, <1>4, <1>5, <1>6, SlotSteps
<1> QED
    BY <1>1, <1>2, <1>3, <1>4, <1>7

(* Where pop_block goes after the copy into slot n - 1. *)
LEMMA CopyStep ==
    ASSUME QueueInv, NEW u \in Users, PopCopy(u)
    PROVE  LET n == pc[u].n
           IN /\ \E q : DataEffect(u, n - 1, q, Contents(data[u][n]))
              /\ pc[u].op = "pop" /\ ~ended /\ n \in Slot(u) /\ n - 1 \in Slot(u)
              /\ 1 <= n /\ n <= bsize[u]
              /\ \/ MoveTo(u, "free", 1) /\ n = 1 /\ bsize[u] = 1
                 \/ MoveTo(u, "clear", n) /\ n < bsize[u]
                 \/ MoveTo(u, "last", n + 1) /\ n = bsize[u] /\ bsize[u] >= 2
              /\ (\A v \in Users : Array(v)' = Array(v)) /\ QueueInv'
<1> DEFINE n == pc[u].n
<1>1. /\ pc[u].op = "pop" /\ ~ended /\ n \in Nat /\ 1 <= n /\ n <= bsize[u]
      /\ bsize[u] \in Nat /\ bsize[u] <= MaxBlocks[u]
    BY Basics DEF PopCopy, InCall, Steps
<1>2. n \in Slot(u) /\ n - 1 \in Slot(u) /\ data[u][n - 1] = NULL
    BY <1>1, Basics DEF Slot, Cleared
<1>3. PICK q : DataEffect(u, n - 1, q, Contents(data[u][n]))
    BY <1>1, <1>2, Copied DEF PopCopy
<1>4. \/ MoveTo(u, "free", 1) /\ n = 1 /\ bsize[u] = 1
      \/ MoveTo(u, "clear", n) /\ n < bsize[u]
      \/ MoveTo(u, "last", n + 1) /\ n = bsize[u] /\ bsize[u] >= 2
    <2>1. MoveTo(u, AfterCopy(u, n).op, AfterCopy(u, n).n)
        BY DEF PopCopy, AfterCopy, MoveTo, At
    <2> HIDE DEF n
    <2>2. \/ AfterCopy(u, n) = At("free", 1) /\ n = 1 /\ bsize[u] = 1
          \/ AfterCopy(u, n) = At("clear", n) /\ n < bsize[u]
          \/ AfterCopy(u, n) = At("last", n + 1) /\ n = bsize[u] /\ bsize[u] >= 2
        BY <1>1 DEF AfterCopy
    <2> QED BY <2>1, <2>2 DEF At
<1>5. Contents(data[u][n]) \in Data \cup {NoData} /\ n - 1 <= bsize[u]
    BY <1>1, <1>2, CellTypes
<1> HIDE DEF n
<1>6. (\A v \in Users : Array(v)' = Array(v)) /\ QueueInv'
    <2>1. CASE MoveTo(u, "free", 1) /\ n = 1 /\ bsize[u] = 1
        <3>1. CanGo(u, n - 1, q, "free", 1) /\ "free" \in Step /\ 1 \in Nat
            BY <1>1, <1>5, <2>1 DEF CanGo, Step, n
        <3> QED BY <1>1, <1>2, <1>3, <1>5, <2>1, <3>1, SlotSteps
    <2>2. CASE MoveTo(u, "clear", n) /\ n < bsize[u]
        <3>1. CanGo(u, n - 1, q, "clear", n) /\ "clear" \in Step /\ n \in Nat
            BY <1>1, <1>5, <2>2 DEF CanGo, Step, n
        <3> QED BY <1>1, <1>2, <1>3, <1>5, <2>2, <3>1, SlotSteps
    <2>3. CASE MoveTo(u, "last", n + 1) /\ n = bsize[u] /\ bsize[u] >= 2
        <3>1. CanGo(u, n - 1, q, "last", n + 1) /\ "last" \in Step /\ n + 1 \in Nat
            BY <1>1, <1>5, <2>3 DEF CanGo, Step, n
        <3> QED BY <1>1, <1>2, <1>3, <1>5, <2>3, <3>1, SlotSteps
    <2> QED BY <1>4, <2>1, <2>2, <2>3
<1> QED
    BY <1>1, <1>2, <1>3, <1>4, <1>6 DEF n

LEMMA ClearStep ==
    ASSUME QueueInv, NEW u \in Users, PopClear(u)
    PROVE  LET n == pc[u].n
           IN /\ DataEffect(u, n, NULL, NoData) /\ MoveTo(u, "pop", n + 1)
              /\ pc[u].op = "clear" /\ ~ended /\ n \in Slot(u)
              /\ 1 <= n /\ n < bsize[u]
              /\ (\A v \in Users : Array(v)' = Array(v)) /\ QueueInv'
<1> DEFINE n == pc[u].n
<1>1. /\ pc[u].op = "clear" /\ ~ended /\ n \in Nat /\ 1 <= n /\ n < bsize[u]
      /\ bsize[u] \in Nat /\ bsize[u] <= MaxBlocks[u]
    BY Basics DEF PopClear, InCall, Steps
<1>2. n \in Slot(u)
    BY <1>1, Basics DEF Slot
<1>3. DataEffect(u, n, NULL, NoData) /\ MoveTo(u, "pop", n + 1)
    BY <1>1, <1>2, Freed DEF PopClear, MoveTo, Goto
<1> HIDE DEF n
<1>4. n + 1 \in Nat /\ 1 <= n + 1 /\ n + 1 <= bsize[u] /\ n = (n + 1) - 1 /\ n <= bsize[u]
    BY <1>1
<1>5. CanGo(u, n, NULL, "pop", n + 1) /\ "pop" \in Step
    BY <1>1, <1>4 DEF CanGo, Step
<1>6. (\A v \in Users : Array(v)' = Array(v)) /\ QueueInv'
    BY <1>1, <1>2, <1>3, <1>4, <1>5, SlotSteps
<1> QED
    BY <1>1, <1>2, <1>3, <1>6 DEF n

LEMMA LastStep ==
    ASSUME QueueInv, NEW u \in Users, PopLast(u)
    PROVE  LET n == bsize[u]
           IN /\ DataEffect(u, n, NULL, NoData) /\ MoveTo(u, "shrink", n + 1)
              /\ pc[u].op = "last" /\ pc[u].n = n + 1
              /\ ~ended /\ n \in Slot(u) /\ n >= 2
              /\ (\A v \in Users : Array(v)' = Array(v)) /\ QueueInv'
<1> DEFINE n == bsize[u]
<1>1. /\ pc[u].op = "last" /\ ~ended /\ n \in Nat /\ n >= 2 /\ n <= MaxBlocks[u]
      /\ pc[u].n = n + 1
    BY Basics DEF PopLast, InCall, Steps
<1>2. n \in Slot(u) /\ n + 1 \in Nat
    BY <1>1, Basics DEF Slot
<1>3. DataEffect(u, n, NULL, NoData) /\ MoveTo(u, "shrink", n + 1)
    BY <1>1, <1>2, Freed DEF PopLast, MoveTo, Goto
<1>4. CanGo(u, n, NULL, "shrink", n + 1) /\ "shrink" \in Step
    BY <1>1 DEF CanGo, Step
<1> HIDE DEF n
<1>5. (\A v \in Users : Array(v)' = Array(v)) /\ QueueInv'
    BY <1>1, <1>2, <1>3, <1>4, SlotSteps
<1> QED
    BY <1>1, <1>2, <1>3, <1>5 DEF n

LEMMA FreeSlotStep ==
    ASSUME QueueInv, NEW u \in Users, FreeSlot(u)
    PROVE  LET n == pc[u].n
           IN /\ DataEffect(u, n, NULL, NoData) /\ MoveTo(u, "free", n + 1)
              /\ pc[u].op = "free" /\ ~ended /\ n \in Slot(u) /\ 1 <= n
              /\ (\A v \in Users : Array(v)' = Array(v)) /\ QueueInv'
<1> DEFINE n == pc[u].n
<1>1. /\ pc[u].op = "free" /\ ~ended /\ n \in Nat /\ 1 <= n /\ n <= bsize[u]
      /\ bsize[u] \in Nat /\ bsize[u] <= MaxBlocks[u]
    BY Basics DEF FreeSlot, InCall, Steps
<1>2. n \in Slot(u) /\ pc[u] = At("free", n)
    BY <1>1, Basics DEF Slot, At
<1>3. DataEffect(u, n, NULL, NoData) /\ MoveTo(u, "free", n + 1)
    BY <1>1, <1>2, Freed DEF FreeSlot, MoveTo, Goto
<1> HIDE DEF n
<1>4. n + 1 \in Nat /\ 1 <= n + 1 /\ n + 1 <= bsize[u] + 1 /\ n <= bsize[u]
    BY <1>1
<1>5. CanGo(u, n, NULL, "free", n + 1) /\ "free" \in Step
    BY <1>1, <1>2, <1>4 DEF CanGo, Step
<1>6. (\A v \in Users : Array(v)' = Array(v)) /\ QueueInv'
    BY <1>1, <1>2, <1>3, <1>4, <1>5, SlotSteps
<1> QED
    BY <1>1, <1>2, <1>3, <1>6 DEF n

(* pop_block: the array without its last slot, whose data has been freed. *)
LEMMA ShrinkStep ==
    ASSUME QueueInv, NEW u \in Users, PopShrink(u)
    PROVE  /\ Replaced(mem.heap, Array(u), mem'.heap, Array(u)', bsize[u] - 1)
           /\ pc[u].op = "shrink" /\ ~ended /\ bsize[u] >= 2
           /\ \A v \in Users : v # u => Array(v)' = Array(v)
           /\ pc' = [pc EXCEPT ![u] = At("idle", 0)] /\ data' = data
           /\ bsize' = [bsize EXCEPT ![u] = @ - 1] /\ ended' = ended
           /\ QueueInv'
<1> DEFINE x == bsize[u] - 1
<1>1. /\ pc[u].op = "shrink" /\ ~ended /\ bsize[u] \in Nat /\ bsize[u] >= 2
      /\ bsize[u] <= MaxBlocks[u] /\ bsize[u] <= head_size[u] /\ 0 \in Slot(u)
    BY Basics DEF PopShrink, InCall, Steps
<1>2. /\ pc' = [pc EXCEPT ![u] = At("idle", 0)]
      /\ bsize' = [bsize EXCEPT ![u] = @ - 1]
      /\ UNCHANGED <<lcopy, head_size, data, ended>>
    BY DEF PopShrink, Idle
<1>3. PICK o \in Got(alc_realloc(mem, blocks[u], x), x) :
          mem' = o.mem /\ blocks' = [blocks EXCEPT ![u] = o.ptr]
    BY DEF PopShrink
<1>4. x \in Nat /\ x \in Contained /\ x >= 1
    BY <1>1 DEF Contained
<1>5. Exact(mem) /\ blocks[u] \in DOMAIN mem.heap \cup {NULL} /\ Array(u) = blocks[u]
    BY <1>1, CellTypes DEF QueueInv, Typed, Array, InCall
<1>6. bsize'[u] = x /\ bsize' \in [Users -> Nat] /\ \A v \in Users : v # u => bsize'[v] = bsize[v]
    BY <1>2, <1>4, Basics
<1> HIDE DEF x
<1>7. Does(mem, blocks[u], o, x)
    BY <1>4, <1>5, ReallocDoes DEF Got
<1>8. Exact(o.mem) /\ Replaced(mem.heap, blocks[u], o.mem.heap, o.ptr, x) /\ o.ptr \in Pointer
    BY <1>7, GotReplaced
<1>9. /\ pc'[u].op = "idle" /\ pc' \in [Users -> [op : Step, n : Nat]]
      /\ \A v \in Users : v # u => pc'[v] = pc[v]
    BY <1>2, Went DEF Step
<1>10. /\ blocks'[u] = o.ptr /\ blocks' \in [Users -> Pointer]
       /\ \A v \in Users : v # u => blocks'[v] = blocks[v]
    BY <1>3, <1>8, Basics
<1>11. Array(u)' = o.ptr /\ \A v \in Users : v # u => Array(v)' = Array(v)
    BY <1>2, <1>9, <1>10 DEF Array, InCall
<1>12. Replaced(mem.heap, Array(u), mem'.heap, Array(u)', x) /\ Exact(mem')
    BY <1>3, <1>5, <1>8, <1>11
<1>13. Last(u)' = x
    BY <1>6, <1>9 DEF Last, InCall
<1>14. Steps(u)'
    BY <1>1, <1>2, <1>6, <1>9, Basics DEF Steps, x
<1>15. Cleared(u)'
    <2>1. ASSUME NEW k \in Slot(u), k > bsize'[u] PROVE data'[u][k] = NULL
        <3>1. k = bsize[u] \/ k > bsize[u]
            BY <1>1, <1>6, <2>1, Basics DEF Slot, x
        <3> QED BY <1>1, <1>2, <3>1, Basics DEF Cleared
    <2> QED BY <1>9, <2>1 DEF Cleared
<1>16. QueueInv'
    BY <1>1, <1>2, <1>4, <1>6, <1>9, <1>10, <1>11, <1>12, <1>13, <1>14, <1>15,
       Basics, ArrayKeeps
<1> QED
    BY <1>1, <1>2, <1>11, <1>12, <1>16 DEF x

(* queue_free: the slots are freed first, and the array with the size last. *)
LEMMA DiscardStep ==
    ASSUME QueueInv, NEW u \in Users, Discard(u)
    PROVE  /\ pc[u].op = "idle" /\ pc' = [pc EXCEPT ![u] = At("free", 1)]
           /\ UNCHANGED <<mem, blocks, lcopy, bsize, data, ended>>
           /\ QueueInv'
<1>1. /\ ~ended /\ pc[u].op = "idle" /\ pc' = [pc EXCEPT ![u] = At("free", 1)]
      /\ head_size' = [head_size EXCEPT ![u] = 0]
      /\ UNCHANGED <<mem, blocks, lcopy, bsize, data, ended>>
    BY Basics DEF Discard, Goto
<1>2. /\ pc'[u].op = "free" /\ pc'[u].n = 1 /\ pc' \in [Users -> [op : Step, n : Nat]]
      /\ \A v \in Users : v # u => pc'[v] = pc[v] /\ head_size'[v] = head_size[v]
      /\ head_size' \in [Users -> Nat]
    <2>1. "free" \in Step /\ 1 \in Nat
        BY DEF Step
    <2>2. /\ pc'[u].op = "free" /\ pc'[u].n = 1 /\ pc' \in [Users -> [op : Step, n : Nat]]
          /\ \A v \in Users : v # u => pc'[v] = pc[v]
        BY <1>1, <2>1, Went
    <2>3. head_size \in [Users -> Nat]
        BY DEF QueueInv, Typed
    <2> QED BY ONLY <1>1, <2>2, <2>3
<1>3. \A v \in Users : Array(v)' = Array(v) /\ Last(v)' = Last(v)
    BY <1>1, <1>2 DEF Array, Last, InCall
<1>4. Typed' /\ Pointers' = Pointers
    BY <1>1, <1>2, <1>3 DEF QueueInv, Typed, Pointers
<1>5. \A v \in Users : Values(v)'
    BY <1>1, <1>3 DEF QueueInv, Values, Contents, Value
<1>6. \A v \in Users : Steps(v)' /\ Cleared(v)'
    <2>1. Steps(u)' /\ Cleared(u)'
        BY <1>1, <1>2, Basics DEF Steps, Cleared
    <2>2. ASSUME NEW v \in Users, v # u PROVE Steps(v)' /\ Cleared(v)'
        BY <1>1, <1>2, <2>2, Basics DEF Steps, Cleared
    <2> QED BY <2>1, <2>2
<1> QED
    BY <1>1, <1>4, <1>5, <1>6 DEF QueueInv

LEMMA FreeBlocksStep ==
    ASSUME QueueInv, NEW u \in Users, FreeBlocks(u)
    PROVE  /\ Replaced(mem.heap, Array(u), mem'.heap, Array(u)', NoData)
           /\ pc[u].op = "free" /\ ~ended /\ data' = data /\ ended' = ended
           /\ pc' = [pc EXCEPT ![u] = At("idle", 0)]
           /\ bsize' = [bsize EXCEPT ![u] = 0]
           /\ \A v \in Users : v # u => Array(v)' = Array(v)
           /\ QueueInv'
<1>1. /\ pc[u].op = "free" /\ ~ended /\ bsize[u] \in Nat /\ bsize[u] <= MaxBlocks[u]
      /\ 0 \in Slot(u) /\ pc[u].n = bsize[u] + 1
    BY Basics DEF FreeBlocks, InCall, Steps
<1>2. /\ pc' = [pc EXCEPT ![u] = At("idle", 0)] /\ mem' = alc_free(mem, blocks[u])
      /\ blocks' = [blocks EXCEPT ![u] = NULL] /\ bsize' = [bsize EXCEPT ![u] = 0]
      /\ UNCHANGED <<lcopy, head_size, data, ended>>
    BY DEF FreeBlocks, Idle
<1>3. Exact(mem) /\ blocks[u] \in Address \cup {NULL} /\ Array(u) = blocks[u]
    BY <1>1, Basics DEF QueueInv, Typed, Array, InCall, Pointer
<1>4. Exact(mem') /\ mem'.heap = Without(mem.heap, blocks[u])
    BY <1>2, <1>3, FreeDoes
<1>5. /\ pc'[u].op = "idle" /\ pc' \in [Users -> [op : Step, n : Nat]]
      /\ \A v \in Users : v # u => pc'[v] = pc[v]
    BY <1>2, Went DEF Step
<1>6. /\ blocks'[u] = NULL /\ blocks' \in [Users -> Pointer]
      /\ bsize'[u] = 0 /\ bsize' \in [Users -> Nat]
      /\ \A v \in Users : v # u => blocks'[v] = blocks[v] /\ bsize'[v] = bsize[v]
    BY <1>2, Basics DEF Pointer
<1>7. Array(u)' = NULL /\ \A v \in Users : v # u => Array(v)' = Array(v)
    BY <1>2, <1>5, <1>6 DEF Array, InCall
<1>8. Replaced(mem.heap, Array(u), mem'.heap, Array(u)', NoData)
    BY <1>3, <1>4, <1>7 DEF Replaced
<1>9. Last(u)' = 0 /\ Steps(u)' /\ NoData \in Contained
    BY <1>2, <1>5, <1>6, Basics DEF Last, InCall, Steps, Contained
<1>10. Cleared(u)'
    <2>1. ASSUME NEW k \in Slot(u), k > 0 PROVE data'[u][k] = NULL
        <3>1. k > bsize[u] \/ k \in 1..pc[u].n - 1
            BY <1>1, <2>1, Basics DEF Slot
        <3> QED BY <1>1, <1>2, <3>1, Basics DEF Cleared
    <2> QED BY <1>5, <1>6, <2>1 DEF Cleared
<1>11. QueueInv'
    BY <1>1, <1>2, <1>4, <1>5, <1>6, <1>7, <1>8, <1>9, <1>10, Basics, ArrayKeeps
<1> QED
    BY <1>1, <1>2, <1>7, <1>8, <1>11

-----------------------------------------------------------------------------
LEMMA InvInit == Init => QueueInv
<1> SUFFICES ASSUME Init PROVE QueueInv
    OBVIOUS
<1>1. \A u \in Users : MaxBlocks[u] \in Nat
    BY QueueAssumption
<1>2. Exact(mem) /\ DOMAIN mem.heap = {} /\ NULL \in Pointer
    BY EmptyIsExact DEF Init, Pointer
<1>3. \A u \in Users : pc[u].op = "idle" /\ pc[u].n = 0 /\ pc[u] \in [op : Step, n : Nat]
    BY DEF Init, Idle, At, Step
<1>4. \A u \in Users : Array(u) = NULL /\ Last(u) = 0
    BY <1>3 DEF Init, Array, Last, InCall
<1>5. Typed
    BY <1>2, <1>3 DEF Init, Typed, Slot
<1>6. \A u \in Users : Steps(u) /\ Cleared(u) /\ Values(u)
    BY <1>1, <1>3, <1>4 DEF Init, Steps, Cleared, Values, Contents, Slot
<1>7. \A u \in Users : \A i \in Cells(u) : Pointers[u][i] = NULL
    BY <1>1, <1>4 DEF Init, Pointers, Cells, ArrayCell, Slot
<1>8. Owned(mem.heap, Pointers)
    BY <1>2, <1>7 DEF Owned
<1> QED
    BY <1>5, <1>6, <1>8 DEF QueueInv, Init

LEMMA InvNext == QueueInv /\ [Next]_vars => QueueInv'
<1> SUFFICES ASSUME QueueInv, [Next]_vars PROVE QueueInv'
    OBVIOUS
<1>1. CASE UNCHANGED vars
    BY <1>1 DEF vars, QueueInv, Typed, Steps, Cleared, Values, Last, InCall, Array,
                Contents, Pointers, Owned
<1>2. CASE allocator_end
    <2>1. /\ mem' = alc_gcollect(mem) /\ ended' = TRUE
          /\ UNCHANGED <<queue, data, pc>> /\ \A u \in Users : pc[u] = Idle
        BY <1>2 DEF allocator_end, Ready
    <2>2. Exact(mem')
        BY <2>1, CollectDoes DEF QueueInv, Typed
    <2> QED BY <2>1, <2>2 DEF QueueInv, Typed, Steps, Cleared
<1>3. ASSUME NEW u \in Users, Use(u) PROVE QueueInv'
    BY <1>3, BlockSteps, GrowStep, PushStep, BeginStep, PeekStep, CopyStep, ClearStep,
       LastStep, ShrinkStep, DiscardStep, FreeSlotStep, FreeBlocksStep DEF Use
<1> QED
    BY <1>1, <1>2, <1>3 DEF Next

LEMMA InvAlways == Spec => []QueueInv
BY InvInit, InvNext, PTL DEF Spec

-----------------------------------------------------------------------------
(* The theorems. *)

(* Whatever the users and the allocator do, each field of each struct queue *)
(* and of struct allocator keeps its type, and no entry is outside the      *)
(* buckets of the table.                                                    *)
THEOREM QueueTypes == Spec => []TypeOK
<1>1. QueueInv => TypeOK
    <2> SUFFICES ASSUME QueueInv PROVE TypeOK
        OBVIOUS
    <2>1. mem \in Memory /\ DOMAIN mem.heap \subseteq Address
        BY ExactMemory DEF QueueInv, Typed
    <2>2. /\ DOMAIN mem = {"heap", "table", "size", "capacity"}
          /\ mem.size \in Nat /\ mem.capacity \in Nat
        BY <2>1 DEF Memory
    <2>3. \A a \in DOMAIN mem.heap : mem.heap[a] \in Nat \cup Data \cup {NoData}
        BY <2>1 DEF Memory, Heap, Contained
    <2>4. mem.table \subseteq [ptr : Address, at : 0..mem.capacity - 1]
        BY ExactTable DEF QueueInv, Typed
    <2> QED BY <2>1, <2>2, <2>3, <2>4 DEF QueueInv, Typed, TypeOK
<1> QED
    BY <1>1, InvAlways, PTL

(* The hash table of the allocator is exact through every call of its       *)
(* users: one entry for each piece of memory given out, in the bucket its   *)
(* pointer is looked for in, although resizes move every entry and a resize *)
(* that fails moves none.                                                   *)
THEOREM TableIsExact == Spec => []TableExact
<1>1. QueueInv => TableExact
    BY ExactTable DEF QueueInv, Typed, TableExact
<1> QED
    BY <1>1, InvAlways, PTL

(* No operation of a queue touches a slot behind the end of its array, for  *)
(* any head_size that pop_block and a push_block without memory leave.      *)
THEOREM SlotsStayInBounds == Spec => []SlotsInBounds
<1>1. QueueInv => SlotsInBounds
    <2> SUFFICES ASSUME QueueInv, ~ended, NEW u \in Users, Last(u) > 0
                 PROVE  mem.heap[Array(u)] >= Last(u)
        BY DEF SlotsInBounds, Last
    <2>1. /\ Value(mem.heap, Array(u)) \in Nat
          /\ Value(mem.heap, Array(u)) >= Last(u)
        BY DEF QueueInv, Values
    <2>2. NoData \notin Nat
        BY QueueAssumption
    <2> QED BY <2>1, <2>2 DEF Value
<1> QED
    BY <1>1, InvAlways, PTL

LEMMA OneToOne ==
    ASSUME NEW S, NEW f, DOMAIN f = S, \A s, t \in S : f[s] = f[t] => s = t,
           IsFiniteSet({f[s] : s \in S})
    PROVE  Cardinality({f[s] : s \in S}) = Cardinality(S)
<1> DEFINE T == {f[s] : s \in S}
           g == [s \in S |-> f[s]]
<1>1. g \in [S -> T] /\ \A a, b \in S : g[a] = g[b] => a = b
    OBVIOUS
<1>2. \A t \in T : \E s \in S : g[s] = t
    OBVIOUS
<1> HIDE DEF g, T
<1>3. g \in Bijection(S, T)
    BY <1>1, <1>2, Fun_IsBij
<1>4. ExistsBijection(T, S)
    BY <1>3, Fun_ExistsBijSymmetric DEF ExistsBijection
<1> QED
    BY <1>4, FS_Bijection DEF T

(* Memory has one holder, a data pointer or the array of a queue: a pop     *)
(* that frees and copies every block, a realloc that moves one and a queue  *)
(* that is freed leave nothing in use that is freed, shared or forgotten.   *)
THEOREM MemoryHasOneHolder == Spec => []OneHolder
<1>1. QueueInv => OneHolder
    <2> SUFFICES ASSUME QueueInv, ~ended
                 PROVE  /\ DOMAIN mem.heap = {data[h[1]][h[2]] : h \in Holders}
                                               \cup {Array(u) : u \in Arrays}
                        /\ Cardinality(DOMAIN mem.heap)
                             = Cardinality(Holders) + Cardinality(Arrays)
        BY DEF OneHolder
    <2> DEFINE D == DOMAIN mem.heap
               P == Pointers
               f == [h \in Holders |-> data[h[1]][h[2]]]
               g == [u \in Arrays |-> Array(u)]
               A == {f[h] : h \in Holders}
               B == {g[u] : u \in Arrays}
    <2>1. /\ \A u \in Users : \A i \in Cells(u) : P[u][i] \in D \cup {NULL}
          /\ \A u, v \in Users : \A i \in Cells(u), j \in Cells(v) :
                P[u][i] = P[v][j] /\ P[u][i] # NULL => u = v /\ i = j
          /\ \A a \in D : \E u \in Users : \E i \in Cells(u) : P[u][i] = a
        BY DEF QueueInv, Owned
    <2>2. IsFiniteSet(D) /\ NULL \notin D
        BY ExactTable, WithoutNull DEF QueueInv, Typed
    <2>3. \A u \in Users : \A n \in Slot(u) :
              n \in Cells(u) /\ n # ArrayCell(u) /\ P[u][n] = data[u][n]
        BY CellTypes
    <2>4. \A u \in Users : ArrayCell(u) \in Cells(u) /\ P[u][ArrayCell(u)] = Array(u)
        BY QueueAssumption DEF Pointers, Cells, ArrayCell
    <2>5. \A u \in Users : \A i \in Cells(u) : i = ArrayCell(u) \/ i \in Slot(u)
        BY QueueAssumption DEF Cells, ArrayCell, Slot
    <2>6. /\ \A h \in Holders : /\ h[1] \in Users /\ h[2] \in Slot(h[1])
                                /\ h = <<h[1], h[2]>> /\ data[h[1]][h[2]] # NULL
          /\ \A u \in Users : \A n \in Slot(u) : data[u][n] # NULL => <<u, n>> \in Holders
        BY DEF Holders
    <2> HIDE DEF P, D
    <2>7. A \cup B = D /\ A \cap B = {}
        <3>1. \A h \in Holders : f[h] \in D
            BY <2>1, <2>3, <2>6
        <3>2. \A u \in Arrays : g[u] \in D
            BY <2>1, <2>4 DEF Arrays
        <3>3. ASSUME NEW a \in D PROVE a \in A \cup B
            <4>1. PICK u \in Users : \E i \in Cells(u) : P[u][i] = a
                BY <2>1
            <4>2. PICK i \in Cells(u) : P[u][i] = a
                BY <4>1
            <4>3. CASE i = ArrayCell(u)
                <5>1. Array(u) = a /\ u \in Arrays
                    BY <2>2, <2>4, <4>2, <4>3 DEF Arrays
                <5> QED BY <5>1
            <4>4. CASE i \in Slot(u)
                <5>1. data[u][i] = a /\ <<u, i>> \in Holders
                    BY <2>2, <2>3, <2>6, <4>2, <4>4
                <5>2. f[<<u, i>>] = a
                    BY <5>1
                <5> QED BY <5>1, <5>2
            <4> QED BY <2>5, <4>3, <4>4
        <3>4. \A h \in Holders : \A u \in Arrays : f[h] # g[u]
            <4> SUFFICES ASSUME NEW h \in Holders, NEW u \in Arrays, f[h] = g[u]
                         PROVE  FALSE
                OBVIOUS
            <4>1. /\ P[h[1]][h[2]] = P[u][ArrayCell(u)] /\ P[h[1]][h[2]] # NULL
                  /\ h[1] \in Users /\ h[2] \in Cells(h[1]) /\ h[2] # ArrayCell(h[1])
                  /\ u \in Users
                BY <2>3, <2>4, <2>6 DEF Arrays
            <4>2. h[1] = u /\ h[2] = ArrayCell(u)
                BY <2>1, <2>4, <4>1
            <4> QED BY <4>1, <4>2
        <3> QED BY <3>1, <3>2, <3>3, <3>4
    <2>8. \A h, k \in Holders : f[h] = f[k] => h = k
        <3> SUFFICES ASSUME NEW h \in Holders, NEW k \in Holders, f[h] = f[k]
                     PROVE  h = k
            OBVIOUS
        <3>1. /\ P[h[1]][h[2]] = P[k[1]][k[2]] /\ P[h[1]][h[2]] # NULL
              /\ h[1] \in Users /\ h[2] \in Cells(h[1])
              /\ k[1] \in Users /\ k[2] \in Cells(k[1])
            BY <2>3, <2>6
        <3>2. h[1] = k[1] /\ h[2] = k[2]
            BY <2>1, <3>1
        <3> QED BY <2>6, <3>2
    <2>9. \A u, v \in Arrays : g[u] = g[v] => u = v
        BY <2>1, <2>4 DEF Arrays
    <2>10. IsFiniteSet(A) /\ IsFiniteSet(B)
        BY <2>2, <2>7, FS_Subset
    <2>11. Cardinality(A) = Cardinality(Holders)
        <3> HIDE DEF f
        <3>1. DOMAIN f = Holders
            BY DEF f
        <3> QED BY <2>8, <2>10, <3>1, OneToOne
    <2>12. Cardinality(B) = Cardinality(Arrays)
        <3> HIDE DEF g
        <3>1. DOMAIN g = Arrays
            BY DEF g
        <3> QED BY <2>9, <2>10, <3>1, OneToOne
    <2>13. Cardinality(A \cup B) = Cardinality(A) + Cardinality(B)
        <3> HIDE DEF A, B
        <3>1. Cardinality({}) = 0 /\ Cardinality(A) \in Nat /\ Cardinality(B) \in Nat
            BY <2>10, FS_EmptySet, FS_CardinalityType
        <3>2. Cardinality(A \cup B) = Cardinality(A) + Cardinality(B) - Cardinality({})
            BY <2>7, <2>10, FS_Union
        <3> QED BY <3>1, <3>2
    <2>14. /\ A = {data[h[1]][h[2]] : h \in Holders}
           /\ B = {Array(u) : u \in Arrays}
        OBVIOUS
    <2> HIDE DEF A, B, f, g
    <2> QED BY <2>7, <2>11, <2>12, <2>13, <2>14 DEF D
<1> QED
    BY <1>1, InvAlways, PTL

-----------------------------------------------------------------------------
(* The refinement.  A queue of b blocks that pop_block is moving up has one *)
(* slot that no block is in, m - 1: those in front of slot m have moved.    *)

Up(c, b, m) == [n \in 1..b |-> c[IF n < m THEN n - 1 ELSE n]]

LEMMA UpIsSeq ==
    ASSUME NEW c, NEW b \in Nat, NEW m \in Nat
    PROVE  /\ Up(c, b, m) \in Seq({c[k] : k \in 0..b})
           /\ Len(Up(c, b, m)) = b
           /\ \A n \in 1..b : Up(c, b, m)[n] = c[IF n < m THEN n - 1 ELSE n]
           /\ b = 0 => Up(c, b, m) = <<>>
<1>1. Up(c, b, m) \in [1..b -> {c[k] : k \in 0..b}]
    BY DEF Up
<1>2. Up(c, b, m) \in Seq({c[k] : k \in 0..b}) /\ Len(Up(c, b, m)) = b
    BY <1>1
<1>3. b = 0 => Up(c, b, m) = <<>>
    BY <1>2
<1> QED
    BY <1>2, <1>3 DEF Up

LEMMA UpEmpty ==
    ASSUME NEW c
    PROVE  Up(c, 0, 1) = <<>>
<1> DEFINE b == 0
           m == 1
<1>1. b \in Nat /\ m \in Nat /\ b = 0
    OBVIOUS
<1> HIDE DEF b, m
<1>2. Up(c, b, m) = <<>>
    BY <1>1, UpIsSeq
<1> QED
    BY <1>2 DEF b, m

(* The first m is 1, and the last one b + 1. *)
LEMMA UpEnds ==
    ASSUME NEW c, NEW b \in Nat
    PROVE  /\ \A n \in 1..b : Up(c, b, 1)[n] = c[n]
           /\ \A n \in 1..b : Up(c, b, b + 1)[n] = c[n - 1]
<1>1. ASSUME NEW n \in 1..b
      PROVE  Up(c, b, 1)[n] = c[n] /\ Up(c, b, b + 1)[n] = c[n - 1]
    BY DEF Up
<1> QED
    BY <1>1

(* What is written to that slot is not in the queue. *)
LEMMA UpFree ==
    ASSUME NEW c, NEW d, NEW b \in Nat, NEW m \in Nat \ {0},
           \A k \in 0..b : k # m - 1 => d[k] = c[k]
    PROVE  Up(d, b, m) = Up(c, b, m)
<1>1. ASSUME NEW n \in 1..b
      PROVE  d[IF n < m THEN n - 1 ELSE n] = c[IF n < m THEN n - 1 ELSE n]
    OBVIOUS
<1> QED
    BY <1>1 DEF Up

(* Once it has the contents of the next slot, that one is free instead. *)
LEMMA UpNext ==
    ASSUME NEW c, NEW b \in Nat, NEW m \in Nat \ {0}, c[m - 1] = c[m]
    PROVE  Up(c, b, m + 1) = Up(c, b, m)
<1>1. ASSUME NEW n \in 1..b
      PROVE  c[IF n < m + 1 THEN n - 1 ELSE n] = c[IF n < m THEN n - 1 ELSE n]
    BY n = m \/ n # m
<1> QED
    BY <1>1 DEF Up

LEMMA UpTail ==
    ASSUME NEW c, NEW b \in Nat \ {0}
    PROVE  Tail(Up(c, b, b + 1)) = Up(c, b - 1, 1)
<1> DEFINE s == Up(c, b, b + 1)
           t == Up(c, b - 1, 1)
<1>1. b - 1 \in Nat /\ b + 1 \in Nat
    OBVIOUS
<1>2. /\ s \in Seq({c[k] : k \in 0..b}) /\ Len(s) = b
      /\ \A n \in 1..b : s[n] = c[n - 1]
    <2>1. s \in Seq({c[k] : k \in 0..b}) /\ Len(s) = b
        <3> DEFINE m == b + 1
        <3>1. m \in Nat /\ b \in Nat
            OBVIOUS
        <3> HIDE DEF m
        <3>2. Up(c, b, m) \in Seq({c[k] : k \in 0..b}) /\ Len(Up(c, b, m)) = b
            BY ONLY <3>1, UpIsSeq
        <3> QED BY <3>2 DEF m
    <2>2. b \in Nat
        OBVIOUS
    <2> QED BY <2>1, <2>2, UpEnds
<1>3. /\ t \in Seq({c[k] : k \in 0..b - 1}) /\ Len(t) = b - 1
      /\ \A n \in 1..b - 1 : t[n] = c[n]
    <2>1. t \in Seq({c[k] : k \in 0..b - 1}) /\ Len(t) = b - 1
        <3> DEFINE a == b - 1
                   m == 1
        <3>1. m \in Nat /\ a \in Nat
            BY <1>1
        <3> HIDE DEF a, m
        <3>2. Up(c, a, m) \in Seq({c[k] : k \in 0..a}) /\ Len(Up(c, a, m)) = a
            BY ONLY <3>1, UpIsSeq
        <3> QED BY <3>2 DEF a, m
    <2> QED BY <1>1, <2>1, UpEnds
<1> HIDE DEF s, t
<1>4. s # <<>>
    BY <1>2
<1>5. /\ Tail(s) \in Seq({c[k] : k \in 0..b}) /\ Len(Tail(s)) = b - 1
      /\ \A n \in 1..b - 1 : Tail(s)[n] = s[n + 1]
    BY <1>2, <1>4, HeadTailProperties
<1>6. \A n \in 1..b - 1 : Tail(s)[n] = t[n]
    <2>1. ASSUME NEW n \in 1..b - 1 PROVE Tail(s)[n] = t[n]
        <3>1. n + 1 \in 1..b /\ (n + 1) - 1 = n
            OBVIOUS
        <3> QED BY <1>2, <1>3, <1>5, <3>1
    <2> QED BY <2>1
<1>7. Tail(s) = t
    <2> DEFINE x == Tail(s)
    <2>1. /\ x \in Seq({c[k] : k \in 0..b}) /\ t \in Seq({c[k] : k \in 0..b - 1})
          /\ Len(x) = b - 1 /\ Len(t) = b - 1 /\ \A n \in 1..b - 1 : x[n] = t[n]
        BY <1>3, <1>5, <1>6
    <2> HIDE DEF x
    <2>2. x = [n \in 1..b - 1 |-> x[n]]
        BY ONLY <2>1
    <2>3. t = [n \in 1..b - 1 |-> t[n]]
        BY ONLY <2>1
    <2> QED BY ONLY <2>1, <2>2, <2>3 DEF x
<1> QED
    BY <1>7 DEF s, t

LEMMA UpAppend ==
    ASSUME NEW c, NEW d, NEW b \in Nat, \A k \in 0..b : d[k] = c[k]
    PROVE  Up(d, b + 1, 1) = Append(Up(c, b, 1), d[b + 1])
<1> DEFINE s == Up(c, b, 1)
           t == Up(d, b + 1, 1)
           S == {c[k] : k \in 0..b} \cup {d[b + 1]}
<1>1. /\ s \in Seq({c[k] : k \in 0..b}) /\ Len(s) = b
      /\ \A n \in 1..b : s[n] = c[n]
    <2>1. s \in Seq({c[k] : k \in 0..b}) /\ Len(s) = b
        <3> DEFINE m == 1
        <3>1. m \in Nat
            OBVIOUS
        <3> HIDE DEF m
        <3>2. Up(c, b, m) \in Seq({c[k] : k \in 0..b}) /\ Len(Up(c, b, m)) = b
            BY ONLY <3>1, UpIsSeq
        <3> QED BY <3>2 DEF m
    <2> QED BY <2>1, UpEnds
<1>2. /\ t \in Seq({d[k] : k \in 0..b + 1}) /\ Len(t) = b + 1
      /\ \A n \in 1..b + 1 : t[n] = d[n]
    <2>1. b + 1 \in Nat
        OBVIOUS
    <2> QED BY <2>1, UpIsSeq, UpEnds
<1>3. s \in Seq(S)
    BY <1>1
<1> HIDE DEF s, t
<1>4. /\ Append(s, d[b + 1]) \in Seq(S) /\ Len(Append(s, d[b + 1])) = b + 1
      /\ \A n \in 1..b : Append(s, d[b + 1])[n] = s[n]
      /\ Append(s, d[b + 1])[b + 1] = d[b + 1]
    BY <1>1, <1>3, AppendProperties
<1>5. ASSUME NEW n \in 1..b + 1 PROVE t[n] = Append(s, d[b + 1])[n]
    <2>1. CASE n = b + 1
        BY <1>2, <1>4, <2>1
    <2>2. CASE n \in 1..b
        <3>1. s[n] = c[n] /\ t[n] = d[n] /\ d[n] = c[n] /\ Append(s, d[b + 1])[n] = s[n]
            BY <1>1, <1>2, <1>4, <2>2
        <3> QED BY <3>1
    <2>3. n = b + 1 \/ n \in 1..b
        OBVIOUS
    <2> QED BY <2>1, <2>2, <2>3
<1>6. t = Append(s, d[b + 1])
    BY <1>2, <1>4, <1>5
<1> QED
    BY <1>6 DEF s, t

Cont(u)  == [k \in Slot(u) |-> Contents(data[u][k])]
Front(u) == IF Moving(u) THEN Frontier(u) ELSE 1

(* What the refinement mapping shows of a user. *)
Shows(u) ==
    /\ items[u] = IF InCall(u, "free") THEN <<>>
                  ELSE IF Moving(u) THEN Tail(Up(Cont(u), bsize[u], Front(u)))
                  ELSE Up(Cont(u), bsize[u], 1)
    /\ block[u] = IF Moving(u) \/ InCall(u, "peek")
                  THEN Cont(u)[IF 1 < Front(u) THEN 0 ELSE 1]
                  ELSE Cont(u)[0]

View == /\ items = [v \in Users |-> items[v]] /\ block = [v \in Users |-> block[v]]
        /\ ~ended => \A u \in Users : Shows(u)

LEMMA Views == QueueInv => View
<1> SUFFICES ASSUME QueueInv PROVE View
    OBVIOUS
<1>1. items = [v \in Users |-> items[v]] /\ block = [v \in Users |-> block[v]]
    BY DEF items, block
<1>2. ASSUME NEW u \in Users, ~ended PROVE Shows(u)
    <2>1. /\ bsize[u] \in Nat /\ pc[u].n \in Nat /\ bsize[u] <= MaxBlocks[u]
          /\ MaxBlocks[u] \in Nat
        BY Basics DEF Steps
    <2>2. Moving(u) => Frontier(u) \in Nat
        BY <2>1 DEF Frontier
    <2>3. ASSUME NEW n \in 1..bsize[u]
          PROVE  Contents(data[u][IF Moving(u) /\ n < Frontier(u) THEN n - 1 ELSE n])
                   = Cont(u)[IF n < Front(u) THEN n - 1 ELSE n]
        <3>1. CASE Moving(u) /\ n < Frontier(u)
            <4>1. n - 1 \in Slot(u)
                BY <2>1 DEF Slot
            <4> QED BY <3>1, <4>1 DEF Cont, Front
        <3>2. CASE ~(Moving(u) /\ n < Frontier(u))
            <4>1. n \in Slot(u) /\ ~(n < Front(u))
                BY <2>1, <3>2 DEF Slot, Front
            <4> QED BY <3>2, <4>1 DEF Cont
        <3> QED BY <3>1, <3>2
    <2>4. InQueue(u) = Up(Cont(u), bsize[u], Front(u))
        BY <2>3 DEF InQueue, Up
    <2>5. items[u] = IF InCall(u, "free") THEN <<>>
                     ELSE IF Moving(u) THEN Tail(InQueue(u))
                     ELSE InQueue(u)
        BY <1>2 DEF items
    <2>6. block[u] = IF Moving(u) \/ InCall(u, "peek") THEN InQueue(u)[1]
                     ELSE Contents(data[u][0])
        BY <1>2 DEF block
    <2>7. Contents(data[u][0]) = Cont(u)[0]
        BY Basics DEF Cont
    <2>8. Moving(u) \/ InCall(u, "peek") =>
              InQueue(u)[1] = Cont(u)[IF 1 < Front(u) THEN 0 ELSE 1]
        <3>1. Moving(u) \/ InCall(u, "peek") => bsize[u] >= 1
            BY Basics DEF Steps, Moving, InCall
        <3>2. bsize[u] >= 1 =>
                 Up(Cont(u), bsize[u], Front(u))[1] = Cont(u)[IF 1 < Front(u) THEN 0 ELSE 1]
            BY <2>1 DEF Up
        <3> QED BY <2>4, <3>1, <3>2
    <2>9. ~Moving(u) => Front(u) = 1
        BY DEF Front
    <2> HIDE DEF Moving, InCall, InQueue, Cont, Front, Up
    <2> QED BY <2>4, <2>5, <2>6, <2>7, <2>8, <2>9 DEF Shows
<1> QED
    BY <1>1, <1>2 DEF View

LEMMA ViewsNext == QueueInv' => View'
BY Views, PTL

(* What one step shows of the user u that takes it, and of no other. *)
Alone(u) == \A v \in Users : v # u => /\ pc'[v] = pc[v] /\ bsize'[v] = bsize[v]
                                      /\ Cont(v)' = Cont(v)

Becomes(u, i, b) == /\ items' = [items EXCEPT ![u] = i]
                    /\ block' = [block EXCEPT ![u] = b]

LEMMA OneUser ==
    ASSUME View, View', ~ended, ~ended', NEW u \in Users, Alone(u)
    PROVE  Becomes(u, items'[u], block'[u])
<1>1. ASSUME NEW v \in Users, v # u PROVE items'[v] = items[v] /\ block'[v] = block[v]
    <2>1. Shows(v) /\ Shows(v)'
        BY DEF View
    <2>2. /\ pc'[v] = pc[v] /\ bsize'[v] = bsize[v] /\ Cont(v)' = Cont(v)
        BY <1>1 DEF Alone
    <2>3. /\ InCall(v, "free")' = InCall(v, "free") /\ Moving(v)' = Moving(v)
          /\ InCall(v, "peek")' = InCall(v, "peek")
          /\ Front(v)' = Front(v)
        BY <2>2 DEF InCall, Moving, Front, Frontier
    <2> HIDE DEF items, block, Cont, Front, Moving, InCall
    <2> QED BY <2>1, <2>2, <2>3 DEF Shows
<1>2. /\ items = [v \in Users |-> items[v]] /\ items' = [v \in Users |-> items'[v]]
      /\ block = [v \in Users |-> block[v]] /\ block' = [v \in Users |-> block'[v]]
    BY DEF View
<1> HIDE DEF items, block
<1> QED
    BY <1>1, <1>2 DEF Becomes

LEMMA Stays ==
    ASSUME View, NEW u \in Users, Becomes(u, items[u], block[u])
    PROVE  items' = items /\ block' = block
<1> HIDE DEF items, block
<1>1. items = [v \in Users |-> items[v]] /\ block = [v \in Users |-> block[v]]
    BY DEF View
<1> QED
    BY <1>1 DEF Becomes

(* The contents after a step that changes a data pointer, or an array. *)
LEMMA DataShown ==
    ASSUME QueueInv, ~ended, NEW u \in Users, NEW n \in Slot(u), NEW q,
           NEW x \in Data \cup {NoData}, DataEffect(u, n, q, x),
           \A v \in Users : Array(v)' = Array(v)
    PROVE  /\ \A v \in Users : v # u => Cont(v)' = Cont(v)
           /\ \A k \in Slot(u) : Cont(u)'[k] = IF k = n THEN x ELSE Cont(u)[k]
<1>1. \A v \in Users : \A k \in Slot(v) :
          Contents(data[v][k])' = IF v = u /\ k = n THEN x ELSE Contents(data[v][k])
    BY DataStep
<1> HIDE DEF Contents
<1> QED
    BY <1>1 DEF Cont

LEMMA ArrayShown ==
    ASSUME QueueInv, ~ended, NEW u \in Users, NEW x \in Contained, data' = data,
           Replaced(mem.heap, Array(u), mem'.heap, Array(u)', x),
           \A v \in Users : v # u => Array(v)' = Array(v)
    PROVE  \A v \in Users : Cont(v)' = Cont(v)
<1>1. \A v \in Users : \A k \in Slot(v) : Contents(data[v][k])' = Contents(data[v][k])
    BY ArrayStep
<1> HIDE DEF Contents
<1> QED
    BY <1>1 DEF Cont

(* A step that moves u on to another step of its operation. *)
LEMMA Moves ==
    ASSUME QueueInv, QueueInv', ~ended, NEW u \in Users, NEW n \in Slot(u), NEW q,
           NEW x \in Data \cup {NoData}, DataEffect(u, n, q, x),
           \A v \in Users : Array(v)' = Array(v),
           NEW op \in Step, NEW k \in Nat, MoveTo(u, op, k)
    PROVE  /\ Becomes(u, items'[u], block'[u])
           /\ \A j \in Slot(u) : Cont(u)'[j] = IF j = n THEN x ELSE Cont(u)[j]
           /\ pc'[u].op = op /\ pc'[u].n = k /\ bsize'[u] = bsize[u]
           /\ Shows(u) /\ Shows(u)' /\ View
           /\ \A j \in 0..bsize[u] : j \in Slot(u)
<1>1. /\ \A v \in Users : v # u => Cont(v)' = Cont(v)
      /\ \A j \in Slot(u) : Cont(u)'[j] = IF j = n THEN x ELSE Cont(u)[j]
    BY DataShown
<1>2. /\ pc'[u].op = op /\ pc'[u].n = k /\ bsize' = bsize /\ ~ended'
      /\ \A v \in Users : v # u => pc'[v] = pc[v]
    BY Went DEF MoveTo
<1>3. View /\ View'
    BY Views, ViewsNext
<1>4. Alone(u)
    BY <1>1, <1>2 DEF Alone
<1>5. Becomes(u, items'[u], block'[u])
    BY <1>2, <1>3, <1>4, OneUser
<1>6. Shows(u) /\ Shows(u)'
    BY <1>2, <1>3 DEF View
<1>7. \A j \in 0..bsize[u] : j \in Slot(u)
    BY Basics DEF Slot, Steps
<1> QED
    BY <1>1, <1>2, <1>3, <1>5, <1>6, <1>7

LEMMA SetRefined ==
    ASSUME QueueInv, QueueInv', NEW u \in Users, Fill(u) \/ Calloc(u) \/ FreeBlock(u)
    PROVE  \E x \in Data \cup {NoData} : Becomes(u, items[u], x)
<1>1. PICK x \in Data \cup {NoData} : \E q : DataEffect(u, 0, q, x)
    BY BlockSteps
<1>2. PICK q : DataEffect(u, 0, q, x)
    BY <1>1
<1>3. /\ ~ended /\ pc[u].op = "idle" /\ 0 \in Slot(u) /\ pc[u] = At("idle", 0)
      /\ UNCHANGED <<queue, pc, ended>>
    BY Basics DEF Fill, Calloc, FreeBlock, Ready, Idle
<1>4. \A v \in Users : Array(v)' = Array(v)
    BY <1>3 DEF Array, InCall
<1>5. MoveTo(u, "idle", 0) /\ "idle" \in Step
    BY <1>3, Basics DEF MoveTo, Step
<1>6. /\ Becomes(u, items'[u], block'[u])
      /\ \A j \in Slot(u) : Cont(u)'[j] = IF j = 0 THEN x ELSE Cont(u)[j]
      /\ pc'[u].op = "idle" /\ bsize'[u] = bsize[u] /\ Shows(u) /\ Shows(u)'
      /\ \A j \in 0..bsize[u] : j \in Slot(u)
    BY <1>2, <1>3, <1>4, <1>5, Moves
<1> HIDE DEF items, block
<1>7. /\ items[u] = Up(Cont(u), bsize[u], 1)
      /\ items'[u] = Up(Cont(u)', bsize[u], 1) /\ block'[u] = Cont(u)'[0]
    BY <1>3, <1>6 DEF Shows, InCall, Moving
<1>8. Up(Cont(u)', bsize[u], 1) = Up(Cont(u), bsize[u], 1)
    <2> DEFINE c == Cont(u)
               d == Cont(u)'
               b == bsize[u]
    <2>1. \A j \in 0..b : j # 1 - 1 => d[j] = c[j]
        BY <1>6
    <2>2. b \in Nat
        BY Basics
    <2> HIDE DEF b, c, d
    <2>3. Up(d, b, 1) = Up(c, b, 1)
        BY <2>1, <2>2, UpFree
    <2> QED BY <2>3 DEF b, c, d
<1>9. items'[u] = items[u] /\ block'[u] = x
    BY <1>3, <1>6, <1>7, <1>8
<1> QED
    BY <1>6, <1>9

LEMMA GrowRefined ==
    ASSUME QueueInv, QueueInv', NEW u \in Users, PushGrow(u)
    PROVE  items' = items /\ block' = block
<1>1. /\ ~ended /\ ~ended' /\ pc[u].op = "idle" /\ data' = data /\ bsize' = bsize
      /\ pc' = pc \/ pc' = [pc EXCEPT ![u] = At("push", bsize[u] + 1)]
      /\ \A v \in Users : v # u => pc'[v] = pc[v]
      /\ pc'[u].op \in {"idle", "push"}
    BY Basics DEF PushGrow, Goto, At
<1>2. \A v \in Users : Cont(v)' = Cont(v)
    <2>1. CASE UNCHANGED <<mem, pc>>
        BY <1>1, <2>1 DEF Cont, Contents
    <2>2. CASE /\ Replaced(mem.heap, Array(u), mem'.heap, Array(u)', GrownHead(u))
               /\ \A v \in Users : v # u => Array(v)' = Array(v)
        <3>1. GrownHead(u) \in Contained
            BY GrowStep DEF Contained
        <3> QED BY <1>1, <2>2, <3>1, ArrayShown
    <2> QED BY <2>1, <2>2, GrowStep
<1>3. View /\ View' /\ Alone(u)
    BY <1>1, <1>2, Views, ViewsNext DEF Alone
<1>4. Becomes(u, items'[u], block'[u]) /\ Shows(u) /\ Shows(u)'
    BY <1>1, <1>3, OneUser DEF View
<1> HIDE DEF items, block, Cont
<1>5. items'[u] = items[u] /\ block'[u] = block[u]
    BY <1>1, <1>2, <1>4 DEF Shows, InCall, Moving
<1> QED
    BY <1>3, <1>4, <1>5, Stays

LEMMA PushRefined ==
    ASSUME QueueInv, QueueInv', NEW u \in Users, PushCopy(u)
    PROVE  Becomes(u, Append(items[u], block[u]), block[u])
<1> DEFINE c == Cont(u)
           d == Cont(u)'
           b == bsize[u]
<1>1. /\ pc[u].op = "push" /\ ~ended /\ pc[u].n = b + 1 /\ b \in Nat
      /\ b + 1 <= MaxBlocks[u] /\ MaxBlocks[u] \in Nat
    BY Basics DEF PushCopy, InCall, Steps
<1>2. \A k \in 0..b + 1 : k \in Slot(u)
    BY <1>1 DEF Slot
<1>3. PICK q : DataEffect(u, b + 1, q, Contents(data[u][0]))
    BY <1>1, PushStep
<1>4. /\ \A v \in Users : v # u => Cont(v)' = Cont(v)
      /\ \A k \in Slot(u) : d[k] = IF k = b + 1 THEN Contents(data[u][0]) ELSE c[k]
    <2>1. 0 \in Slot(u) /\ b + 1 \in Slot(u)
        BY <1>1, <1>2
    <2>2. Contents(data[u][0]) \in Data \cup {NoData}
        BY <1>1, <2>1, CellTypes
    <2> QED BY <1>1, <1>3, <2>1, <2>2, PushStep, DataShown
<1>5. /\ pc' = [pc EXCEPT ![u] = At("idle", 0)] /\ bsize' = [bsize EXCEPT ![u] = @ + 1]
      /\ ended' = ended
    BY DEF PushCopy, Idle
<1>6. /\ pc'[u].op = "idle" /\ bsize'[u] = b + 1 /\ ~ended'
      /\ \A v \in Users : v # u => pc'[v] = pc[v] /\ bsize'[v] = bsize[v]
    <2>1. "idle" \in Step /\ 0 \in Nat
        BY DEF Step
    <2>2. pc'[u].op = "idle" /\ \A v \in Users : v # u => pc'[v] = pc[v]
        BY <1>5, <2>1, Went
    <2>3. bsize \in [Users -> Nat]
        BY DEF QueueInv, Typed
    <2> QED BY ONLY <1>1, <1>5, <2>2, <2>3 DEF b
<1>7. View /\ View' /\ Alone(u)
    BY <1>4, <1>6, Views, ViewsNext DEF Alone
<1>8. Becomes(u, items'[u], block'[u]) /\ Shows(u) /\ Shows(u)'
    BY <1>1, <1>6, <1>7, OneUser DEF View
<1>9. c[0] = Contents(data[u][0])
    BY <1>1, <1>2 DEF Cont
<1> HIDE DEF items, block
<1>10. /\ items[u] = Up(c, b, 1) /\ block[u] = c[0]
       /\ items'[u] = Up(d, b + 1, 1) /\ block'[u] = d[0]
    BY <1>1, <1>6, <1>8 DEF Shows, InCall, Moving
<1> HIDE DEF c, d, b
<1>11. d[0] = c[0] /\ d[b + 1] = c[0] /\ \A k \in 0..b : d[k] = c[k]
    BY <1>1, <1>2, <1>4, <1>9
<1>12. Up(d, b + 1, 1) = Append(Up(c, b, 1), d[b + 1])
    BY <1>1, <1>11, UpAppend
<1> QED
    BY <1>8, <1>10, <1>11, <1>12

(* pop_block takes the first block, for the queue as it is shown, when it   *)
(* starts; peek_block too.                                                  *)
LEMMA BeginRefined ==
    ASSUME QueueInv, QueueInv', NEW u \in Users, Begin(u)
    PROVE  /\ items[u] # <<>>
           /\ \/ Becomes(u, Tail(items[u]), Head(items[u]))
              \/ Becomes(u, items[u], Head(items[u]))
<1> DEFINE c == Cont(u)
           d == Cont(u)'
           b == bsize[u]
<1>1. /\ DataEffect(u, 0, NULL, NoData) /\ ~ended /\ pc[u].op = "idle" /\ b > 0
      /\ \A v \in Users : Array(v)' = Array(v)
    BY BeginStep
<1>2. PICK op \in {"pop", "peek"} : MoveTo(u, op, 1)
    BY BeginStep
<1>3. 0 \in Slot(u) /\ op \in Step /\ b \in Nat
    BY <1>2, Basics DEF Step
<1>4. /\ Becomes(u, items'[u], block'[u])
      /\ \A j \in Slot(u) : d[j] = IF j = 0 THEN NoData ELSE c[j]
      /\ pc'[u].op = op /\ pc'[u].n = 1 /\ bsize'[u] = b
      /\ Shows(u) /\ Shows(u)'
      /\ \A j \in 0..b : j \in Slot(u)
    BY <1>1, <1>2, <1>3, Moves
<1> HIDE DEF items, block
<1>5. items[u] = Up(c, b, 1)
    BY <1>1, <1>4 DEF Shows, InCall, Moving
<1>6. /\ block'[u] = d[1]
      /\ items'[u] = IF op = "pop" THEN Tail(Up(d, b, 1)) ELSE Up(d, b, 1)
    BY <1>2, <1>4 DEF Shows, InCall, Moving, Front, Frontier
<1>7. 1 \in 0..b /\ \A j \in 0..b : j # 1 - 1 => d[j] = c[j]
    BY <1>1, <1>3, <1>4
<1> HIDE DEF b, c, d
<1>8. Up(d, b, 1) = Up(c, b, 1) /\ d[1] = c[1]
    BY <1>3, <1>7, UpFree
<1>9. Up(c, b, 1) # <<>> /\ Head(Up(c, b, 1)) = c[1]
    <2>1. /\ Up(c, b, 1) \in Seq({c[k] : k \in 0..b}) /\ Len(Up(c, b, 1)) = b
          /\ \A n \in 1..b : Up(c, b, 1)[n] = c[n]
        <3> DEFINE m == 1
        <3>1. m \in Nat /\ b \in Nat
            BY <1>3
        <3> HIDE DEF m
        <3>2. Up(c, b, m) \in Seq({c[k] : k \in 0..b}) /\ Len(Up(c, b, m)) = b
            BY ONLY <3>1, UpIsSeq
        <3> QED BY <3>1, <3>2, UpEnds DEF m
    <2> QED BY <1>1, <1>3, <1>7, <2>1 DEF b
<1> QED
    BY <1>2, <1>4, <1>5, <1>6, <1>8, <1>9

LEMMA PeekRefined ==
    ASSUME QueueInv, QueueInv', NEW u \in Users, PeekCopy(u)
    PROVE  items' = items /\ block' = block
<1> DEFINE c == Cont(u)
           d == Cont(u)'
           b == bsize[u]
           x == Contents(data[u][1])
<1>1. PICK q : DataEffect(u, 0, q, x)
    BY PeekStep
<1>2. /\ MoveTo(u, "idle", 0) /\ b >= 1 /\ ~ended /\ 1 \in Slot(u)
      /\ \A v \in Users : Array(v)' = Array(v)
    BY PeekStep
<1>3. 0 \in Slot(u) /\ "idle" \in Step /\ b \in Nat /\ x \in Data \cup {NoData}
    BY <1>2, Basics, CellTypes DEF Step
<1>4. pc[u].op = "peek" /\ x = c[1]
    BY <1>2 DEF PeekCopy, InCall, Cont
<1> HIDE DEF x
<1>5. /\ Becomes(u, items'[u], block'[u])
      /\ \A j \in Slot(u) : d[j] = IF j = 0 THEN x ELSE c[j]
      /\ pc'[u].op = "idle" /\ bsize'[u] = b /\ Shows(u) /\ Shows(u)' /\ View
      /\ \A j \in 0..b : j \in Slot(u)
    BY <1>1, <1>2, <1>3, Moves
<1> HIDE DEF items, block
<1>6. items[u] = Up(c, b, 1) /\ block[u] = c[1]
    BY <1>4, <1>5 DEF Shows, InCall, Moving, Front
<1>7. items'[u] = Up(d, b, 1) /\ block'[u] = d[0]
    BY <1>5 DEF Shows, InCall, Moving
<1>8. d[0] = c[1] /\ \A j \in 0..b : j # 1 - 1 => d[j] = c[j]
    BY <1>3, <1>4, <1>5
<1> HIDE DEF b, c, d
<1>9. Up(d, b, 1) = Up(c, b, 1)
    BY <1>3, <1>8, UpFree
<1>10. items'[u] = items[u] /\ block'[u] = block[u]
    BY <1>6, <1>7, <1>8, <1>9
<1> QED
    BY <1>5, <1>10, Stays

(* A copy moves one block up, the last one included: it shows nothing. *)
LEMMA CopyRefined ==
    ASSUME QueueInv, QueueInv', NEW u \in Users, PopCopy(u)
    PROVE  items' = items /\ block' = block
<1> DEFINE c == Cont(u)
           d == Cont(u)'
           b == bsize[u]
           m == pc[u].n
           x == Contents(data[u][m])
<1>1. PICK q : DataEffect(u, m - 1, q, x)
    BY CopyStep
<1>2. /\ pc[u].op = "pop" /\ ~ended /\ m \in Slot(u) /\ m - 1 \in Slot(u)
      /\ 1 <= m /\ m <= b
      /\ \/ MoveTo(u, "free", 1) /\ m = 1 /\ b = 1
         \/ MoveTo(u, "clear", m) /\ m < b
         \/ MoveTo(u, "last", m + 1) /\ m = b /\ b >= 2
      /\ \A v \in Users : Array(v)' = Array(v)
    BY CopyStep
<1>3. /\ m \in Nat \ {0} /\ b \in Nat /\ m + 1 \in Nat
      /\ x \in Data \cup {NoData} /\ x = c[m]
    BY <1>2, Basics, CellTypes DEF Slot, Cont
<1>4. PICK op \in {"free", "clear", "last"}, k \in Nat :
          /\ MoveTo(u, op, k)
          /\ op = "free" => m = 1 /\ b = 1
          /\ op = "clear" => k = m
          /\ op = "last" => k = m + 1
    <2> HIDE DEF m, b
    <2> QED BY <1>2, <1>3
<1>5. op \in Step
    BY DEF Step
<1> HIDE DEF x
<1>6. /\ Becomes(u, items'[u], block'[u])
      /\ \A j \in Slot(u) : d[j] = IF j = m - 1 THEN x ELSE c[j]
      /\ pc'[u].op = op /\ pc'[u].n = k /\ bsize'[u] = b
      /\ Shows(u) /\ Shows(u)' /\ View
      /\ \A j \in 0..b : j \in Slot(u)
    BY <1>1, <1>2, <1>3, <1>4, <1>5, Moves
<1> HIDE DEF items, block
<1>7. items[u] = Tail(Up(c, b, m)) /\ block[u] = c[IF 1 < m THEN 0 ELSE 1]
    BY <1>2, <1>6 DEF Shows, InCall, Moving, Front, Frontier
<1>8. /\ d[m - 1] = c[m] /\ d[m] = c[m]
      /\ \A j \in 0..b : j # m - 1 => d[j] = c[j]
    BY <1>2, <1>3, <1>6
<1>9. d[0] = c[IF 1 < m THEN 0 ELSE 1]
    BY <1>2, <1>3, <1>8
<1>10. CASE op = "free"
    <2>1. items'[u] = <<>> /\ block'[u] = d[0]
        BY <1>6, <1>10 DEF Shows, InCall, Moving
    <2>2. Tail(Up(c, b, m)) = <<>>
        <3>1. m = 1 /\ b = 1
            BY <1>4, <1>10
        <3> HIDE DEF c, b, m
        <3> DEFINE s == Up(c, b, m)
                   S == {c[j] : j \in 0..b}
        <3>2. s \in Seq(S) /\ Len(s) = b
            BY <1>3, UpIsSeq
        <3> HIDE DEF s, S
        <3>3. s # <<>> /\ Len(s) = 1
            BY <3>1, <3>2
        <3>4. Tail(s) \in Seq(S) /\ Len(Tail(s)) = 0
            BY <3>2, <3>3, HeadTailProperties
        <3>5. Tail(s) = <<>>
            BY <3>4, EmptySeq
        <3> QED BY <3>5 DEF s
    <2>3. items'[u] = items[u] /\ block'[u] = block[u]
        BY <1>7, <1>9, <2>1, <2>2
    <2> QED BY <1>6, <2>3, Stays
<1>11. CASE op \in {"clear", "last"}
    <2>1. items'[u] = Tail(Up(d, b, m + 1)) /\ block'[u] = d[IF 1 < m + 1 THEN 0 ELSE 1]
        BY <1>4, <1>6, <1>11 DEF Shows, InCall, Moving, Front, Frontier
    <2> HIDE DEF c, d, b, m
    <2>2. Up(d, b, m) = Up(c, b, m)
        BY <1>3, <1>8, UpFree
    <2>3. Up(d, b, m + 1) = Up(d, b, m)
        BY <1>3, <1>8, UpNext
    <2>4. items'[u] = items[u] /\ block'[u] = block[u]
        BY <1>3, <1>7, <1>9, <2>1, <2>2, <2>3
    <2> QED BY <1>6, <2>4, Stays
<1> QED
    BY <1>4, <1>10, <1>11

(* Clearing the slot behind it, and dropping the last one, free a slot that *)
(* no block is in.                                                          *)
LEMMA ClearRefined ==
    ASSUME QueueInv, QueueInv', NEW u \in Users, PopClear(u) \/ PopLast(u)
    PROVE  items' = items /\ block' = block
<1> DEFINE c == Cont(u)
           d == Cont(u)'
           b == bsize[u]
           m == Front(u)
<1>1. PICK n \in Slot(u), op \in {"pop", "shrink"}, k \in Nat :
          /\ DataEffect(u, n, NULL, NoData) /\ MoveTo(u, op, k)
          /\ ~ended /\ pc[u].op \in {"clear", "last"}
          /\ pc[u].op = "clear" => k = pc[u].n + 1 /\ n = pc[u].n
          /\ pc[u].op = "last" => k = pc[u].n /\ n + 1 = pc[u].n
          /\ op = "shrink" => pc[u].op = "last"
          /\ op = "pop" => pc[u].op = "clear"
          /\ 1 <= n /\ \A v \in Users : Array(v)' = Array(v)
    <2>1. CASE PopClear(u)
        <3>1. pc[u].n + 1 \in Nat
            BY Basics
        <3> QED BY <2>1, <3>1, ClearStep
    <2>2. CASE PopLast(u)
        <3>1. bsize[u] + 1 \in Nat /\ bsize[u] \in Nat
            BY Basics
        <3> QED BY <2>2, <3>1, LastStep
    <2> QED BY <2>1, <2>2
<1>2. op \in Step /\ pc[u].n \in Nat /\ b \in Nat /\ n \in Nat
    BY Basics DEF Step, Slot
<1>3. /\ Becomes(u, items'[u], block'[u])
      /\ \A j \in Slot(u) : d[j] = IF j = n THEN NoData ELSE c[j]
      /\ pc'[u].op = op /\ pc'[u].n = k /\ bsize'[u] = b
      /\ Shows(u) /\ Shows(u)' /\ View
      /\ \A j \in 0..b : j \in Slot(u)
    BY <1>1, <1>2, Moves
<1> HIDE DEF items, block
<1>4. m = n + 1 /\ Front(u)' = n + 1
    BY <1>1, <1>2, <1>3 DEF Front, Frontier, Moving, InCall
<1>5. items[u] = Tail(Up(c, b, m)) /\ block[u] = c[0]
    BY <1>1, <1>2, <1>3, <1>4 DEF Shows, InCall, Moving
<1>6. items'[u] = Tail(Up(d, b, m)) /\ block'[u] = d[0]
    BY <1>1, <1>2, <1>3, <1>4 DEF Shows, InCall, Moving
<1>7. /\ m \in Nat \ {0} /\ d[0] = c[0]
      /\ \A j \in 0..b : j # m - 1 => d[j] = c[j]
    <2>1. 0 \in Slot(u)
        BY Basics
    <2> QED BY <1>1, <1>2, <1>3, <1>4, <2>1
<1> HIDE DEF c, d, b, m
<1>8. Up(d, b, m) = Up(c, b, m)
    BY <1>2, <1>7, UpFree, SMTT(40)
<1>9. items'[u] = items[u] /\ block'[u] = block[u]
    BY <1>5, <1>6, <1>7, <1>8
<1> QED
    BY <1>3, <1>9, Stays

LEMMA ShrinkRefined ==
    ASSUME QueueInv, QueueInv', NEW u \in Users, PopShrink(u)
    PROVE  items' = items /\ block' = block
<1> DEFINE c == Cont(u)
           b == bsize[u]
<1>1. /\ Replaced(mem.heap, Array(u), mem'.heap, Array(u)', b - 1)
      /\ pc[u].op = "shrink" /\ ~ended /\ b >= 2
      /\ \A v \in Users : v # u => Array(v)' = Array(v)
      /\ pc' = [pc EXCEPT ![u] = At("idle", 0)] /\ data' = data
      /\ bsize' = [bsize EXCEPT ![u] = @ - 1] /\ ended' = ended
    BY ShrinkStep
<1>2. b \in Nat /\ pc[u].n = b + 1 /\ b - 1 \in Contained
    BY <1>1, Basics DEF Steps, Contained
<1>3. \A v \in Users : Cont(v)' = Cont(v)
    BY <1>1, <1>2, ArrayShown
<1>4. /\ pc'[u].op = "idle" /\ bsize'[u] = b - 1
      /\ \A v \in Users : v # u => pc'[v] = pc[v] /\ bsize'[v] = bsize[v]
    <2>1. "idle" \in Step /\ 0 \in Nat
        BY DEF Step
    <2>2. pc'[u].op = "idle" /\ \A v \in Users : v # u => pc'[v] = pc[v]
        BY <1>1, <2>1, Went
    <2>3. bsize \in [Users -> Nat]
        BY DEF QueueInv, Typed
    <2> QED BY ONLY <1>1, <2>2, <2>3 DEF b
<1>5. View /\ View' /\ Alone(u)
    BY <1>3, <1>4, Views, ViewsNext DEF Alone
<1>6. Becomes(u, items'[u], block'[u]) /\ Shows(u) /\ Shows(u)'
    BY <1>1, <1>5, OneUser DEF View
<1> HIDE DEF items, block
<1>7. items[u] = Tail(Up(c, b, b + 1)) /\ block[u] = c[0]
    BY <1>1, <1>2, <1>6 DEF Shows, InCall, Moving, Front, Frontier
<1>8. items'[u] = Up(c, b - 1, 1) /\ block'[u] = c[0]
    BY <1>3, <1>4, <1>6 DEF Shows, InCall, Moving
<1> HIDE DEF b, c
<1>9. Tail(Up(c, b, b + 1)) = Up(c, b - 1, 1)
    BY <1>1, <1>2, UpTail
<1>10. items'[u] = items[u] /\ block'[u] = block[u]
    BY <1>7, <1>8, <1>9
<1> QED
    BY <1>5, <1>6, <1>10, Stays

(* queue_free shows an empty queue from its start on. *)
LEMMA DiscardRefined ==
    ASSUME QueueInv, QueueInv', NEW u \in Users, Discard(u)
    PROVE  Becomes(u, <<>>, block[u])
<1>1. /\ pc[u].op = "idle" /\ pc' = [pc EXCEPT ![u] = At("free", 1)]
      /\ UNCHANGED <<mem, blocks, lcopy, bsize, data, ended>> /\ ~ended
    BY DiscardStep, Basics DEF Discard
<1>2. pc'[u].op = "free" /\ \A v \in Users : v # u => pc'[v] = pc[v]
    BY <1>1, Went DEF Step
<1>3. \A v \in Users : Cont(v)' = Cont(v)
    BY <1>1 DEF Cont, Contents
<1>4. View /\ View' /\ Alone(u)
    BY <1>1, <1>2, <1>3, Views, ViewsNext DEF Alone
<1>5. Becomes(u, items'[u], block'[u]) /\ Shows(u) /\ Shows(u)'
    BY <1>1, <1>4, OneUser DEF View
<1> HIDE DEF items, block, Cont
<1>6. items'[u] = <<>> /\ block'[u] = block[u]
    BY <1>1, <1>2, <1>3, <1>5 DEF Shows, InCall, Moving
<1> QED
    BY <1>5, <1>6

LEMMA FreeRefined ==
    ASSUME QueueInv, QueueInv', NEW u \in Users, FreeSlot(u) \/ FreeBlocks(u)
    PROVE  items' = items /\ block' = block
<1>1. CASE FreeSlot(u)
    <2> DEFINE n == pc[u].n
    <2>1. /\ DataEffect(u, n, NULL, NoData) /\ MoveTo(u, "free", n + 1)
          /\ pc[u].op = "free" /\ ~ended /\ n \in Slot(u) /\ 1 <= n
          /\ \A v \in Users : Array(v)' = Array(v)
        BY <1>1, FreeSlotStep
    <2>2. n \in Nat /\ n + 1 \in Nat /\ 0 \in Slot(u) /\ "free" \in Step
        BY Basics DEF Step
    <2> HIDE DEF n
    <2>3. /\ Becomes(u, items'[u], block'[u])
          /\ \A j \in Slot(u) : Cont(u)'[j] = IF j = n THEN NoData ELSE Cont(u)[j]
          /\ pc'[u].op = "free" /\ Shows(u) /\ Shows(u)' /\ View
        BY <2>1, <2>2, Moves
    <2> HIDE DEF items, block
    <2>4. items[u] = <<>> /\ block[u] = Cont(u)[0]
        BY <2>1, <2>3 DEF Shows, InCall, Moving
    <2>5. items'[u] = <<>> /\ block'[u] = Cont(u)'[0]
        BY <2>3 DEF Shows, InCall, Moving
    <2>6. Cont(u)'[0] = Cont(u)[0]
        BY <2>1, <2>2, <2>3
    <2>7. items'[u] = items[u] /\ block'[u] = block[u]
        BY <2>4, <2>5, <2>6
    <2> QED BY <2>3, <2>7, Stays
<1>2. CASE FreeBlocks(u)
    <2>1. /\ Replaced(mem.heap, Array(u), mem'.heap, Array(u)', NoData)
          /\ pc[u].op = "free" /\ ~ended /\ data' = data /\ ended' = ended
          /\ pc' = [pc EXCEPT ![u] = At("idle", 0)]
          /\ bsize' = [bsize EXCEPT ![u] = 0]
          /\ \A v \in Users : v # u => Array(v)' = Array(v)
        BY <1>2, FreeBlocksStep
    <2>2. \A v \in Users : Cont(v)' = Cont(v)
        BY <2>1, ArrayShown DEF Contained
    <2>3. /\ pc'[u].op = "idle" /\ bsize'[u] = 0
          /\ \A v \in Users : v # u => pc'[v] = pc[v] /\ bsize'[v] = bsize[v]
        BY <2>1, Went, Basics DEF Step
    <2>4. View /\ View' /\ Alone(u)
        BY <2>2, <2>3, Views, ViewsNext DEF Alone
    <2>5. Becomes(u, items'[u], block'[u]) /\ Shows(u) /\ Shows(u)'
        BY <2>1, <2>4, OneUser DEF View
    <2> HIDE DEF items, block
    <2>6. items[u] = <<>> /\ block[u] = Cont(u)[0]
        BY <2>1, <2>5 DEF Shows, InCall, Moving
    <2>7. items'[u] = Up(Cont(u), 0, 1) /\ block'[u] = Cont(u)[0]
        BY <2>2, <2>3, <2>5 DEF Shows, InCall, Moving
    <2>8. Up(Cont(u), 0, 1) = <<>>
        BY UpEmpty
    <2>9. items'[u] = items[u] /\ block'[u] = block[u]
        BY <2>6, <2>7, <2>8
    <2> QED BY <2>4, <2>5, <2>9, Stays
<1> QED
    BY <1>1, <1>2

-----------------------------------------------------------------------------
LEMMA FifoInit == Init => Fifo!Init
<1> SUFFICES ASSUME Init PROVE Fifo!Init
    OBVIOUS
<1>1. QueueInv /\ View /\ ~ended
    BY InvInit, Views DEF Init
<1>2. ASSUME NEW u \in Users PROVE items[u] = <<>> /\ block[u] = NoData
    <2>1. /\ pc[u].op = "idle" /\ bsize[u] = 0 /\ Shows(u)
          /\ 0 \in Slot(u) /\ data[u][0] = NULL
        BY <1>1, Basics DEF View, Init, Idle, At
    <2>2. Cont(u)[0] = NoData
        BY <2>1 DEF Cont, Contents
    <2>3. Up(Cont(u), 0, 1) = <<>>
        BY UpEmpty
    <2> HIDE DEF items, block
    <2> QED BY <2>1, <2>2, <2>3 DEF Shows, InCall, Moving
<1>3. /\ items = [v \in Users |-> items[v]] /\ block = [v \in Users |-> block[v]]
    BY <1>1 DEF View
<1> HIDE DEF items, block
<1> QED
    BY <1>2, <1>3 DEF Fifo!Init

LEMMA FifoNext ==
    QueueInv /\ QueueInv' /\ [Next]_vars => [Fifo!Next]_(Fifo!vars)
<1> SUFFICES ASSUME QueueInv, QueueInv', [Next]_vars
             PROVE  Fifo!Next \/ (items' = items /\ block' = block)
    BY DEF Fifo!vars
<1>1. CASE UNCHANGED vars
    BY <1>1 DEF vars, items, block, InCall, Moving, InQueue, Frontier, Contents
<1>2. CASE allocator_end
    <2>1. ended' = TRUE
        BY <1>2 DEF allocator_end
    <2>2. items' = [u \in Users |-> <<>>] /\ block' = [u \in Users |-> NoData]
        BY <2>1 DEF items, block
    <2> QED BY <2>2 DEF Fifo!Next, Fifo!End
<1>3. ASSUME NEW u \in Users, Use(u)
      PROVE  Fifo!Next \/ (items' = items /\ block' = block)
    <2>1. CASE Fill(u) \/ Calloc(u) \/ FreeBlock(u)
        <3>1. PICK x \in Data \cup {NoData} : Becomes(u, items[u], x)
            BY <2>1, SetRefined
        <3>2. items = [v \in Users |-> items[v]]
            BY DEF items
        <3> HIDE DEF items, block
        <3>3. items' = items
            BY <3>1, <3>2 DEF Becomes
        <3> QED BY <3>1, <3>3 DEF Becomes, Fifo!Next, Fifo!Set
    <2>2. CASE PushCopy(u)
        <3>1. Becomes(u, Append(items[u], block[u]), block[u])
            BY <2>2, PushRefined
        <3>2. block = [v \in Users |-> block[v]]
            BY DEF block
        <3> HIDE DEF items, block
        <3>3. block' = block
            BY <3>1, <3>2 DEF Becomes
        <3> QED BY <3>1, <3>3 DEF Becomes, Fifo!Next, Fifo!Push
    <2>3. CASE Begin(u)
        <3>1. /\ items[u] # <<>>
              /\ \/ Becomes(u, Tail(items[u]), Head(items[u]))
                 \/ Becomes(u, items[u], Head(items[u]))
            BY <2>3, BeginRefined
        <3>2. items = [v \in Users |-> items[v]]
            BY DEF items
        <3> HIDE DEF items, block
        <3>3. CASE Becomes(u, Tail(items[u]), Head(items[u]))
            BY <3>1, <3>3 DEF Becomes, Fifo!Next, Fifo!Pop
        <3>4. CASE Becomes(u, items[u], Head(items[u]))
            <4>1. items' = items
                BY <3>2, <3>4 DEF Becomes
            <4> QED BY <3>1, <3>4, <4>1 DEF Becomes, Fifo!Next, Fifo!Peek
        <3> QED BY <3>1, <3>3, <3>4
    <2>4. CASE Discard(u)
        <3>1. Becomes(u, <<>>, block[u])
            BY <2>4, DiscardRefined
        <3>2. block = [v \in Users |-> block[v]]
            BY DEF block
        <3> HIDE DEF items, block
        <3>3. block' = block
            BY <3>1, <3>2 DEF Becomes
        <3> QED BY <3>1, <3>3 DEF Becomes, Fifo!Next, Fifo!Discard
    <2>5. CASE \/ PushGrow(u) \/ PeekCopy(u) \/ PopCopy(u) \/ PopClear(u) \/ PopLast(u)
               \/ PopShrink(u) \/ FreeSlot(u) \/ FreeBlocks(u)
        BY <2>5, GrowRefined, PeekRefined, CopyRefined, ClearRefined, ShrinkRefined,
           FreeRefined
    <2> QED BY <1>3, <2>1, <2>2, <2>3, <2>4, <2>5 DEF Use
<1> QED
    BY <1>1, <1>2, <1>3 DEF Next

(* The queue of each user is a FIFO of blocks, for any interleaving with    *)
(* the others: while pop_block frees and copies every slot, no block is     *)
(* lost, repeated, moved or mixed with another.                             *)
THEOREM QueueIsFifo == Spec => ImplementsFifo
BY InvAlways, FifoInit, FifoNext, PTL DEF Spec, ImplementsFifo, Fifo!Spec
=============================================================================
