---------------------------- MODULE RelayProofs ----------------------------
(***************************************************************************)
(* Proofs about Relay for any connections, user ids, workers, packets that *)
(* clients may send and bound on how many they send.                       *)
(***************************************************************************)
EXTENDS Relay, FiniteSetTheorems, FunctionTheorems, SequenceTheorems, TLAPS

USE DEF peer, history

EpollPC  == {"wait", "push", "create", "free", "mode", "erase", "close"}
WorkerPC == {"idle", "pop", "free", "register", "compare", "save", "answer",
             "nouser", "found", "deliver", "len", "loop", "copy", "flush"}

EpollRec  == [pc : EpollPC, c : Conns \cup {NoConn}, batch : Seq(Packets),
              uid : Uids \cup {Server}]
WorkerRec == [pc : WorkerPC, cli : Conns \cup {NoConn}, pkt : Packets \cup {NoPacket},
              tgt : Entry \cup {NoEntry}, i : Nat, len : Nat]

-----------------------------------------------------------------------------
(* The inductive invariant of what is where.  A packet stays with the       *)
(* connection it came from: in its socket, in its read queue and in the     *)
(* hands of the worker whose client it is.                                  *)

From(c) == {p \in sent : p.src = c}

Matches(e) == e \in Entry /\ UidOf[e.cli] = e.uid

(* What may be in the write queue of c. *)
Sound(c) ==
    {m \in Status \cup Forward :
        IF m.what = "status"
        THEN \E p \in sent : p.muid = m.muid /\ p.src = c
        ELSE /\ m.to = UidOf[c] /\ m.from # m.to
             /\ \E p \in sent : /\ p.muid = m.muid /\ UidOf[p.src] = m.from
                                /\ p.to = m.to \/ p.kind = "broadcast"}

History == sent \subseteq Packets /\ IsFiniteSet(sent) /\ handled \subseteq sent

Links == /\ conn \in [Conns -> {"none", "open", "closed"}]
         /\ eof \in [Conns -> BOOLEAN] /\ mode \in [Conns -> {"in", "out"}]
         /\ tasks \in Seq(Conns) /\ quiet \subseteq Conns

Unread == /\ DOMAIN inbox = Conns /\ \A c \in Conns : inbox[c] \in Seq(From(c))
          /\ DOMAIN rq = Conns /\ \A c \in Conns : rq[c] \in Seq(From(c))

Unwritten == DOMAIN wq = Conns /\ \A c \in Conns : wq[c] \in Seq(Sound(c))

Mapped == /\ clients \in Seq(Entry)
          /\ \A i \in DOMAIN clients : Matches(clients[i])
          /\ \A i, j \in DOMAIN clients : clients[i].uid = clients[j].uid => i = j

GoodEpoll(r) == /\ r \in EpollRec
                /\ r.pc # "wait" => r.c \in Conns
                /\ r.pc \in {"push", "create"} => r.batch \in Seq(From(r.c))
                /\ r.pc = "push" => r.batch # <<>>

GoodWorker(r) ==
    /\ r \in WorkerRec
    /\ r.pc = "idle" => r = Idle
    /\ r.pc # "idle" => r.cli \in Conns
    /\ r.pc \notin {"idle", "pop"} => r.pkt \in From(r.cli)
    /\ r.pc \in {"len", "loop", "copy"} => r.pkt.kind = "broadcast"
    /\ r.pc \in {"found", "deliver"} => /\ Matches(r.tgt) /\ r.tgt.uid = r.pkt.to
                                        /\ r.pkt.to # UidOf[r.cli]
    /\ r.pc = "copy" => Matches(r.tgt) /\ r.tgt.uid # UidOf[r.cli]

Working == DOMAIN wk = Workers /\ \A w \in Workers : GoodWorker(wk[w])

PlaceInv == /\ History /\ Links /\ Unread /\ Unwritten /\ Mapped
            /\ GoodEpoll(ep) /\ Working

-----------------------------------------------------------------------------
(* What is left alone stays as it is. *)
LEMMA KeepHistory == ASSUME PlaceInv, UNCHANGED <<sent, handled>> PROVE History'
BY DEF PlaceInv, History
LEMMA KeepLinks ==
    ASSUME PlaceInv, UNCHANGED <<conn, eof, mode, tasks, quiet>> PROVE Links'
BY DEF PlaceInv, Links
LEMMA KeepUnread == ASSUME PlaceInv, UNCHANGED <<inbox, rq, sent>> PROVE Unread'
BY DEF PlaceInv, Unread, From
LEMMA KeepUnwritten == ASSUME PlaceInv, UNCHANGED <<wq, sent>> PROVE Unwritten'
BY DEF PlaceInv, Unwritten, Sound
LEMMA KeepMapped == ASSUME PlaceInv, UNCHANGED clients PROVE Mapped'
BY DEF PlaceInv, Mapped
LEMMA KeepEpoll == ASSUME PlaceInv, UNCHANGED <<ep, sent>> PROVE GoodEpoll(ep)'
BY DEF PlaceInv, GoodEpoll, From
LEMMA KeepWorking == ASSUME PlaceInv, UNCHANGED <<wk, sent>> PROVE Working'
BY DEF PlaceInv, Working, GoodWorker, From

-----------------------------------------------------------------------------
(* Records. *)

LEMMA Changing ==
    ASSUME PlaceInv, sent' = sent, NEW w \in Workers, NEW r, GoodWorker(r),
           wk' = [wk EXCEPT ![w] = r]
    PROVE  Working'
<1>1. \A v \in Workers : GoodWorker(wk'[v])
    BY DEF PlaceInv, Working
<1>2. \A c : From(c)' = From(c)
    BY DEF From
<1>3. \A v \in Workers : GoodWorker(wk[v])'
    BY <1>1, <1>2 DEF GoodWorker
<1> QED
    BY <1>3 DEF PlaceInv, Working

LEMMA IdleIsGood == GoodWorker(Idle) /\ Idle.pc = "idle" /\ Idle.cli = NoConn
BY DEF GoodWorker, Idle, WorkerRec, WorkerPC

LEMMA WorkerAt ==
    ASSUME PlaceInv, NEW w \in Workers
    PROVE  /\ GoodWorker(wk[w]) /\ wk[w] \in WorkerRec
           /\ wk[w].pc # "idle" => wk[w].cli \in Conns
           /\ wk[w].pc \notin {"idle", "pop"} =>
                 /\ wk[w].pkt \in From(wk[w].cli) /\ wk[w].pkt \in sent
                 /\ wk[w].pkt \in Packets /\ wk[w].pkt.src = wk[w].cli
                 /\ wk[w].pkt.to \in Uids \cup {Server} /\ wk[w].pkt.muid \in 1..MaxSent
                 /\ wk[w].pkt.kind \in Kinds
BY DEF PlaceInv, Working, GoodWorker, From, History, Packets, Packet

LEMMA MovedOn ==
    ASSUME NEW r \in WorkerRec, NEW pc \in WorkerPC
    PROVE  LET s == [r EXCEPT !.pc = pc]
           IN /\ s \in WorkerRec /\ s.pc = pc /\ s.cli = r.cli /\ s.pkt = r.pkt
              /\ s.tgt = r.tgt /\ s.i = r.i /\ s.len = r.len
BY DEF WorkerRec

Holding(r, pc, p) == [r EXCEPT !.pc = pc, !.pkt = p]

LEMMA Held ==
    ASSUME NEW r \in WorkerRec, NEW pc \in WorkerPC, NEW p \in Packets
    PROVE  LET s == Holding(r, pc, p)
           IN /\ s \in WorkerRec /\ s.pc = pc /\ s.cli = r.cli /\ s.pkt = p
BY DEF WorkerRec, Holding

Aiming(r, pc, t) == [r EXCEPT !.pc = pc, !.tgt = t]

LEMMA Targeted ==
    ASSUME NEW r \in WorkerRec, NEW pc \in WorkerPC, NEW t \in Entry \cup {NoEntry}
    PROVE  LET s == Aiming(r, pc, t)
           IN /\ s \in WorkerRec /\ s.pc = pc /\ s.cli = r.cli /\ s.pkt = r.pkt
              /\ s.tgt = t
BY DEF WorkerRec, Aiming

LEMMA Counted ==
    ASSUME NEW r \in WorkerRec
    PROVE  LET s == [r EXCEPT !.i = @ + 1]
           IN s \in WorkerRec /\ s.pc = r.pc /\ s.cli = r.cli /\ s.pkt = r.pkt
BY DEF WorkerRec

LEMMA Looping ==
    ASSUME NEW r \in WorkerRec, NEW n \in Nat
    PROVE  LET s == [r EXCEPT !.pc = "loop", !.i = 1, !.len = n]
           IN s \in WorkerRec /\ s.pc = "loop" /\ s.cli = r.cli /\ s.pkt = r.pkt
<1> DEFINE a == [r EXCEPT !.pc = "loop"]
           b == [a EXCEPT !.i = 1]
           d == [b EXCEPT !.len = n]
<1>1. a \in WorkerRec /\ a.pc = "loop" /\ a.cli = r.cli /\ a.pkt = r.pkt
    BY DEF WorkerRec, WorkerPC
<1> HIDE DEF a
<1>2. b \in WorkerRec /\ b.pc = "loop" /\ b.cli = r.cli /\ b.pkt = r.pkt
    BY <1>1 DEF WorkerRec
<1> HIDE DEF b
<1>3. d \in WorkerRec /\ d.pc = "loop" /\ d.cli = r.cli /\ d.pkt = r.pkt
    BY <1>2 DEF WorkerRec
<1> QED
    BY <1>3 DEF a, b, d

LEMMA Copied ==
    ASSUME NEW r \in WorkerRec
    PROVE  LET s == [r EXCEPT !.pc = "loop", !.tgt = NoEntry, !.i = @ + 1]
           IN s \in WorkerRec /\ s.pc = "loop" /\ s.cli = r.cli /\ s.pkt = r.pkt
<1> DEFINE a == [r EXCEPT !.pc = "loop"]
           b == [a EXCEPT !.tgt = NoEntry]
           d == [b EXCEPT !.i = @ + 1]
<1>1. a \in WorkerRec /\ a.pc = "loop" /\ a.cli = r.cli /\ a.pkt = r.pkt
    BY DEF WorkerRec, WorkerPC
<1> HIDE DEF a
<1>2. b \in WorkerRec /\ b.pc = "loop" /\ b.cli = r.cli /\ b.pkt = r.pkt
    BY <1>1 DEF WorkerRec
<1> HIDE DEF b
<1>3. d \in WorkerRec /\ d.pc = "loop" /\ d.cli = r.cli /\ d.pkt = r.pkt
    BY <1>2 DEF WorkerRec
<1> QED
    BY <1>3 DEF a, b, d

-----------------------------------------------------------------------------
(* The operations on queues and on dcn_clients. *)

LEMMA FromGrows ==
    ASSUME sent \subseteq sent', NEW c
    PROVE  /\ \A s \in Seq(From(c)) : s \in Seq(From(c)')
           /\ \A s \in Seq(Sound(c)) : s \in Seq(Sound(c)')
<1>1. From(c) \subseteq From(c)'
    BY DEF From
<1>2. Sound(c) \subseteq Sound(c)'
    BY DEF Sound
<1>3. \A S, T : S \subseteq T => \A s \in Seq(S) : s \in Seq(T)
    OBVIOUS
<1> QED
    BY <1>1, <1>2, <1>3

LEMMA QueueEnds ==
    ASSUME NEW S, NEW s \in Seq(S)
    PROVE  /\ <<>> \in Seq(S) /\ Len(s) \in Nat
           /\ s # <<>> => Head(s) \in S /\ Tail(s) \in Seq(S)
           /\ Len(s) >= 1 => s # <<>>
           /\ \A x \in S : Append(s, x) \in Seq(S)
BY HeadTailProperties, AppendProperties, EmptySeq

LEMMA ReadQueue ==
    ASSUME PlaceInv, sent' = sent, inbox' = inbox, NEW c \in Conns,
           NEW s \in Seq(From(c)), rq' = [rq EXCEPT ![c] = s]
    PROVE  Unread'
<1>1. \A d \in Conns : From(d)' = From(d)
    BY DEF From
<1>2. \A d \in Conns : rq'[d] \in Seq(From(d))
    BY DEF PlaceInv, Unread
<1>3. DOMAIN rq' = Conns
    BY DEF PlaceInv, Unread
<1> QED
    BY <1>1, <1>2, <1>3 DEF PlaceInv, Unread

LEMMA WriteQueue ==
    ASSUME PlaceInv, sent' = sent, NEW c \in Conns,
           NEW s \in Seq(Sound(c)), wq' = [wq EXCEPT ![c] = s]
    PROVE  Unwritten'
<1>1. \A d \in Conns : Sound(d)' = Sound(d)
    BY DEF Sound
<1>2. \A d \in Conns : wq'[d] \in Seq(Sound(d))
    BY DEF PlaceInv, Unwritten
<1>3. DOMAIN wq' = Conns
    BY DEF PlaceInv, Unwritten
<1> QED
    BY <1>1, <1>2, <1>3 DEF PlaceInv, Unwritten

LEMMA Pushed ==
    ASSUME PlaceInv, sent' = sent, NEW c \in Conns, NEW m \in Sound(c), PushOut(c, m)
    PROVE  Unwritten'
<1>1. wq[c] \in Seq(Sound(c))
    BY DEF PlaceInv, Unwritten
<1>2. Append(wq[c], m) \in Seq(Sound(c))
    BY <1>1, QueueEnds
<1>3. CASE Open(c)
    BY <1>2, <1>3, WriteQueue DEF PushOut
<1>4. CASE ~Open(c)
    BY <1>4, KeepUnwritten DEF PushOut
<1> QED
    BY <1>3, <1>4

(* map_set keeps the keys distinct, since it looks for the key first. *)
LEMMA SetKeeps ==
    ASSUME Mapped, NEW c \in Conns, MapSet(UidOf[c], c)
    PROVE  /\ Mapped'
           /\ \A e \in Entries' : e \in Entries \/ e.cli = c
<1> DEFINE u == UidOf[c]
           n == IndexOf(u)
<1>1. u \in Uids
    BY UidAssumption
<1>2. CASE Registered(u)
    <2>1. n \in DOMAIN clients /\ clients[n].uid = u
        BY <1>2 DEF Registered, IndexOf
    <2> HIDE DEF n
    <2>2. clients' = [clients EXCEPT ![n].cli = c]
        BY <1>2 DEF MapSet, n
    <2> DEFINE e == [clients[n] EXCEPT !.cli = c]
    <2>3. clients[n] \in Entry
        BY <2>1 DEF Mapped, Matches
    <2>4. e \in Entry /\ e.uid = u /\ e.cli = c
        BY <2>1, <2>3 DEF Entry
    <2>5. clients' = [clients EXCEPT ![n] = e]
        BY <2>2
    <2> HIDE DEF e, u
    <2>6. clients' \in Seq(Entry) /\ DOMAIN clients' = DOMAIN clients
        <3>1. clients \in Seq(Entry) /\ n \in DOMAIN clients
            BY <2>1 DEF Mapped
        <3> QED BY <2>4, <2>5, <3>1
    <2>7. \A i \in DOMAIN clients : clients'[i] = IF i = n THEN e ELSE clients[i]
        BY <2>5 DEF Mapped
    <2>8. Matches(e)
        BY <2>4 DEF Matches, u
    <2>9. \A i \in DOMAIN clients : clients'[i].uid = clients[i].uid
        BY <2>1, <2>4, <2>7
    <2>10. Mapped'
        BY <2>6, <2>7, <2>8, <2>9 DEF Mapped, Matches
    <2> QED BY <2>4, <2>6, <2>7, <2>10 DEF Entries
<1>3. CASE ~Registered(u)
    <2> DEFINE e == [uid |-> u, cli |-> c]
    <2>1. clients' = Append(clients, e) /\ e \in Entry /\ e.uid = u /\ e.cli = c
        BY <1>1, <1>3 DEF MapSet, Entry
    <2>2. Matches(e)
        BY <2>1 DEF Matches
    <2>3. \A i \in DOMAIN clients : clients[i].uid # u
        BY <1>3 DEF Registered
    <2> HIDE DEF e, u
    <2>4. /\ clients' \in Seq(Entry) /\ Len(clients') = Len(clients) + 1
          /\ \A i \in 1..Len(clients) : clients'[i] = clients[i]
          /\ clients'[Len(clients) + 1] = e /\ clients \in Seq(Entry)
        BY <2>1, AppendProperties DEF Mapped
    <2>5. /\ Len(clients) \in Nat /\ DOMAIN clients = 1..Len(clients)
          /\ DOMAIN clients' = 1..Len(clients')
        BY <2>4
    <2>6. \A i \in DOMAIN clients' :
              \/ i \in DOMAIN clients /\ clients'[i] = clients[i]
              \/ i = Len(clients) + 1 /\ clients'[i] = e
        BY <2>4, <2>5
    <2>7. \A i, j \in DOMAIN clients' : clients'[i].uid = clients'[j].uid => i = j
        BY <2>1, <2>3, <2>6 DEF Mapped
    <2>8. \A i \in DOMAIN clients' : Matches(clients'[i])
        BY <2>2, <2>6 DEF Mapped
    <2>9. Mapped'
        BY <2>4, <2>7, <2>8 DEF Mapped, Matches
    <2> QED BY <2>1, <2>6, <2>9 DEF Entries
<1> QED
    BY <1>2, <1>3

(* map_erase takes every entry of the key out, and no other. *)
LEMMA EraseKeeps ==
    ASSUME Mapped, NEW u, MapErase(u)
    PROVE  /\ Mapped'
           /\ \A e \in Entries' : e \in Entries /\ e.uid # u
<1> DEFINE n == IndexOf(u)
<1>0. clients \in Seq(Entry) /\ Len(clients) \in Nat /\ DOMAIN clients = 1..Len(clients)
    BY DEF Mapped
<1>1. CASE Registered(u)
    <2>1. n \in 1..Len(clients) /\ clients[n].uid = u
        BY <1>0, <1>1 DEF Registered, IndexOf
    <2> HIDE DEF n
    <2> DEFINE k == Len(clients) - 1
               at(i) == IF i < n THEN i ELSE i + 1
    <2>2. clients' = [i \in 1..k |-> clients[at(i)]]
        BY <1>1 DEF MapErase, n
    <2>3. k \in Nat
        BY <1>0, <2>1
    <2>4. \A i \in 1..k : at(i) \in DOMAIN clients /\ at(i) # n
        BY <1>0, <2>1
    <2>5. \A i, j \in 1..k : at(i) = at(j) => i = j
        BY <1>0, <2>1
    <2>6. \A i \in 1..k : clients[at(i)] \in Entry
        BY <1>0, <2>4
    <2> HIDE DEF k, at
    <2>7. clients' \in Seq(Entry) /\ DOMAIN clients' = 1..k
          /\ \A i \in 1..k : clients'[i] = clients[at(i)]
        BY <2>2, <2>3, <2>6
    <2>8. \A i, j \in 1..k : clients'[i].uid = clients'[j].uid => i = j
        <3>1. ASSUME NEW i \in 1..k, NEW j \in 1..k, clients'[i].uid = clients'[j].uid
              PROVE  i = j
            <4>1. clients[at(i)].uid = clients[at(j)].uid
                BY <2>7, <3>1
            <4>2. at(i) = at(j)
                BY <2>4, <4>1 DEF Mapped
            <4> QED BY <2>5, <4>2
        <3> QED BY <3>1
    <2>9. \A i \in 1..k : Matches(clients'[i]) /\ clients'[i].uid # u
                          /\ \E j \in DOMAIN clients : clients'[i] = clients[j]
        BY <1>0, <2>1, <2>4, <2>7 DEF Mapped
    <2>10. Mapped'
        BY <2>7, <2>8, <2>9 DEF Mapped, Matches
    <2> QED BY <2>7, <2>9, <2>10 DEF Entries
<1>2. CASE ~Registered(u)
    <2>1. clients' = clients
        BY <1>2 DEF MapErase
    <2> QED BY <1>2, <2>1 DEF Mapped, Entries, Registered, Matches
<1> QED
    BY <1>1, <1>2

-----------------------------------------------------------------------------
(* The workers. *)

(* A worker that only goes on to another step. *)
LEMMA GoesOn ==
    ASSUME PlaceInv, sent' = sent, NEW w \in Workers, NEW pc \in WorkerPC,
           wk' = [wk EXCEPT ![w] = [wk[w] EXCEPT !.pc = pc]],
           wk[w].pc \notin {"idle", "pop"},
           pc \notin {"idle", "pop", "found", "deliver", "copy"},
           pc \in {"len", "loop"} => wk[w].pkt.kind = "broadcast"
    PROVE  Working'
<1> DEFINE r == wk[w]
           s == [r EXCEPT !.pc = pc]
<1>1. GoodWorker(r) /\ r \in WorkerRec
    BY WorkerAt
<1>2. s \in WorkerRec /\ s.pc = pc /\ s.cli = r.cli /\ s.pkt = r.pkt
    BY <1>1, MovedOn
<1>3. wk' = [wk EXCEPT ![w] = s]
    OBVIOUS
<1> HIDE DEF s
<1>4. GoodWorker(s)
    BY <1>1, <1>2 DEF GoodWorker
<1> QED
    BY <1>3, <1>4, Changing

LEMMA StartKeeps ==
    ASSUME PlaceInv, NEW w \in Workers, Start(w)
    PROVE  PlaceInv'
<1> DEFINE c == Head(tasks)
           s == [Idle EXCEPT !.pc = "pop", !.cli = c]
<1>1. tasks \in Seq(Conns) /\ tasks # <<>>
    BY DEF Start, PlaceInv, Links
<1>2. c \in Conns /\ Tail(tasks) \in Seq(Conns)
    BY <1>1, QueueEnds
<1>3. s \in WorkerRec /\ s.pc = "pop" /\ s.cli = c
    <2> DEFINE a == [Idle EXCEPT !.pc = "pop"]
    <2>1. a \in WorkerRec /\ a.pc = "pop"
        BY IdleIsGood DEF WorkerRec, WorkerPC, GoodWorker
    <2> HIDE DEF a
    <2>2. [a EXCEPT !.cli = c] \in WorkerRec /\ [a EXCEPT !.cli = c].pc = "pop"
          /\ [a EXCEPT !.cli = c].cli = c
        BY <1>2, <2>1 DEF WorkerRec
    <2> QED BY <2>2 DEF a
<1>4. wk' = [wk EXCEPT ![w] = s] /\ tasks' = Tail(tasks)
      /\ UNCHANGED <<peer, mode, rq, wq, clients, ep, history>>
    BY DEF Start, WorkerGoes
<1> HIDE DEF c, s
<1>5. GoodWorker(s)
    BY <1>2, <1>3 DEF GoodWorker
<1>6. Working'
    BY <1>4, <1>5, Changing
<1>7. Links'
    BY <1>2, <1>4 DEF PlaceInv, Links
<1> QED
    BY <1>4, <1>6, <1>7, KeepHistory, KeepUnread, KeepUnwritten, KeepMapped, KeepEpoll
       DEF PlaceInv

LEMMA PopKeeps ==
    ASSUME PlaceInv, NEW w \in Workers,
           PopNone(w) \/ Pop(w) \/ PopLast(w) \/ FreeRead(w)
    PROVE  PlaceInv'
<1> DEFINE c == wk[w].cli
           r == wk[w]
           p == Head(rq[c])
<1>1. UNCHANGED <<peer, mode, wq, clients, tasks, ep, history>>
    BY DEF PopNone, Pop, PopLast, FreeRead
<1>2. r.pc \in {"pop", "free"} /\ c \in Conns /\ GoodWorker(r) /\ r \in WorkerRec
    BY WorkerAt DEF PopNone, Pop, PopLast, FreeRead, WorkerGoes
<1>3. rq[c] \in Seq(From(c))
    BY <1>2 DEF PlaceInv, Unread
<1>4. <<>> \in Seq(From(c)) /\ (rq[c] # <<>> => p \in From(c) /\ Tail(rq[c]) \in Seq(From(c)))
    BY <1>3, QueueEnds
<1>5. p \in From(c) => p \in Packets
    BY DEF From, PlaceInv, History
<1>6. Working' /\ Unread'
    <2>1. CASE PopNone(w)
        <3>1. wk' = [wk EXCEPT ![w] = Idle] /\ UNCHANGED rq
            BY <2>1 DEF PopNone, WorkerGoes
        <3> QED BY <1>1, <3>1, Changing, IdleIsGood, KeepUnread
    <2>2. ASSUME NEW pc \in {"register", "free"},
                 wk' = [wk EXCEPT ![w] = [r EXCEPT !.pc = pc, !.pkt = p]],
                 rq[c] # <<>>, r.pc = "pop"
          PROVE  Working'
        <3> DEFINE s == Holding(r, pc, p)
        <3>1. p \in Packets /\ p \in From(c) /\ pc \in WorkerPC
            BY <1>4, <1>5, <2>2 DEF WorkerPC
        <3> HIDE DEF p
        <3>2. s \in WorkerRec /\ s.pc = pc /\ s.cli = c /\ s.pkt = p
            BY <1>2, <3>1, Held
        <3>3. wk' = [wk EXCEPT ![w] = s]
            BY <2>2 DEF Holding, p
        <3> HIDE DEF s
        <3>4. GoodWorker(s)
            BY <1>2, <3>1, <3>2 DEF GoodWorker
        <3> QED BY <1>1, <3>3, <3>4, Changing
    <2>3. CASE Pop(w)
        <3>1. /\ wk' = [wk EXCEPT ![w] = [r EXCEPT !.pc = "register", !.pkt = p]]
              /\ Len(rq[c]) > 1 /\ r.pc = "pop" /\ rq' = [rq EXCEPT ![c] = Tail(rq[c])]
            BY <2>3 DEF Pop, WorkerGoes
        <3>2. rq[c] # <<>>
            <4>1. Len(rq[c]) >= 1
                BY <1>3, <3>1
            <4>2. Len(<<>>) = 0
                OBVIOUS
            <4> HIDE DEF c
            <4> QED BY <4>1, <4>2
        <3>3. Working'
            BY <2>2, <3>1, <3>2
        <3> QED BY <1>1, <1>2, <1>4, <3>1, <3>2, <3>3, ReadQueue
    <2>4. CASE PopLast(w)
        <3>1. /\ wk' = [wk EXCEPT ![w] = [r EXCEPT !.pc = "free", !.pkt = p]]
              /\ Len(rq[c]) = 1 /\ r.pc = "pop" /\ UNCHANGED rq
            BY <2>4 DEF PopLast, WorkerGoes
        <3>2. rq[c] # <<>>
            <4>1. Len(<<>>) = 0
                OBVIOUS
            <4> HIDE DEF c
            <4> QED BY <3>1, <4>1
        <3>3. Working'
            BY <2>2, <3>1, <3>2
        <3> QED BY <1>1, <3>1, <3>3, KeepUnread
    <2>5. CASE FreeRead(w)
        <3>1. /\ wk' = [wk EXCEPT ![w] = [wk[w] EXCEPT !.pc = "register"]]
              /\ wk[w].pc = "free" /\ rq' = [rq EXCEPT ![c] = <<>>]
            BY <2>5 DEF FreeRead, WorkerGoes
        <3>2. Working'
            BY <1>1, <3>1, GoesOn DEF WorkerPC
        <3> QED BY <1>1, <1>2, <1>4, <3>1, <3>2, ReadQueue
    <2> QED BY <2>1, <2>3, <2>4, <2>5
<1> QED
    BY <1>1, <1>6, KeepHistory, KeepLinks, KeepUnwritten, KeepMapped, KeepEpoll
       DEF PlaceInv

(* A worker that goes on with a pointer into dcn_clients, or drops one.     *)
LEMMA AimsAt ==
    ASSUME PlaceInv, sent' = sent, NEW w \in Workers, NEW t \in Entry \cup {NoEntry},
           NEW pc \in {"compare", "answer"},
           wk' = [wk EXCEPT ![w] = Aiming(wk[w], pc, t)], wk[w].pc \notin {"idle", "pop"}
    PROVE  Working'
<1> DEFINE r == wk[w]
           s == Aiming(r, pc, t)
<1>1. GoodWorker(r) /\ r \in WorkerRec /\ pc \in WorkerPC
    BY WorkerAt DEF WorkerPC
<1>2. s \in WorkerRec /\ s.pc = pc /\ s.cli = r.cli /\ s.pkt = r.pkt
    BY <1>1, Targeted
<1> HIDE DEF s
<1>3. GoodWorker(s)
    BY <1>1, <1>2 DEF GoodWorker
<1> QED
    BY <1>3, Changing DEF s

(* An entry found is one of the key looked up. *)
LEMMA Found ==
    ASSUME PlaceInv, NEW u, Registered(u)
    PROVE  Matches(EntryOf(u)) /\ EntryOf(u).uid = u /\ EntryOf(u) \in Entry
<1>1. IndexOf(u) \in DOMAIN clients /\ EntryOf(u).uid = u
    BY DEF Registered, IndexOf, EntryOf
<1> QED
    BY <1>1 DEF PlaceInv, Mapped, Matches, EntryOf

LEMMA RegisterKeeps ==
    ASSUME PlaceInv, NEW w \in Workers, LookUpSender(w) \/ Compare(w) \/ Save(w)
    PROVE  PlaceInv'
<1>1. UNCHANGED <<peer, mode, rq, wq, tasks, ep, history>>
      /\ wk[w].pc \in {"register", "compare", "save"}
    BY DEF LookUpSender, Compare, Save, WorkerGoes
<1>2. wk[w].pkt.src = wk[w].cli /\ wk[w].cli \in Conns
    BY <1>1, WorkerAt
<1>3. Working'
    <2>1. ASSUME wk' = [wk EXCEPT ![w] = [wk[w] EXCEPT !.pc = "save"]] PROVE Working'
        BY <1>1, <2>1, GoesOn DEF WorkerPC
    <2>2. ASSUME wk' = [wk EXCEPT ![w] = Aiming(wk[w], "answer", NoEntry)] PROVE Working'
        BY <1>1, <2>2, AimsAt
    <2>3. CASE LookUpSender(w)
        <3> DEFINE u == SenderUid(w)
        <3>1. CASE Registered(u)
            <4>1. wk' = [wk EXCEPT ![w] = Aiming(wk[w], "compare", EntryOf(u))]
                BY <2>3, <3>1 DEF LookUpSender, WorkerGoes, Aiming
            <4> HIDE DEF u
            <4>2. EntryOf(u) \in Entry \cup {NoEntry}
                BY <3>1, Found
            <4> QED BY <1>1, <4>1, <4>2, AimsAt
        <3>2. CASE ~Registered(u)
            BY <2>1, <2>3, <3>2 DEF LookUpSender, WorkerGoes
        <3> QED BY <3>1, <3>2
    <2>4. CASE Compare(w)
        BY <2>1, <2>2, <2>4 DEF Compare, WorkerGoes, Aiming
    <2>5. CASE Save(w)
        BY <2>2, <2>5 DEF Save, WorkerGoes, Aiming
    <2> QED BY <2>3, <2>4, <2>5
<1>4. Mapped'
    <2>1. CASE Save(w)
        <3>1. MapSet(UidOf[wk[w].cli], wk[w].cli)
            BY <1>2, <2>1 DEF Save, SenderUid
        <3> QED BY <1>2, <3>1, SetKeeps DEF PlaceInv
    <2>2. CASE LookUpSender(w) \/ Compare(w)
        BY <2>2, KeepMapped DEF LookUpSender, Compare
    <2> QED BY <2>1, <2>2
<1> QED
    BY <1>1, <1>3, <1>4, KeepHistory, KeepLinks, KeepUnread, KeepUnwritten, KeepEpoll
       DEF PlaceInv

(* The answers.  An addressee that is found is one of the UID the packet is *)
(* addressed to, which is not the sender's.                                 *)
LEMMA AnswerKeeps ==
    ASSUME PlaceInv, NEW w \in Workers, NEW code \in {101, 102, 200}, NEW r,
           NEW from \in {"answer", "nouser", "found"},
           AnswerWith(w, from, code, r), wk[w].pc = from => GoodWorker(r)
    PROVE  PlaceInv'
<1> DEFINE m == [what |-> "status", code |-> code, muid |-> wk[w].pkt.muid]
           c == wk[w].cli
<1>1. /\ wk[w].pc = from /\ wk' = [wk EXCEPT ![w] = r] /\ PushOut(c, m)
      /\ handled' = handled \cup {wk[w].pkt}
      /\ UNCHANGED <<peer, mode, rq, clients, tasks, ep, sent, quiet>>
    BY DEF AnswerWith, WorkerGoes
<1>2. /\ c \in Conns /\ wk[w].pkt \in sent /\ wk[w].pkt.src = c
      /\ wk[w].pkt.muid \in 1..MaxSent
    BY <1>1, WorkerAt
<1>3. m \in Sound(c)
    BY <1>2 DEF Sound, Status
<1> HIDE DEF m
<1>4. Unwritten'
    BY <1>1, <1>2, <1>3, Pushed
<1>5. Working'
    BY <1>1, Changing
<1>6. History'
    BY <1>1, <1>2 DEF PlaceInv, History
<1> QED
    BY <1>1, <1>4, <1>5, <1>6, KeepLinks, KeepUnread, KeepMapped, KeepEpoll DEF PlaceInv

LEMMA AddresseeKeeps ==
    ASSUME PlaceInv, NEW w \in Workers, LookUpAddressee(w)
    PROVE  PlaceInv'
<1> DEFINE r == wk[w]
           u == r.pkt.to
<1>1. /\ r.pc = "answer" /\ r \in WorkerRec /\ GoodWorker(r) /\ Addressed(r.pkt)
      /\ r.cli \in Conns /\ r.pkt \in From(r.cli) /\ r.pkt.src = r.cli
      /\ UNCHANGED <<peer, mode, rq, wq, clients, tasks, ep, history>>
    BY WorkerAt DEF LookUpAddressee, WorkerGoes
<1>2. u # UidOf[r.cli]
    BY <1>1, NoConnAssumption DEF Addressed, ToSelf
<1>3. ASSUME Registered(u) PROVE Working'
    <2> DEFINE t == EntryOf(u)
               s == Aiming(r, "found", t)
    <2>1. wk' = [wk EXCEPT ![w] = s]
        BY <1>3 DEF LookUpAddressee, WorkerGoes, Aiming
    <2>2. Matches(t) /\ t.uid = u /\ t \in Entry \cup {NoEntry} /\ "found" \in WorkerPC
        BY <1>3, Found DEF WorkerPC
    <2> HIDE DEF t
    <2>3. s \in WorkerRec /\ s.pc = "found" /\ s.cli = r.cli /\ s.pkt = r.pkt /\ s.tgt = t
        BY <1>1, <2>2, Targeted
    <2> HIDE DEF s
    <2>4. GoodWorker(s)
        BY <1>1, <1>2, <2>2, <2>3 DEF GoodWorker
    <2>5. sent' = sent
        BY <1>1
    <2> QED BY ONLY PlaceInv, w \in Workers, <2>1, <2>4, <2>5, Changing
<1>4. ASSUME ~Registered(u) PROVE Working'
    <2>1. wk' = [wk EXCEPT ![w] = [wk[w] EXCEPT !.pc = "nouser"]]
        BY <1>4 DEF LookUpAddressee, WorkerGoes
    <2>2. wk[w].pc = "answer" /\ sent' = sent
        BY <1>1
    <2> HIDE DEF r, u
    <2> QED BY <2>1, <2>2, GoesOn DEF WorkerPC
<1>5. Working'
    BY <1>3, <1>4
<1> QED
    BY <1>1, <1>5, KeepHistory, KeepLinks, KeepUnread, KeepUnwritten, KeepMapped, KeepEpoll
       DEF PlaceInv

LEMMA AnswersKeep ==
    ASSUME PlaceInv, NEW w \in Workers,
           \/ Decline(w) \/ AnswerPing(w) \/ AnswerBroadcast(w)
           \/ AnswerNoUser(w) \/ AnswerFound(w)
    PROVE  PlaceInv'
<1> DEFINE r == wk[w]
<1>1. r.pc \in {"answer", "nouser", "found"} /\ r \in WorkerRec /\ GoodWorker(r)
      /\ r.cli \in Conns /\ r.pkt \in From(r.cli) /\ r.pkt.src = r.cli
    BY WorkerAt DEF Decline, AnswerPing, AnswerBroadcast, AnswerNoUser, AnswerFound,
                    AnswerWith, WorkerGoes
<1>2. ASSUME NEW pc \in {"flush", "len"}, pc = "len" => r.pkt.kind = "broadcast"
      PROVE  GoodWorker([r EXCEPT !.pc = pc])
    <2> DEFINE s == [r EXCEPT !.pc = pc]
    <2>1. s \in WorkerRec /\ s.pc = pc /\ s.cli = r.cli /\ s.pkt = r.pkt
        <3>1. pc \in WorkerPC
            BY DEF WorkerPC
        <3> HIDE DEF r
        <3> QED BY <1>1, <3>1, MovedOn
    <2> HIDE DEF s
    <2>2. GoodWorker(s)
        BY <1>1, <1>2, <2>1 DEF GoodWorker
    <2> QED BY <2>2 DEF s
<1>3. CASE Decline(w)
    BY <1>3, AnswerKeeps, IdleIsGood DEF Decline
<1>4. CASE AnswerPing(w) \/ AnswerNoUser(w)
    <2>1. GoodWorker([r EXCEPT !.pc = "flush"])
        BY <1>2
    <2> QED BY <1>4, <2>1, AnswerKeeps DEF AnswerPing, AnswerNoUser
<1>5. CASE AnswerBroadcast(w)
    <2>1. GoodWorker([r EXCEPT !.pc = "len"])
        BY <1>2, <1>5 DEF AnswerBroadcast
    <2> QED BY <1>5, <2>1, AnswerKeeps DEF AnswerBroadcast
<1>6. CASE AnswerFound(w)
    <2>0. r.pc = "found"
        BY <1>6 DEF AnswerFound, AnswerWith, WorkerGoes
    <2>1. CASE r.pkt.kind = "broadcast"
        <3> DEFINE s == Aiming(r, "len", NoEntry)
        <3>1. AnswerWith(w, "found", 200, s)
            BY <1>6, <2>1 DEF AnswerFound, Aiming
        <3>2. s \in WorkerRec /\ s.pc = "len" /\ s.cli = r.cli /\ s.pkt = r.pkt
            <4>1. "len" \in WorkerPC /\ NoEntry \in Entry \cup {NoEntry}
                BY DEF WorkerPC
            <4> QED BY <1>1, <4>1, Targeted
        <3> HIDE DEF s
        <3>3. GoodWorker(s)
            BY <1>1, <2>1, <3>2 DEF GoodWorker
        <3> QED BY <3>1, <3>3, AnswerKeeps
    <2>2. CASE r.pkt.kind # "broadcast"
        <3> DEFINE s == [r EXCEPT !.pc = "deliver"]
        <3>1. AnswerWith(w, "found", 200, s)
            BY <1>6, <2>2 DEF AnswerFound
        <3>2. s \in WorkerRec /\ s.pc = "deliver" /\ s.cli = r.cli /\ s.pkt = r.pkt
              /\ s.tgt = r.tgt
            <4>1. "deliver" \in WorkerPC
                BY DEF WorkerPC
            <4> HIDE DEF r
            <4> QED BY <1>1, <4>1, MovedOn
        <3> HIDE DEF s
        <3>3. GoodWorker(s)
            BY <1>1, <2>0, <3>2 DEF GoodWorker
        <3> QED BY <3>1, <3>3, AnswerKeeps
    <2> QED BY <2>1, <2>2
<1> QED
    BY <1>3, <1>4, <1>5, <1>6

(* A copy of the packet of w, to a connection of the UID u. *)
LEMMA CopyIsSound ==
    ASSUME PlaceInv, NEW w \in Workers, wk[w].pc \in {"deliver", "copy"},
           NEW t, Matches(t), t.uid # UidOf[wk[w].cli],
           wk[w].pc = "deliver" => t.uid = wk[w].pkt.to
    PROVE  t.cli \in Conns /\ Copy(w, t.uid) \in Sound(t.cli)
<1> DEFINE p == wk[w].pkt
           m == [what |-> "forward", from |-> UidOf[p.src], to |-> t.uid, muid |-> p.muid]
<1>1. p \in sent /\ p.src = wk[w].cli /\ p.src \in Conns /\ p.muid \in 1..MaxSent
    BY WorkerAt
<1>2. p.to = t.uid \/ p.kind = "broadcast"
    BY WorkerAt DEF GoodWorker
<1>3. t.cli \in Conns /\ t.uid \in Uids /\ UidOf[t.cli] = t.uid
    BY DEF Matches, Entry
<1>4. UidOf[p.src] \in Uids
    BY <1>1, UidAssumption
<1> HIDE DEF p
<1>5. m \in Forward /\ m.what = "forward" /\ m.to = t.uid /\ m.from = UidOf[p.src]
      /\ m.muid = p.muid
    BY <1>1, <1>3, <1>4 DEF Forward
<1> HIDE DEF m
<1>6. m \in Sound(t.cli)
    BY <1>1, <1>2, <1>3, <1>5 DEF Sound
<1>7. Copy(w, t.uid) = m
    BY DEF Copy, SenderUid, m, p
<1> QED
    BY <1>3, <1>6, <1>7

LEMMA DeliverKeeps ==
    ASSUME PlaceInv, NEW w \in Workers, Deliver(w)
    PROVE  PlaceInv'
<1> DEFINE r == wk[w]
           s == Aiming(r, "flush", NoEntry)
<1>1. /\ r.pc = "deliver" /\ wk' = [wk EXCEPT ![w] = s]
      /\ UNCHANGED <<peer, mode, rq, clients, tasks, ep, history>>
    BY DEF Deliver, WorkerGoes, Aiming
<1>2. /\ r \in WorkerRec /\ GoodWorker(r) /\ Matches(r.tgt) /\ r.tgt.uid = r.pkt.to
      /\ r.pkt.to # UidOf[r.cli]
    BY <1>1, WorkerAt DEF GoodWorker
<1>3. PICK t \in {r.tgt} \cup {e \in Entries : e.uid = r.tgt.uid} :
          PushOut(t.cli, Copy(w, r.pkt.to))
    BY DEF Deliver, Pointee
<1>4. Matches(t) /\ t.uid = r.pkt.to
    BY <1>2 DEF PlaceInv, Mapped, Entries
<1>5. Unwritten'
    BY <1>1, <1>2, <1>3, <1>4, CopyIsSound, Pushed
<1>6. s \in WorkerRec /\ s.pc = "flush" /\ s.cli = r.cli /\ s.pkt = r.pkt
    <2>1. "flush" \in WorkerPC /\ NoEntry \in Entry \cup {NoEntry}
        BY DEF WorkerPC
    <2> QED BY <1>2, <2>1, Targeted
<1> HIDE DEF s
<1>7. GoodWorker(s)
    BY <1>1, <1>2, <1>6 DEF GoodWorker
<1>8. Working'
    BY <1>1, <1>7, Changing
<1> QED
    BY <1>1, <1>5, <1>8, KeepHistory, KeepLinks, KeepUnread, KeepMapped, KeepEpoll
       DEF PlaceInv

(* The broadcast.  An entry read by index is one of the map at that time,   *)
(* and is left out where it is the sender's UID.                            *)
LEMMA BroadcastKeeps ==
    ASSUME PlaceInv, NEW w \in Workers,
           \/ BroadcastLen(w) \/ BroadcastSkip(w) \/ BroadcastMode(w)
           \/ BroadcastCopy(w) \/ BroadcastEnd(w)
    PROVE  PlaceInv'
<1> DEFINE r == wk[w]
<1>1. UNCHANGED <<peer, rq, clients, tasks, ep, history>>
    BY DEF BroadcastLen, BroadcastSkip, BroadcastMode, BroadcastCopy, BroadcastEnd
<1>2. /\ r.pc \in {"len", "loop", "copy"} /\ r \in WorkerRec /\ GoodWorker(r)
      /\ r.cli \in Conns /\ r.pkt \in From(r.cli) /\ r.pkt.kind = "broadcast"
      /\ r.pkt.src = r.cli
    BY WorkerAt DEF BroadcastLen, BroadcastSkip, BroadcastMode, BroadcastCopy,
                    BroadcastEnd, WorkerGoes, GoodWorker
<1>3. ASSUME NEW s \in WorkerRec, s.pc = "loop", s.cli = r.cli, s.pkt = r.pkt,
             wk' = [wk EXCEPT ![w] = s]
      PROVE  Working'
    <2>1. GoodWorker(s)
        BY <1>2, <1>3 DEF GoodWorker
    <2> QED BY <1>1, <1>3, <2>1, Changing
<1>4. Working' /\ Unwritten' /\ Links'
    <2>1. CASE BroadcastLen(w)
        <3> DEFINE s == [r EXCEPT !.pc = "loop", !.i = 1, !.len = Len(clients)]
        <3>1. wk' = [wk EXCEPT ![w] = s] /\ UNCHANGED <<mode, wq>>
            BY <2>1 DEF BroadcastLen, WorkerGoes
        <3>2. Len(clients) \in Nat
            BY DEF PlaceInv, Mapped
        <3>3. s \in WorkerRec /\ s.pc = "loop" /\ s.cli = r.cli /\ s.pkt = r.pkt
            BY <1>2, <3>2, Looping
        <3> HIDE DEF s
        <3>4. Working'
            BY <1>3, <3>1, <3>3
        <3> QED BY <1>1, <3>1, <3>4, KeepUnwritten, KeepLinks
    <2>2. CASE BroadcastSkip(w)
        <3> DEFINE s == [r EXCEPT !.i = @ + 1]
        <3>1. wk' = [wk EXCEPT ![w] = s] /\ UNCHANGED <<mode, wq>> /\ r.pc = "loop"
            BY <2>2 DEF BroadcastSkip, WorkerGoes
        <3>2. s \in WorkerRec /\ s.pc = "loop" /\ s.cli = r.cli /\ s.pkt = r.pkt
            BY <1>2, <3>1, Counted
        <3> HIDE DEF s
        <3>3. Working'
            BY <1>3, <3>1, <3>2
        <3> QED BY <1>1, <3>1, <3>3, KeepUnwritten, KeepLinks
    <2>3. CASE BroadcastMode(w)
        <3> DEFINE t == clients[r.i]
                   s == Aiming(r, "copy", t)
        <3>1. /\ wk' = [wk EXCEPT ![w] = s] /\ UNCHANGED wq /\ SetOut(t.cli)
              /\ r.i \in DOMAIN clients /\ t.uid # UidOf[r.pkt.src]
            BY <2>3 DEF BroadcastMode, WorkerGoes, Eligible, SenderUid, Aiming
        <3>2. Matches(t)
            BY <3>1 DEF PlaceInv, Mapped
        <3> HIDE DEF t
        <3>3. "copy" \in WorkerPC /\ t \in Entry \cup {NoEntry} /\ t.cli \in Conns
            BY <3>2 DEF Matches, WorkerPC, Entry
        <3>4. s \in WorkerRec /\ s.pc = "copy" /\ s.cli = r.cli /\ s.pkt = r.pkt /\ s.tgt = t
            BY <1>2, <3>3, Targeted
        <3> HIDE DEF s
        <3>5. GoodWorker(s)
            BY <1>2, <3>1, <3>2, <3>4 DEF GoodWorker
        <3>6. Working'
            BY <1>1, <3>1, <3>5, Changing
        <3>7. Links'
            BY <1>1, <3>1, <3>3 DEF SetOut, PlaceInv, Links
        <3> QED BY <1>1, <3>1, <3>6, <3>7, KeepUnwritten
    <2>4. CASE BroadcastCopy(w)
        <3> DEFINE s == [r EXCEPT !.pc = "loop", !.tgt = NoEntry, !.i = @ + 1]
                   t == r.tgt
        <3>1. /\ wk' = [wk EXCEPT ![w] = s] /\ UNCHANGED mode /\ r.pc = "copy"
              /\ PushOut(t.cli, Copy(w, t.uid))
            BY <2>4 DEF BroadcastCopy, WorkerGoes
        <3>2. Matches(t) /\ t.uid # UidOf[r.cli]
            BY <1>2, <3>1 DEF GoodWorker
        <3>3. Unwritten'
            BY <1>1, <3>1, <3>2, CopyIsSound, Pushed
        <3>4. s \in WorkerRec /\ s.pc = "loop" /\ s.cli = r.cli /\ s.pkt = r.pkt
            BY <1>2, Copied
        <3> HIDE DEF s
        <3>5. Working'
            BY <1>3, <3>1, <3>4
        <3> QED BY <1>1, <3>1, <3>3, <3>5, KeepLinks
    <2>5. CASE BroadcastEnd(w)
        <3>1. /\ wk' = [wk EXCEPT ![w] = [wk[w] EXCEPT !.pc = "flush"]]
              /\ wk[w].pc = "loop" /\ UNCHANGED <<mode, wq>>
            BY <2>5 DEF BroadcastEnd, WorkerGoes
        <3>2. Working'
            BY <1>1, <3>1, GoesOn DEF WorkerPC
        <3> QED BY <1>1, <3>1, <3>2, KeepUnwritten, KeepLinks
    <2> QED BY <2>1, <2>2, <2>3, <2>4, <2>5
<1> QED
    BY <1>1, <1>4, KeepHistory, KeepUnread, KeepMapped, KeepEpoll DEF PlaceInv

LEMMA FlushKeeps ==
    ASSUME PlaceInv, NEW w \in Workers, Flush(w)
    PROVE  PlaceInv'
<1>1. /\ wk' = [wk EXCEPT ![w] = Idle] /\ wk[w].pc = "flush" /\ SetOut(wk[w].cli)
      /\ UNCHANGED <<peer, rq, wq, clients, tasks, ep, history>>
    BY DEF Flush, WorkerGoes
<1>2. wk[w].cli \in Conns
    BY <1>1, WorkerAt
<1>3. Links'
    BY <1>1, <1>2 DEF SetOut, PlaceInv, Links
<1>4. Working'
    BY <1>1, Changing, IdleIsGood
<1> QED
    BY <1>1, <1>3, <1>4, KeepHistory, KeepUnread, KeepUnwritten, KeepMapped, KeepEpoll
       DEF PlaceInv

LEMMA WorkersKeep ==
    ASSUME PlaceInv, NEW w \in Workers, WorkerStep(w)
    PROVE  PlaceInv'
BY StartKeeps, PopKeeps, RegisterKeeps, AddresseeKeeps, AnswersKeep, DeliverKeeps,
   BroadcastKeeps, FlushKeeps DEF WorkerStep

-----------------------------------------------------------------------------
(* The peers. *)

LEMMA PeersKeep ==
    ASSUME PlaceInv, PeerStep
    PROVE  PlaceInv'
<1>1. ASSUME NEW c \in Conns, PeerClose(c) PROVE PlaceInv'
    <2>1. /\ eof' = [eof EXCEPT ![c] = TRUE]
          /\ UNCHANGED <<conn, mode, inbox, rq, wq, clients, tasks, ep, wk, history>>
        BY <1>1 DEF PeerClose
    <2>2. Links'
        BY <2>1 DEF PlaceInv, Links
    <2> QED BY <2>1, <2>2, KeepHistory, KeepUnread, KeepUnwritten, KeepMapped, KeepEpoll,
               KeepWorking DEF PlaceInv
<1>2. ASSUME NEW c \in Conns, NEW m \in Sendable, Send(c, m) PROVE PlaceInv'
    <2> DEFINE p == [muid |-> Cardinality(sent) + 1, src |-> c, to |-> m.to, kind |-> m.kind]
    <2>1. /\ Cardinality(sent) < MaxSent /\ sent' = sent \cup {p}
          /\ inbox' = [inbox EXCEPT ![c] = Append(@, p)]
          /\ UNCHANGED <<conn, eof, mode, rq, wq, clients, tasks, ep, wk, handled, quiet>>
        BY <1>2 DEF Send
    <2>2. p \in Packets /\ p.src = c
        <3>1. m.to \in Uids \cup {Server} /\ m.kind \in Kinds
              /\ [to |-> m.to, kind |-> m.kind] = m
            BY SendableAssumption
        <3>2. Cardinality(sent) \in Nat
            BY FS_CardinalityType DEF PlaceInv, History
        <3>3. Cardinality(sent) + 1 \in 1..MaxSent
            BY <2>1, <3>2, BoundsAssumption
        <3>4. p \in Packet
            BY <3>1, <3>3 DEF Packet
        <3> QED BY <3>1, <3>4 DEF Packets
    <2> HIDE DEF p
    <2>3. History'
        BY <2>1, <2>2, FS_AddElement DEF PlaceInv, History
    <2>4. \A d \in Conns : /\ \A s \in Seq(From(d)) : s \in Seq(From(d)')
                           /\ \A s \in Seq(Sound(d)) : s \in Seq(Sound(d)')
        BY <2>1, FromGrows
    <2>5. Unread'
        <3>1. p \in From(c)' /\ inbox[c] \in Seq(From(c)')
            BY <2>1, <2>2, <2>4 DEF From, PlaceInv, Unread
        <3>2. Append(inbox[c], p) \in Seq(From(c)')
            BY <3>1, QueueEnds
        <3>3. DOMAIN inbox' = Conns /\ \A d \in Conns :
                  inbox'[d] = IF d = c THEN Append(inbox[c], p) ELSE inbox[d]
            BY <2>1 DEF PlaceInv, Unread
        <3>4. \A d \in Conns : inbox'[d] \in Seq(From(d)') /\ rq'[d] \in Seq(From(d)')
            BY <2>1, <2>4, <3>2, <3>3 DEF PlaceInv, Unread
        <3> QED BY <2>1, <3>3, <3>4 DEF PlaceInv, Unread
    <2>6. Unwritten'
        BY <2>1, <2>4 DEF PlaceInv, Unwritten
    <2>7. GoodEpoll(ep)'
        BY <2>1, <2>4 DEF PlaceInv, GoodEpoll
    <2>8. Working'
        <3>1. \A d : From(d) \subseteq From(d)'
            BY <2>1 DEF From
        <3> QED BY <2>1, <3>1 DEF PlaceInv, Working, GoodWorker
    <2>9. Links'
        BY <2>1 DEF PlaceInv, Links
    <2> QED BY <2>1, <2>3, <2>5, <2>6, <2>7, <2>8, <2>9, KeepMapped DEF PlaceInv
<1> QED
    BY <1>1, <1>2 DEF PeerStep

-----------------------------------------------------------------------------
(* The epoll thread. *)

EpollAs(pc, c, b, u) == [pc |-> pc, c |-> c, batch |-> b, uid |-> u]

LEMMA OneField ==
    ASSUME NEW pc, NEW c, NEW b, NEW u, NEW x
    PROVE  LET r == EpollAs(pc, c, b, u)
           IN /\ [r EXCEPT !.pc = x] = EpollAs(x, c, b, u)
              /\ [r EXCEPT !.c = x] = EpollAs(pc, x, b, u)
              /\ [r EXCEPT !.batch = x] = EpollAs(pc, c, x, u)
              /\ [r EXCEPT !.uid = x] = EpollAs(pc, c, b, x)
              /\ r.pc = pc /\ r.c = c /\ r.batch = b /\ r.uid = u
BY DEF EpollAs

LEMMA Acting ==
    ASSUME NEW c, NEW pc
    PROVE  [Waiting EXCEPT !.pc = pc, !.c = c] = EpollAs(pc, c, <<>>, Server)
<1> DEFINE a == [Waiting EXCEPT !.pc = pc]
           d == [a EXCEPT !.c = c]
<1>0. Waiting = EpollAs("wait", NoConn, <<>>, Server)
    BY DEF Waiting, EpollAs
<1>1. a = EpollAs(pc, NoConn, <<>>, Server)
    BY <1>0, OneField
<1> HIDE DEF a
<1>2. d = EpollAs(pc, c, <<>>, Server)
    BY <1>1, OneField
<1> QED
    BY <1>2 DEF a, d

LEMMA ActingOn ==
    ASSUME NEW c, NEW pc, NEW b
    PROVE  [Waiting EXCEPT !.pc = pc, !.c = c, !.batch = b] = EpollAs(pc, c, b, Server)
<1> DEFINE a == [Waiting EXCEPT !.pc = pc]
           d == [a EXCEPT !.c = c]
           e == [d EXCEPT !.batch = b]
<1>0. Waiting = EpollAs("wait", NoConn, <<>>, Server)
    BY DEF Waiting, EpollAs
<1>1. a = EpollAs(pc, NoConn, <<>>, Server)
    BY <1>0, OneField
<1> HIDE DEF a
<1>2. d = EpollAs(pc, c, <<>>, Server)
    BY <1>1, OneField
<1> HIDE DEF d
<1>3. e = EpollAs(pc, c, b, Server)
    BY <1>2, OneField
<1> QED
    BY <1>3 DEF a, d, e

LEMMA ActingWith ==
    ASSUME NEW c, NEW pc, NEW u
    PROVE  [Waiting EXCEPT !.pc = pc, !.c = c, !.uid = u] = EpollAs(pc, c, <<>>, u)
<1> DEFINE a == [Waiting EXCEPT !.pc = pc]
           d == [a EXCEPT !.c = c]
           e == [d EXCEPT !.uid = u]
<1>0. Waiting = EpollAs("wait", NoConn, <<>>, Server)
    BY DEF Waiting, EpollAs
<1>1. a = EpollAs(pc, NoConn, <<>>, Server)
    BY <1>0, OneField
<1> HIDE DEF a
<1>2. d = EpollAs(pc, c, <<>>, Server)
    BY <1>1, OneField
<1> HIDE DEF d
<1>3. e = EpollAs(pc, c, <<>>, u)
    BY <1>2, OneField
<1> QED
    BY <1>3 DEF a, d, e

LEMMA GoingOn ==
    ASSUME NEW r \in EpollRec, NEW pc
    PROVE  /\ [r EXCEPT !.pc = pc] = EpollAs(pc, r.c, r.batch, r.uid)
           /\ [r EXCEPT !.pc = pc, !.batch = Tail(@)]
                = EpollAs(pc, r.c, Tail(r.batch), r.uid)
           /\ [r EXCEPT !.pc = pc, !.uid = Server] = EpollAs(pc, r.c, r.batch, Server)
<1>0. r = EpollAs(r.pc, r.c, r.batch, r.uid)
    BY DEF EpollRec, EpollAs
<1> DEFINE a == [r EXCEPT !.pc = pc]
<1>1. a = EpollAs(pc, r.c, r.batch, r.uid)
    BY <1>0, OneField
<1> HIDE DEF a
<1> DEFINE t == Tail(r.batch)
<1> HIDE DEF t
<1>2. /\ [a EXCEPT !.batch = t] = EpollAs(pc, r.c, t, r.uid)
      /\ [a EXCEPT !.uid = Server] = EpollAs(pc, r.c, r.batch, Server)
    BY <1>1, OneField
<1>3. [r EXCEPT !.pc = pc, !.batch = Tail(@)] = [a EXCEPT !.batch = t]
    BY DEF a, t
<1>4. [r EXCEPT !.pc = pc, !.uid = Server] = [a EXCEPT !.uid = Server]
    BY DEF a
<1> QED
    BY <1>1, <1>2, <1>3, <1>4 DEF a, t

LEMMA Acts ==
    ASSUME NEW pc \in EpollPC, NEW c \in Conns \cup {NoConn}, NEW b \in Seq(Packets),
           NEW u \in Uids \cup {Server}
    PROVE  EpollAs(pc, c, b, u) \in EpollRec
BY DEF EpollAs, EpollRec

(* The step of the epoll thread is good again. *)
LEMMA EpollMoves ==
    ASSUME PlaceInv, sent' = sent, NEW pc \in EpollPC, NEW c \in Conns \cup {NoConn},
           NEW b \in Seq(Packets), NEW u \in Uids \cup {Server}, ep' = EpollAs(pc, c, b, u),
           pc # "wait" => c \in Conns,
           pc \in {"push", "create"} => b \in Seq(From(c)),
           pc = "push" => b # <<>>
    PROVE  GoodEpoll(ep)'
<1> DEFINE r == EpollAs(pc, c, b, u)
<1>1. r \in EpollRec
    BY Acts
<1>2. r.pc = pc /\ r.c = c /\ r.batch = b /\ r.uid = u
    BY DEF EpollAs
<1>3. From(c)' = From(c)
    BY DEF From
<1> HIDE DEF r
<1>4. ep' = r
    BY DEF r
<1> QED
    BY <1>1, <1>2, <1>3, <1>4 DEF GoodEpoll

LEMMA EpollAt ==
    ASSUME PlaceInv
    PROVE  /\ ep \in EpollRec /\ ep.batch \in Seq(Packets) /\ ep.uid \in Uids \cup {Server}
           /\ ep.pc # "wait" => ep.c \in Conns
           /\ ep.pc \in {"push", "create"} => ep.batch \in Seq(From(ep.c))
           /\ ep.pc = "push" => ep.batch # <<>>
BY DEF PlaceInv, GoodEpoll, EpollRec

LEMMA Rests ==
    ASSUME PlaceInv, sent' = sent, ep' = Waiting
    PROVE  GoodEpoll(ep)'
<1>1. "wait" \in EpollPC /\ <<>> \in Seq(Packets) /\ Waiting = EpollAs("wait", NoConn, <<>>, Server)
    BY EmptySeq DEF EpollPC, EpollAs, Waiting
<1> QED
    BY <1>1, EpollMoves

LEMMA EventsKeep ==
    ASSUME PlaceInv, EpollEvent
    PROVE  PlaceInv'
<1>1. ASSUME NEW c \in Conns, Accept(c) PROVE PlaceInv'
    <2>1. /\ conn' = [conn EXCEPT ![c] = "open"]
          /\ UNCHANGED <<eof, mode, inbox, rq, wq, clients, tasks, ep, wk, history>>
        BY <1>1 DEF Accept, EpollGoes
    <2>2. Links'
        BY <2>1 DEF PlaceInv, Links
    <2> QED BY <2>1, <2>2, KeepHistory, KeepUnread, KeepUnwritten, KeepMapped, KeepEpoll,
               KeepWorking DEF PlaceInv
<1>2. ASSUME NEW c \in Conns, Read(c) PROVE PlaceInv'
    <2> DEFINE b == inbox[c]
    <2>1. /\ ep' = [Waiting EXCEPT !.pc = "push", !.c = c, !.batch = b]
          /\ inbox' = [inbox EXCEPT ![c] = <<>>] /\ b # <<>>
          /\ UNCHANGED <<conn, eof, mode, rq, wq, clients, tasks, wk, history>>
        BY <1>2 DEF Read, EpollGoes
    <2>2. b \in Seq(From(c)) /\ b \in Seq(Packets)
        <3>1. From(c) \subseteq Packets
            BY DEF From, PlaceInv, History
        <3>2. b \in Seq(From(c))
            BY DEF PlaceInv, Unread
        <3> QED BY <3>1, <3>2
    <2> HIDE DEF b
    <2>3. Unread'
        <3>1. \A d \in Conns : From(d)' = From(d)
            BY <2>1 DEF From
        <3>2. <<>> \in Seq(From(c))
            BY QueueEnds, <2>2
        <3>3. DOMAIN inbox' = Conns /\ \A d \in Conns : inbox'[d] \in Seq(From(d))
            BY <2>1, <3>2 DEF PlaceInv, Unread
        <3> QED BY <2>1, <3>1, <3>3 DEF PlaceInv, Unread
    <2>4. GoodEpoll(ep)'
        <3> DEFINE pc == "push"
        <3>1. pc \in EpollPC /\ pc # "wait" /\ Server \in Uids \cup {Server}
            BY DEF EpollPC
        <3>2. ep' = [Waiting EXCEPT !.pc = pc, !.c = c, !.batch = b]
            BY <2>1
        <3> HIDE DEF pc
        <3>3. ep' = EpollAs(pc, c, b, Server)
            BY <3>2, ActingOn
        <3> QED BY <2>1, <2>2, <3>1, <3>3, EpollMoves
    <2> QED BY <2>1, <2>3, <2>4, KeepHistory, KeepLinks, KeepUnwritten, KeepMapped,
               KeepWorking DEF PlaceInv
<1>3. ASSUME NEW c \in Conns, Write(c) PROVE PlaceInv'
    <2>1. /\ wq' = [wq EXCEPT ![c] = Tail(wq[c])] /\ Len(wq[c]) > 1
          /\ UNCHANGED <<peer, mode, rq, clients, tasks, ep, wk, history>>
        BY <1>3 DEF Write, EpollGoes
    <2>2. wq[c] \in Seq(Sound(c))
        BY DEF PlaceInv, Unwritten
    <2>3. Tail(wq[c]) \in Seq(Sound(c))
        <3>1. Len(wq[c]) \in Nat
            BY <2>2, QueueEnds
        <3>2. wq[c] # <<>>
            BY <2>1, <2>2, <3>1, QueueEnds
        <3> QED BY <2>2, <3>2, QueueEnds
    <2>4. Unwritten'
        BY <2>1, <2>3, WriteQueue
    <2> QED BY <2>1, <2>4, KeepHistory, KeepLinks, KeepUnread, KeepMapped, KeepEpoll,
               KeepWorking DEF PlaceInv
<1>4. ASSUME NEW c \in Conns, NEW pc \in {"free", "close"},
             ep' = [Waiting EXCEPT !.pc = pc, !.c = c], sent' = sent
      PROVE  GoodEpoll(ep)'
    <2>1. pc \in EpollPC /\ pc \notin {"wait", "push", "create"} /\ <<>> \in Seq(Packets)
        BY DEF EpollPC
    <2>2. ep' = EpollAs(pc, c, <<>>, Server)
        BY <1>4, <2>1, Acting, UidAssumption
    <2> QED BY <1>4, <2>1, <2>2, EpollMoves
<1>5. ASSUME NEW c \in Conns, WriteLast(c) PROVE PlaceInv'
    <2>1. /\ ep' = [Waiting EXCEPT !.pc = "free", !.c = c]
          /\ UNCHANGED <<peer, mode, rq, wq, clients, tasks, wk, history>>
        BY <1>5 DEF WriteLast, EpollGoes
    <2>2. GoodEpoll(ep)'
        BY <1>4, <2>1
    <2> QED BY <2>1, <2>2, KeepHistory, KeepLinks, KeepUnread, KeepUnwritten, KeepMapped,
               KeepWorking DEF PlaceInv
<1>6. ASSUME NEW c \in Conns, Hangup(c) PROVE PlaceInv'
    <2> DEFINE i == CHOOSE i \in DOMAIN clients : clients[i].cli = c
    <2>1. /\ UNCHANGED <<peer, mode, rq, wq, clients, tasks, wk, sent, handled>>
          /\ quiet' \subseteq quiet \cup {c}
          /\ \/ /\ ep' = [Waiting EXCEPT !.pc = "erase", !.c = c, !.uid = clients[i].uid]
                /\ i \in DOMAIN clients
             \/ ep' = [Waiting EXCEPT !.pc = "close", !.c = c]
        BY <1>6 DEF Hangup, EpollGoes
    <2> HIDE DEF i
    <2>2. GoodEpoll(ep)'
        <3> DEFINE u == clients[i].uid
                   pc == "erase"
        <3>1. ASSUME ep' = [Waiting EXCEPT !.pc = "erase", !.c = c, !.uid = clients[i].uid],
                     i \in DOMAIN clients
              PROVE  GoodEpoll(ep)'
            <4>1. u \in Uids
                BY <3>1 DEF PlaceInv, Mapped, Matches, Entry
            <4>2. pc \in EpollPC /\ pc \notin {"wait", "push", "create"} /\ <<>> \in Seq(Packets)
                BY DEF EpollPC
            <4>3. ep' = [Waiting EXCEPT !.pc = pc, !.c = c, !.uid = u]
                BY <3>1
            <4> HIDE DEF pc, u
            <4>4. ep' = EpollAs(pc, c, <<>>, u)
                <5>1. \A x, y, z : [Waiting EXCEPT !.pc = x, !.c = y, !.uid = z]
                                     = EpollAs(x, y, <<>>, z)
                    BY ActingWith
                <5> QED BY <4>3, <5>1
            <4> QED BY <2>1, <4>1, <4>2, <4>4, EpollMoves
        <3> QED BY <1>4, <2>1, <3>1
    <2>3. Links'
        BY <2>1 DEF PlaceInv, Links
    <2> QED BY <2>1, <2>2, <2>3, KeepHistory, KeepUnread, KeepUnwritten, KeepMapped,
               KeepWorking DEF PlaceInv
<1> QED
    BY <1>1, <1>2, <1>3, <1>5, <1>6 DEF EpollEvent

LEMMA EpollOn ==
    ASSUME PlaceInv, sent' = sent, NEW pc \in {"push", "mode"},
           ep' = [ep EXCEPT !.pc = pc], ep.pc # "wait",
           pc = "push" => ep.pc = "create" /\ ep.batch # <<>>
    PROVE  GoodEpoll(ep)'
<1>1. ep' = EpollAs(pc, ep.c, ep.batch, ep.uid)
    BY EpollAt, GoingOn
<1>2. pc \in EpollPC
    BY DEF EpollPC
<1>3. /\ ep.batch \in Seq(Packets) /\ ep.uid \in Uids \cup {Server} /\ ep.c \in Conns
      /\ pc \in {"push", "create"} => ep.batch \in Seq(From(ep.c))
    BY EpollAt
<1> QED
    BY <1>1, <1>2, <1>3, EpollMoves

LEMMA EnqueueKeeps ==
    ASSUME PlaceInv, Enqueue
    PROVE  PlaceInv'
<1> DEFINE c == ep.c
           x == Head(ep.batch)
           t == Tail(ep.batch)
<1>1. /\ ep.pc = "push" /\ ep' = [ep EXCEPT !.pc = "create", !.batch = Tail(@)]
      /\ rq' = [rq EXCEPT ![c] = Append(rq[c], x)]
      /\ UNCHANGED <<peer, mode, wq, clients, tasks, wk, history>>
    BY DEF Enqueue, EpollGoes
<1>2. c \in Conns /\ ep.batch \in Seq(From(c)) /\ ep.batch # <<>>
      /\ ep \in EpollRec /\ ep.uid \in Uids \cup {Server}
    BY <1>1, EpollAt
<1>3. x \in From(c) /\ t \in Seq(From(c))
    BY <1>2, QueueEnds
<1>4. From(c) \subseteq Packets
    BY DEF From, PlaceInv, History
<1>5. t \in Seq(Packets)
    <2> HIDE DEF t
    <2> QED BY <1>3, <1>4
<1>6. GoodEpoll(ep)'
    <2> DEFINE pc == "create"
    <2>1. pc \in EpollPC /\ pc # "push" /\ ep' = [ep EXCEPT !.pc = pc, !.batch = Tail(@)]
        BY <1>1 DEF EpollPC
    <2> HIDE DEF pc
    <2>2. ep' = EpollAs(pc, c, t, ep.uid)
        <3>1. \A r \in EpollRec : \A y : [r EXCEPT !.pc = y, !.batch = Tail(@)]
                                       = EpollAs(y, r.c, Tail(r.batch), r.uid)
            BY GoingOn
        <3> QED BY <1>2, <2>1, <3>1
    <2> HIDE DEF c, t
    <2> QED BY <1>1, <1>2, <1>3, <1>5, <2>1, <2>2, EpollMoves
<1>7. Unread'
    <2>1. rq[c] \in Seq(From(c))
        BY <1>2 DEF PlaceInv, Unread
    <2> HIDE DEF c, x
    <2>2. Append(rq[c], x) \in Seq(From(c))
        BY <1>3, <2>1, QueueEnds
    <2> QED BY <1>1, <1>2, <2>2, ReadQueue
<1> QED
    BY <1>1, <1>6, <1>7, KeepHistory, KeepLinks, KeepUnwritten, KeepMapped, KeepWorking
       DEF PlaceInv

LEMMA CreateKeeps ==
    ASSUME PlaceInv, Create
    PROVE  PlaceInv'
<1>1. /\ ep.pc = "create" /\ tasks' = Append(tasks, ep.c)
      /\ ep' = IF ep.batch = <<>> THEN Waiting ELSE [ep EXCEPT !.pc = "push"]
      /\ UNCHANGED <<peer, mode, rq, wq, clients, wk, history>>
    BY DEF Create, EpollGoes
<1>2. ep.c \in Conns
    BY <1>1, EpollAt
<1>3. Links'
    <2>1. Append(tasks, ep.c) \in Seq(Conns)
        BY <1>2, QueueEnds DEF PlaceInv, Links
    <2> QED BY <1>1, <2>1 DEF PlaceInv, Links
<1>4. GoodEpoll(ep)'
    BY <1>1, Rests, EpollOn
<1> QED
    BY <1>1, <1>3, <1>4, KeepHistory, KeepUnread, KeepUnwritten, KeepMapped, KeepWorking
       DEF PlaceInv

LEMMA WrittenKeeps ==
    ASSUME PlaceInv, FreeWritten \/ ModeIn
    PROVE  PlaceInv'
<1>1. CASE FreeWritten
    <2>1. /\ ep.pc = "free" /\ ep' = [ep EXCEPT !.pc = "mode"]
          /\ wq' = [wq EXCEPT ![ep.c] = <<>>]
          /\ UNCHANGED <<peer, mode, rq, clients, tasks, wk, history>>
        BY <1>1 DEF FreeWritten, EpollGoes
    <2>2. ep.c \in Conns /\ <<>> \in Seq(Sound(ep.c))
        BY <2>1, EpollAt, EmptySeq
    <2>3. Unwritten'
        BY <2>1, <2>2, WriteQueue
    <2>4. GoodEpoll(ep)'
        BY <2>1, EpollOn
    <2> QED BY <2>1, <2>3, <2>4, KeepHistory, KeepLinks, KeepUnread, KeepMapped, KeepWorking
               DEF PlaceInv
<1>2. CASE ModeIn
    <2>1. /\ ep.pc = "mode" /\ ep' = Waiting /\ mode' = [mode EXCEPT ![ep.c] = "in"]
          /\ UNCHANGED <<peer, rq, wq, clients, tasks, wk, history>>
        BY <1>2 DEF ModeIn, EpollGoes
    <2>2. Links'
        BY <2>1 DEF PlaceInv, Links
    <2>3. GoodEpoll(ep)'
        BY <2>1, Rests
    <2> QED BY <2>1, <2>2, <2>3, KeepHistory, KeepUnread, KeepUnwritten, KeepMapped, KeepWorking
               DEF PlaceInv
<1> QED
    BY <1>1, <1>2

LEMMA UnregisterKeeps ==
    ASSUME PlaceInv, Unregister
    PROVE  PlaceInv'
<1>1. /\ ep.pc = "erase" /\ ep' = [ep EXCEPT !.pc = "close", !.uid = Server]
      /\ MapErase(ep.uid) /\ UNCHANGED <<peer, mode, rq, wq, tasks, wk, history>>
    BY DEF Unregister, EpollGoes
<1>2. ep \in EpollRec /\ ep.c \in Conns /\ ep.batch \in Seq(Packets)
    BY <1>1, EpollAt
<1>3. Mapped'
    BY <1>1, EraseKeeps DEF PlaceInv
<1>4. GoodEpoll(ep)'
    <2> DEFINE pc == "close"
    <2>1. pc \in EpollPC /\ pc \notin {"push", "create"}
          /\ ep' = [ep EXCEPT !.pc = pc, !.uid = Server]
        BY <1>1 DEF EpollPC
    <2> HIDE DEF pc
    <2>2. ep' = EpollAs(pc, ep.c, ep.batch, Server)
        <3>1. \A r \in EpollRec : \A y : [r EXCEPT !.pc = y, !.uid = Server]
                                       = EpollAs(y, r.c, r.batch, Server)
            BY GoingOn
        <3> QED BY <1>2, <2>1, <3>1
    <2> QED BY <1>1, <1>2, <2>1, <2>2, EpollMoves
<1> QED
    BY <1>1, <1>3, <1>4, KeepHistory, KeepLinks, KeepUnread, KeepUnwritten, KeepWorking
       DEF PlaceInv

LEMMA CloseKeeps ==
    ASSUME PlaceInv, Close
    PROVE  PlaceInv'
<1> DEFINE c == ep.c
<1>1. /\ ep.pc = "close" /\ ep' = Waiting /\ conn' = [conn EXCEPT ![c] = "closed"]
      /\ rq' = [rq EXCEPT ![c] = <<>>] /\ wq' = [wq EXCEPT ![c] = <<>>]
      /\ inbox' = [inbox EXCEPT ![c] = <<>>] /\ mode' = [mode EXCEPT ![c] = "in"]
      /\ UNCHANGED <<eof, clients, tasks, wk, history>>
    BY DEF Close, EpollGoes
<1>2. c \in Conns
    BY <1>1, EpollAt
<1> HIDE DEF c
<1>3. \A S : <<>> \in Seq(S)
    BY EmptySeq
<1>4. Links'
    BY <1>1 DEF PlaceInv, Links
<1>5. Unwritten'
    BY <1>1, <1>2, <1>3, WriteQueue
<1>6. Unread'
    <2>1. \A d \in Conns : From(d)' = From(d)
        BY <1>1 DEF From
    <2>2. \A d \in Conns : inbox'[d] \in Seq(From(d)) /\ rq'[d] \in Seq(From(d))
        BY <1>1, <1>3 DEF PlaceInv, Unread
    <2>3. DOMAIN inbox' = Conns /\ DOMAIN rq' = Conns
        BY <1>1 DEF PlaceInv, Unread
    <2> QED BY <2>1, <2>2, <2>3 DEF Unread
<1>7. GoodEpoll(ep)'
    BY <1>1, Rests
<1> QED
    BY <1>1, <1>4, <1>5, <1>6, <1>7, KeepHistory, KeepMapped, KeepWorking DEF PlaceInv

-----------------------------------------------------------------------------
(* The inductive invariant, and what follows from it. *)

LEMMA PlaceInit == Init => PlaceInv
<1> SUFFICES ASSUME Init PROVE PlaceInv
    OBVIOUS
<1>1. \A S : <<>> \in Seq(S)
    BY EmptySeq
<1>2. History
    BY FS_EmptySet DEF Init, History
<1>3. Links /\ Unread /\ Unwritten
    BY <1>1 DEF Init, Links, Unread, Unwritten
<1>4. Mapped
    <2>1. clients \in Seq(Entry) /\ clients = <<>> /\ DOMAIN clients = {}
        BY <1>1 DEF Init
    <2> QED BY <2>1 DEF Mapped
<1>5. GoodEpoll(ep)
    BY <1>1 DEF Init, GoodEpoll, Waiting, EpollRec, EpollPC
<1>6. Working
    BY IdleIsGood DEF Init, Working
<1> QED
    BY <1>2, <1>3, <1>4, <1>5, <1>6 DEF PlaceInv

LEMMA PlaceNext == PlaceInv /\ [Next]_vars => PlaceInv'
<1> SUFFICES ASSUME PlaceInv, [Next]_vars PROVE PlaceInv'
    OBVIOUS
<1>1. CASE PeerStep
    BY <1>1, PeersKeep
<1>2. CASE EpollEvent
    BY <1>2, EventsKeep
<1>3. CASE EpollWork
    BY <1>3, EnqueueKeeps, CreateKeeps, WrittenKeeps, UnregisterKeeps, CloseKeeps
       DEF EpollWork
<1>4. CASE \E w \in Workers : WorkerStep(w)
    BY <1>4, WorkersKeep
<1>5. CASE UNCHANGED vars
    BY <1>5, KeepHistory, KeepLinks, KeepUnread, KeepUnwritten, KeepMapped, KeepEpoll,
       KeepWorking DEF vars, PlaceInv
<1> QED
    BY <1>1, <1>2, <1>3, <1>4, <1>5 DEF Next

LEMMA PlaceHolds == Spec => []PlaceInv
BY PlaceInit, PlaceNext, PTL DEF Spec

(* The queues and the workers' records are functions. *)
Tables == /\ inbox = [c \in Conns |-> inbox[c]] /\ rq = [c \in Conns |-> rq[c]]
          /\ wq = [c \in Conns |-> wq[c]] /\ wk = [w \in Workers |-> wk[w]]

LEMMA TablesNext == Tables /\ [Next]_vars => Tables'
<1> SUFFICES ASSUME Tables, [Next]_vars PROVE Tables'
    OBVIOUS
<1>1. \A S, f, x, v : f = [c \in S |-> f[c]] =>
                          LET g == [f EXCEPT ![x] = v] IN g = [c \in S |-> g[c]]
    OBVIOUS
<1>2. CASE PeerStep
    BY <1>1, <1>2 DEF Tables, PeerStep, PeerClose, Send
<1>3. CASE EpollEvent
    BY <1>1, <1>3 DEF Tables, EpollEvent, Accept, Read, Write, WriteLast, Hangup
<1>4. CASE EpollWork
    BY <1>1, <1>4 DEF Tables, EpollWork, Enqueue, Create, FreeWritten, ModeIn, Unregister,
                      Close
<1>5. CASE \E w \in Workers : WorkerStep(w)
    <2> PICK w \in Workers : WorkerStep(w)
        BY <1>5
    <2>1. UNCHANGED inbox
        BY DEF WorkerStep, Start, PopNone, Pop, PopLast, FreeRead, LookUpSender, Compare,
               Save, Decline, AnswerPing, AnswerBroadcast, LookUpAddressee, AnswerNoUser,
               AnswerFound, AnswerWith, Deliver,
               BroadcastLen, BroadcastSkip, BroadcastMode, BroadcastCopy, BroadcastEnd, Flush
    <2>2. \E r : wk' = [wk EXCEPT ![w] = r]
        BY DEF WorkerStep, Start, PopNone, Pop, PopLast, FreeRead, LookUpSender, Compare,
               Save, Decline, AnswerPing, AnswerBroadcast, LookUpAddressee, AnswerNoUser,
               AnswerFound, AnswerWith, Deliver,
               BroadcastLen, BroadcastSkip, BroadcastMode, BroadcastCopy, BroadcastEnd, Flush,
               WorkerGoes
    <2>3. UNCHANGED rq \/ \E c, v : rq' = [rq EXCEPT ![c] = v]
        BY DEF WorkerStep, Start, PopNone, Pop, PopLast, FreeRead, LookUpSender, Compare,
               Save, Decline, AnswerPing, AnswerBroadcast, LookUpAddressee, AnswerNoUser,
               AnswerFound, AnswerWith, Deliver,
               BroadcastLen, BroadcastSkip, BroadcastMode, BroadcastCopy, BroadcastEnd, Flush
    <2>4. UNCHANGED wq \/ \E c, v : wq' = [wq EXCEPT ![c] = v]
        BY DEF WorkerStep, Start, PopNone, Pop, PopLast, FreeRead, LookUpSender, Compare,
               Save, Decline, AnswerPing, AnswerBroadcast, LookUpAddressee, AnswerNoUser,
               AnswerFound, AnswerWith, Deliver,
               BroadcastLen, BroadcastSkip, BroadcastMode, BroadcastCopy, BroadcastEnd, Flush,
               PushOut
    <2> QED BY <1>1, <2>1, <2>2, <2>3, <2>4 DEF Tables
<1>6. CASE UNCHANGED vars
    BY <1>6 DEF Tables, vars
<1> QED
    BY <1>2, <1>3, <1>4, <1>5, <1>6 DEF Next

LEMMA TablesHold == Spec => []Tables
<1>1. Init => Tables
    BY DEF Init, Tables
<1> QED
    BY <1>1, TablesNext, PTL DEF Spec

LEMMA PlaceGives == PlaceInv /\ Tables => TypeOK /\ Registry /\ NoMisdelivery
<1> SUFFICES ASSUME PlaceInv, Tables PROVE TypeOK /\ Registry /\ NoMisdelivery
    OBVIOUS
<1>1. \A c \in Conns : From(c) \subseteq Packets /\ Sound(c) \subseteq Status \cup Forward
    BY DEF From, Sound, PlaceInv, History
<1>2. TypeOK
    <2>1. /\ inbox \in [Conns -> Seq(Packets)] /\ rq \in [Conns -> Seq(Packets)]
          /\ wq \in [Conns -> Seq(Status \cup Forward)]
        <3>1. \A c \in Conns : /\ inbox[c] \in Seq(Packets) /\ rq[c] \in Seq(Packets)
                               /\ wq[c] \in Seq(Status \cup Forward)
            BY <1>1 DEF PlaceInv, Unread, Unwritten
        <3> QED BY <3>1 DEF Tables
    <2>2. /\ ep \in [pc : {"wait", "push", "create", "free", "mode", "erase", "close"},
                     c : Conns \cup {NoConn}, batch : Seq(Packets), uid : Uids \cup {Server}]
        BY DEF PlaceInv, GoodEpoll, EpollRec, EpollPC
    <2>3. wk \in [Workers ->
                    [pc : {"idle", "pop", "free", "register", "compare", "save",
                           "answer", "nouser", "found", "deliver", "len", "loop",
                           "copy", "flush"},
                     cli : Conns \cup {NoConn}, pkt : Packets \cup {NoPacket},
                     tgt : Entry \cup {NoEntry}, i : Nat, len : Nat]]
        BY DEF Tables, PlaceInv, Working, GoodWorker, WorkerRec, WorkerPC
    <2> QED BY <2>1, <2>2, <2>3 DEF TypeOK, PlaceInv, History, Links, Mapped
<1>3. Registry
    BY DEF Registry, Entries, PlaceInv, Mapped, Matches
<1>4. NoMisdelivery
    <2>1. ASSUME NEW c \in Conns, NEW k \in DOMAIN wq[c] PROVE wq[c][k] \in Sound(c)
        BY DEF PlaceInv, Unwritten
    <2> QED BY <2>1 DEF NoMisdelivery, Sound
<1> QED
    BY <1>2, <1>3, <1>4

(* Every variable of the server keeps to its values; in particular a worker *)
(* that has taken a packet holds one that was sent.                         *)
THEOREM RelayTypes == Spec => []TypeOK
BY PlaceHolds, TablesHold, PlaceGives, PTL

(* dcn_clients never holds two entries of one UID, whichever workers run    *)
(* map_set and map_erase in whatever order, and an entry leads to a         *)
(* connection that sends from its UID.                                      *)
THEOREM RegistryIsKept == Spec => []Registry
BY PlaceHolds, TablesHold, PlaceGives, PTL

(* A status answer is only ever queued for the connection its packet came   *)
(* from, and a forwarded packet only for a connection of the UID it is for, *)
(* never its sender's: even by a worker that reads to_cli_ptr late.         *)
THEOREM NothingIsMisdelivered == Spec => []NoMisdelivery
BY PlaceHolds, TablesHold, PlaceGives, PTL

-----------------------------------------------------------------------------
(* Connections that end with no work pending.  Between the search for the   *)
(* key and its erasure no other entry of such a connection can appear: only *)
(* a worker that has popped one of its packets registers it, and none can.  *)

Ending(c) ==
    /\ conn[c] = "closed" \/ (ep.pc \in {"erase", "close"} /\ ep.c = c)
    /\ rq[c] = <<>>
    /\ \A w \in Workers : wk[w].cli = c => wk[w].pc = "pop"
    /\ \A e \in Entries : e.cli = c => ep.pc = "erase" /\ ep.c = c /\ ep.uid = e.uid

QuietInv == /\ ep.pc # "wait" => Open(ep.c)
            /\ \A c \in quiet : Ending(c)

LEMMA QuietPeers ==
    ASSUME PlaceInv, QuietInv, PeerStep
    PROVE  QuietInv'
<1>1. UNCHANGED <<conn, ep, rq, wk, clients, quiet>>
    BY DEF PeerStep, PeerClose, Send
<1> QED
    BY <1>1 DEF QuietInv, Ending, Open, Entries

LEMMA QuietEvents ==
    ASSUME PlaceInv, QuietInv, EpollEvent
    PROVE  QuietInv'
<1>1. PICK c \in Conns : Accept(c) \/ Read(c) \/ Write(c) \/ WriteLast(c) \/ Hangup(c)
    BY DEF EpollEvent
<1>2. ep.pc = "wait" /\ UNCHANGED <<rq, wk, clients>> /\ Entries' = Entries
    BY <1>1 DEF Accept, Read, Write, WriteLast, Hangup, EpollGoes, Entries
<1>3. \A d \in quiet : /\ conn[d] = "closed" /\ rq[d] = <<>> /\ d \in Conns
                       /\ \A w \in Workers : wk[w].cli = d => wk[w].pc = "pop"
                       /\ \A e \in Entries : e.cli # d
    BY <1>2 DEF QuietInv, Ending, PlaceInv, Links
<1>4. CASE Accept(c)
    <2>1. conn[c] = "none" /\ conn' = [conn EXCEPT ![c] = "open"] /\ UNCHANGED <<ep, quiet>>
        BY <1>4 DEF Accept, EpollGoes
    <2>2. \A d \in quiet : conn'[d] = "closed"
        BY <1>3, <2>1 DEF PlaceInv, Links
    <2> QED BY <1>2, <1>3, <2>1, <2>2 DEF QuietInv, Ending
<1>5. ASSUME Read(c) \/ Write(c) \/ WriteLast(c)
      PROVE  QuietInv'
    <2>1. UNCHANGED <<conn, quiet>> /\ Open(c)
        BY <1>5 DEF Read, Write, WriteLast
    <2>2. ep' = ep \/ ep'.c = c
        <3> DEFINE b == inbox[c]
        <3>1. Write(c) \/ ep' = [Waiting EXCEPT !.pc = "push", !.c = c, !.batch = b]
                       \/ ep' = [Waiting EXCEPT !.pc = "free", !.c = c]
            BY <1>5 DEF Read, WriteLast, EpollGoes
        <3> HIDE DEF b
        <3>2. \A x, y, z : [Waiting EXCEPT !.pc = x, !.c = y, !.batch = z]
                             = EpollAs(x, y, z, Server)
            BY ActingOn
        <3>3. \/ Write(c) \/ ep' = EpollAs("push", c, b, Server)
              \/ ep' = EpollAs("free", c, <<>>, Server)
            BY <3>1, <3>2, Acting
        <3> QED BY <3>3 DEF Write, EpollGoes, EpollAs
    <2> QED BY <1>2, <1>3, <2>1, <2>2 DEF QuietInv, Ending, Open
<1>6. ASSUME Hangup(c)
      PROVE  QuietInv'
    <2> DEFINE i == CHOOSE i \in DOMAIN clients : clients[i].cli = c
    <2>1. /\ Open(c) /\ UNCHANGED conn
          /\ IF \E j \in DOMAIN clients : clients[j].cli = c
             THEN /\ ep' = [Waiting EXCEPT !.pc = "erase", !.c = c, !.uid = clients[i].uid]
                  /\ i \in DOMAIN clients /\ clients[i].cli = c
             ELSE ep' = [Waiting EXCEPT !.pc = "close", !.c = c]
          /\ quiet' = IF rq[c] = <<>> /\ ~Serving(c) THEN quiet \cup {c} ELSE quiet
        BY <1>6 DEF Hangup, EpollGoes
    <2> HIDE DEF i
    <2>2. /\ ep'.pc \in {"erase", "close"} /\ ep'.c = c
          /\ \A e \in Entries : e.cli = c => ep'.pc = "erase" /\ ep'.uid = e.uid
        <3>1. CASE \E j \in DOMAIN clients : clients[j].cli = c
            <4> DEFINE u == clients[i].uid
                       pc == "erase"
            <4>1. /\ ep' = [Waiting EXCEPT !.pc = pc, !.c = c, !.uid = u]
                  /\ i \in DOMAIN clients /\ clients[i].cli = c
                BY <2>1, <3>1
            <4>2. \A e \in Entries : e.cli = c => u = e.uid
                BY <4>1 DEF Entries, PlaceInv, Mapped, Matches
            <4>3. pc = "erase"
                OBVIOUS
            <4> HIDE DEF u, pc
            <4>4. \A x, y, z : [Waiting EXCEPT !.pc = x, !.c = y, !.uid = z]
                                 = EpollAs(x, y, <<>>, z)
                BY ActingWith
            <4>5. ep' = EpollAs(pc, c, <<>>, u)
                BY <4>1, <4>4
            <4>6. ep'.pc = pc /\ ep'.c = c /\ ep'.uid = u
                BY <4>5, OneField
            <4> QED BY <4>2, <4>3, <4>6
        <3>2. CASE ~\E j \in DOMAIN clients : clients[j].cli = c
            <4>1. ep' = EpollAs("close", c, <<>>, Server)
                BY <2>1, <3>2, Acting
            <4> QED BY <3>2, <4>1 DEF Entries, EpollAs
        <3> QED BY <3>1, <3>2
    <2>3. \A d \in quiet : Ending(d)'
        BY <1>2, <1>3, <2>1, <2>2 DEF Ending
    <2>4. rq[c] = <<>> /\ ~Serving(c) => Ending(c)'
        <3>1. ~Serving(c) => \A w \in Workers : wk[w].cli # c
            BY WorkerAt, IdleIsGood, NoConnAssumption DEF Serving, GoodWorker
        <3> QED BY <1>2, <2>1, <2>2, <3>1 DEF Ending
    <2> QED BY <2>1, <2>2, <2>3, <2>4 DEF QuietInv, Open
<1> QED
    BY <1>1, <1>4, <1>5, <1>6

LEMMA QuietWork ==
    ASSUME PlaceInv, QuietInv, EpollWork
    PROVE  QuietInv'
<1>1. ep.c \in Conns /\ Open(ep.c) /\ conn[ep.c] # "closed" /\ ep \in EpollRec
    BY EpollAt DEF EpollWork, Enqueue, Create, FreeWritten, ModeIn, Unregister, Close,
                   EpollGoes, QuietInv, Open
<1>2. UNCHANGED <<wk, quiet>>
    BY DEF EpollWork, Enqueue, Create, FreeWritten, ModeIn, Unregister, Close
<1>3. \A d \in quiet : d \in Conns /\ Ending(d)
    BY DEF PlaceInv, Links, QuietInv
<1>4. CASE Enqueue \/ Create \/ FreeWritten \/ ModeIn
    <2>1. /\ UNCHANGED <<conn, clients>> /\ ep.pc \notin {"erase", "close"}
          /\ UNCHANGED rq \/ \E s : rq' = [rq EXCEPT ![ep.c] = s]
        BY <1>4 DEF Enqueue, Create, FreeWritten, ModeIn, EpollGoes
    <2>2. ep'.c = ep.c \/ ep'.pc = "wait"
        <3>1. \/ ep' = [ep EXCEPT !.pc = "create", !.batch = Tail(@)] \/ ep' = Waiting
              \/ ep' = [ep EXCEPT !.pc = "push"] \/ ep' = [ep EXCEPT !.pc = "mode"]
            BY <1>4 DEF Enqueue, Create, FreeWritten, ModeIn, EpollGoes
        <3>2. \A r \in EpollRec : \A y : /\ [r EXCEPT !.pc = y, !.batch = Tail(@)]
                                              = EpollAs(y, r.c, Tail(r.batch), r.uid)
                                         /\ [r EXCEPT !.pc = y] = EpollAs(y, r.c, r.batch, r.uid)
            BY GoingOn
        <3>3. \/ ep' = EpollAs("create", ep.c, Tail(ep.batch), ep.uid) \/ ep' = Waiting
              \/ ep' = EpollAs("push", ep.c, ep.batch, ep.uid)
              \/ ep' = EpollAs("mode", ep.c, ep.batch, ep.uid)
            BY <1>1, <3>1, <3>2
        <3> QED BY <3>3 DEF EpollAs, Waiting
    <2>3. \A d \in quiet : conn[d] = "closed" /\ d # ep.c /\ rq'[d] = rq[d]
        BY <1>1, <1>3, <2>1 DEF Ending, PlaceInv, Unread
    <2>4. Entries' = Entries /\ \A d \in quiet, e \in Entries : e.cli # d
        BY <1>3, <2>1 DEF Ending, Entries
    <2> QED BY <1>1, <1>2, <1>3, <2>1, <2>2, <2>3, <2>4 DEF QuietInv, Ending, Open
<1>5. CASE Unregister
    <2>1. /\ ep.pc = "erase" /\ ep' = [ep EXCEPT !.pc = "close", !.uid = Server]
          /\ MapErase(ep.uid) /\ UNCHANGED <<conn, rq>>
        BY <1>5 DEF Unregister, EpollGoes
    <2>2. ep'.pc = "close" /\ ep'.c = ep.c
        <3>1. \A r \in EpollRec : \A y : [r EXCEPT !.pc = y, !.uid = Server]
                                       = EpollAs(y, r.c, r.batch, Server)
            BY GoingOn
        <3>2. ep' = EpollAs("close", ep.c, ep.batch, Server)
            BY <1>1, <2>1, <3>1
        <3> QED BY <3>2 DEF EpollAs
    <2>3. \A e \in Entries' : e \in Entries /\ e.uid # ep.uid
        BY <2>1, EraseKeeps DEF PlaceInv
    <2>4. \A d \in quiet, e \in Entries' : e.cli # d
        BY <1>3, <2>3 DEF Ending
    <2> QED BY <1>1, <1>2, <1>3, <2>1, <2>2, <2>4 DEF QuietInv, Ending, Open
<1>6. CASE Close
    <2>1. /\ ep.pc = "close" /\ ep' = Waiting /\ conn' = [conn EXCEPT ![ep.c] = "closed"]
          /\ rq' = [rq EXCEPT ![ep.c] = <<>>] /\ UNCHANGED clients
        BY <1>6 DEF Close, EpollGoes
    <2>2. ep'.pc = "wait" /\ Entries' = Entries
        BY <2>1 DEF Waiting, Entries
    <2>3. \A d \in quiet : conn'[d] = "closed" /\ rq'[d] = <<>>
        BY <1>1, <1>3, <2>1 DEF Ending, PlaceInv, Links, Unread
    <2>4. \A d \in quiet, e \in Entries : e.cli # d
        BY <1>3, <2>1 DEF Ending
    <2> QED BY <1>2, <1>3, <2>1, <2>2, <2>3, <2>4 DEF QuietInv, Ending
<1> QED
    BY <1>4, <1>5, <1>6 DEF EpollWork

(* The steps of a worker after it has taken a packet off a read queue. *)
Handling(w) ==
    \/ LookUpSender(w) \/ Compare(w) \/ Save(w) \/ Decline(w) \/ AnswerPing(w)
    \/ AnswerBroadcast(w) \/ LookUpAddressee(w) \/ AnswerNoUser(w) \/ AnswerFound(w) \/ Deliver(w) \/ BroadcastLen(w)
    \/ BroadcastSkip(w) \/ BroadcastMode(w) \/ BroadcastCopy(w)
    \/ BroadcastEnd(w) \/ Flush(w)

LEMMA AimedAnywhere ==
    ASSUME NEW r \in WorkerRec, NEW pc, NEW t
    PROVE  Aiming(r, pc, t).pc = pc /\ Aiming(r, pc, t).cli = r.cli
BY DEF WorkerRec, Aiming

LEMMA Handles ==
    ASSUME PlaceInv, NEW w \in Workers, Handling(w)
    PROVE  /\ wk[w].pc \notin {"idle", "pop", "free"}
           /\ \E r : /\ wk' = [wk EXCEPT ![w] = r] /\ r.pc \notin {"pop", "free"}
                     /\ r.cli \in {wk[w].cli, NoConn}
           /\ UNCHANGED <<conn, rq, tasks, ep, quiet>>
<1> DEFINE r == wk[w]
           Far(s) == s.pc \notin {"pop", "free"} /\ s.cli \in {r.cli, NoConn}
<1>1. /\ r.pc \notin {"idle", "pop", "free"} /\ r \in WorkerRec
      /\ UNCHANGED <<conn, rq, tasks, ep, quiet>>
    BY WorkerAt DEF Handling, LookUpSender, Compare, Save, Decline, AnswerPing,
       AnswerBroadcast, LookUpAddressee, AnswerNoUser, AnswerFound, AnswerWith, Deliver, BroadcastLen, BroadcastSkip, BroadcastMode,
       BroadcastCopy, BroadcastEnd, Flush, WorkerGoes
<1>2. \/ wk' = [wk EXCEPT ![w] = Idle]
      \/ \E pc \in {"save", "nouser", "deliver", "flush", "len"} :
            wk' = [wk EXCEPT ![w] = [r EXCEPT !.pc = pc]]
      \/ \E pc \in {"compare", "answer", "found", "len", "flush", "copy"} : \E t :
            wk' = [wk EXCEPT ![w] = Aiming(r, pc, t)]
      \/ /\ wk' = [wk EXCEPT ![w] = [r EXCEPT !.i = @ + 1]] /\ r.pc = "loop"
      \/ wk' = [wk EXCEPT ![w] = [r EXCEPT !.pc = "loop", !.i = 1, !.len = Len(clients)]]
      \/ wk' = [wk EXCEPT ![w] = [r EXCEPT !.pc = "loop", !.tgt = NoEntry, !.i = @ + 1]]
    <2>1. CASE Decline(w) \/ AnswerPing(w) \/ AnswerBroadcast(w) \/ AnswerNoUser(w)
        BY <2>1 DEF Decline, AnswerPing, AnswerBroadcast, AnswerNoUser, AnswerWith,
                    WorkerGoes
    <2>2. CASE LookUpSender(w) \/ Compare(w) \/ Save(w) \/ LookUpAddressee(w)
               \/ AnswerFound(w)
        BY <2>2 DEF LookUpSender, Compare, Save, LookUpAddressee, AnswerFound, AnswerWith,
                    WorkerGoes, Aiming
    <2>3. CASE Deliver(w) \/ BroadcastMode(w)
        BY <2>3 DEF Deliver, BroadcastMode, WorkerGoes, Aiming
    <2>4. CASE BroadcastLen(w) \/ BroadcastSkip(w) \/ BroadcastCopy(w)
        BY <2>4 DEF BroadcastLen, BroadcastSkip, BroadcastCopy, WorkerGoes
    <2>5. CASE BroadcastEnd(w) \/ Flush(w)
        BY <2>5 DEF BroadcastEnd, Flush, WorkerGoes
    <2> QED BY <2>1, <2>2, <2>3, <2>4, <2>5 DEF Handling
<1>3. Far(Idle)
    BY IdleIsGood
<1>4. \A pc \in {"save", "nouser", "deliver", "flush", "len"} : Far([r EXCEPT !.pc = pc])
    <2>1. ASSUME NEW pc \in {"save", "nouser", "deliver", "flush", "len"}
          PROVE Far([r EXCEPT !.pc = pc])
        <3>1. pc \in WorkerPC
            BY DEF WorkerPC
        <3> HIDE DEF r
        <3>2. LET s == [r EXCEPT !.pc = pc] IN s.pc = pc /\ s.cli = r.cli
            BY <1>1, <3>1, MovedOn
        <3> QED BY <3>2
    <2> QED BY <2>1
<1>5. \A pc \in {"compare", "answer", "found", "len", "flush", "copy"} : \A t :
          Far(Aiming(r, pc, t))
    BY <1>1, AimedAnywhere
<1>6. r.pc = "loop" => Far([r EXCEPT !.i = @ + 1])
    <2> HIDE DEF r
    <2>1. LET s == [r EXCEPT !.i = @ + 1] IN s.pc = r.pc /\ s.cli = r.cli
        BY <1>1, Counted
    <2> QED BY <2>1
<1>7. Far([r EXCEPT !.pc = "loop", !.i = 1, !.len = Len(clients)])
    <2>1. Len(clients) \in Nat
        BY DEF PlaceInv, Mapped
    <2> DEFINE s == [r EXCEPT !.pc = "loop", !.i = 1, !.len = Len(clients)]
    <2>2. s.pc = "loop" /\ s.cli = r.cli
        BY <1>1, <2>1, Looping
    <2> HIDE DEF s
    <2>3. Far(s)
        BY <2>2
    <2> QED BY <2>3 DEF s
<1>8. Far([r EXCEPT !.pc = "loop", !.tgt = NoEntry, !.i = @ + 1])
    <2> DEFINE s == [r EXCEPT !.pc = "loop", !.tgt = NoEntry, !.i = @ + 1]
    <2>1. s.pc = "loop" /\ s.cli = r.cli
        BY <1>1, Copied
    <2> HIDE DEF s
    <2>2. Far(s)
        BY <2>1
    <2> QED BY <2>2 DEF s
<1> HIDE DEF Far
<1>9. \E s : wk' = [wk EXCEPT ![w] = s] /\ Far(s)
    BY <1>2, <1>3, <1>4, <1>5, <1>6, <1>7, <1>8
<1> QED
    BY <1>1, <1>9 DEF Far

(* What a worker does to its record and to the read queue of its client     *)
(* until it has a packet.                                                   *)
LEMMA Takes ==
    ASSUME PlaceInv, NEW w \in Workers,
           Start(w) \/ PopNone(w) \/ Pop(w) \/ PopLast(w) \/ FreeRead(w)
    PROVE  LET c == wk[w].cli
           IN \E r : /\ wk' = [wk EXCEPT ![w] = r]
                     /\ UNCHANGED <<conn, clients, ep, quiet>>
                     /\ \/ /\ wk[w].pc = "idle" /\ r.pc = "pop" /\ r.cli = Head(tasks)
                           /\ tasks # <<>> /\ tasks' = Tail(tasks) /\ UNCHANGED rq
                        \/ /\ wk[w].pc = "pop" /\ rq[c] = <<>> /\ r = Idle
                           /\ UNCHANGED <<tasks, rq>>
                        \/ /\ wk[w].pc = "pop" /\ rq[c] # <<>> /\ Len(rq[c]) > 1
                           /\ r.pc = "register" /\ r.cli = c
                           /\ rq' = [rq EXCEPT ![c] = Tail(rq[c])] /\ UNCHANGED tasks
                        \/ /\ wk[w].pc = "pop" /\ rq[c] # <<>> /\ r.pc = "free" /\ r.cli = c
                           /\ UNCHANGED <<tasks, rq>>
                        \/ /\ wk[w].pc = "free" /\ r.pc = "register" /\ r.cli = c
                           /\ rq' = [rq EXCEPT ![c] = <<>>] /\ UNCHANGED tasks
<1> DEFINE c == wk[w].cli
<1>1. wk[w] \in WorkerRec /\ (wk[w].pc # "idle" => c \in Conns)
    BY WorkerAt
<1>2. wk[w].pc = "pop" => rq[c] \in Seq(From(c)) /\ Len(rq[c]) \in Nat
    BY <1>1, QueueEnds DEF PlaceInv, Unread
<1>3. Len(<<>>) = 0
    OBVIOUS
<1>4. CASE Start(w)
    <2> DEFINE r == [Idle EXCEPT !.pc = "pop", !.cli = Head(tasks)]
    <2>1. /\ wk' = [wk EXCEPT ![w] = r] /\ wk[w].pc = "idle" /\ tasks # <<>>
          /\ tasks' = Tail(tasks) /\ UNCHANGED <<conn, clients, ep, quiet, rq>>
        BY <1>4 DEF Start, WorkerGoes
    <2>2. r.pc = "pop" /\ r.cli = Head(tasks)
        BY DEF Idle
    <2> HIDE DEF r
    <2> QED BY <2>1, <2>2
<1>5. CASE PopNone(w)
    BY <1>5 DEF PopNone, WorkerGoes
<1>6. CASE Pop(w)
    <2> DEFINE x == Head(rq[c])
               r == [wk[w] EXCEPT !.pc = "register", !.pkt = x]
    <2>1. /\ wk' = [wk EXCEPT ![w] = r] /\ wk[w].pc = "pop" /\ Len(rq[c]) > 1
          /\ rq' = [rq EXCEPT ![c] = Tail(rq[c])]
          /\ UNCHANGED <<conn, clients, ep, quiet, tasks>>
        BY <1>6 DEF Pop, WorkerGoes
    <2> HIDE DEF x
    <2>2. r.pc = "register" /\ r.cli = c
        BY <1>1 DEF WorkerRec
    <2> HIDE DEF r, c
    <2>3. rq[c] # <<>>
        BY <1>2, <1>3, <2>1
    <2> QED BY <2>1, <2>2, <2>3 DEF c
<1>7. CASE PopLast(w)
    <2> DEFINE x == Head(rq[c])
               r == [wk[w] EXCEPT !.pc = "free", !.pkt = x]
    <2>1. /\ wk' = [wk EXCEPT ![w] = r] /\ wk[w].pc = "pop" /\ Len(rq[c]) = 1
          /\ UNCHANGED <<conn, clients, ep, quiet, tasks, rq>>
        BY <1>7 DEF PopLast, WorkerGoes
    <2> HIDE DEF x
    <2>2. r.pc = "free" /\ r.cli = c
        BY <1>1 DEF WorkerRec
    <2> HIDE DEF r, c
    <2>3. rq[c] # <<>>
        BY <1>2, <1>3, <2>1
    <2> QED BY <2>1, <2>2, <2>3 DEF c
<1>8. CASE FreeRead(w)
    <2> DEFINE r == [wk[w] EXCEPT !.pc = "register"]
    <2>1. /\ wk' = [wk EXCEPT ![w] = r] /\ wk[w].pc = "free"
          /\ rq' = [rq EXCEPT ![c] = <<>>]
          /\ UNCHANGED <<conn, clients, ep, quiet, tasks>>
        BY <1>8 DEF FreeRead, WorkerGoes
    <2>2. r.pc = "register" /\ r.cli = c
        BY <1>1 DEF WorkerRec
    <2> HIDE DEF r
    <2> QED BY <2>1, <2>2
<1> QED
    BY <1>4, <1>5, <1>6, <1>7, <1>8

LEMMA QuietWorkers ==
    ASSUME PlaceInv, QuietInv, NEW w \in Workers, WorkerStep(w)
    PROVE  QuietInv'
<1>1. \A d \in quiet : d \in Conns /\ Ending(d) /\ d # NoConn
    BY NoConnAssumption DEF PlaceInv, Links, QuietInv
<1>2. CASE Start(w) \/ PopNone(w) \/ Pop(w) \/ PopLast(w) \/ FreeRead(w)
    <2>1. PICK r :
             /\ wk' = [wk EXCEPT ![w] = r]
             /\ UNCHANGED <<conn, clients, ep, quiet>>
             /\ \/ wk[w].pc = "idle" /\ r.pc = "pop" /\ UNCHANGED rq
                \/ wk[w].pc = "pop" /\ r = Idle /\ UNCHANGED rq
                \/ /\ wk[w].pc = "pop" /\ rq[wk[w].cli] # <<>> /\ r.cli = wk[w].cli
                   /\ UNCHANGED rq \/ \E s : rq' = [rq EXCEPT ![wk[w].cli] = s]
                \/ /\ wk[w].pc = "free" /\ r.cli = wk[w].cli
                   /\ rq' = [rq EXCEPT ![wk[w].cli] = <<>>]
        BY <1>2, Takes
    <2>2. \A d \in quiet : rq'[d] = <<>>
        BY <1>1, <2>1 DEF Ending, PlaceInv, Unread
    <2>3. \A d \in quiet : r.cli = d => r.pc = "pop"
        BY <1>1, <2>1, IdleIsGood DEF Ending
    <2>4. \A d \in quiet, v \in Workers : wk'[v].cli = d => wk'[v].pc = "pop"
        BY <1>1, <2>1, <2>3 DEF Ending, PlaceInv, Working
    <2>5. Entries' = Entries
        BY <2>1 DEF Entries
    <2> QED BY <1>1, <2>1, <2>2, <2>4, <2>5 DEF QuietInv, Ending, Open
<1>3. CASE Handling(w)
    <2>1. PICK r : /\ wk' = [wk EXCEPT ![w] = r] /\ r.pc \notin {"pop", "free"}
                   /\ r.cli \in {wk[w].cli, NoConn}
        BY <1>3, Handles
    <2>2. wk[w].pc \notin {"idle", "pop", "free"} /\ UNCHANGED <<conn, rq, tasks, ep, quiet>>
        BY <1>3, Handles
    <2>3. wk[w].cli \notin quiet /\ r.cli \notin quiet
        BY <1>1, <2>1, <2>2 DEF Ending
    <2>4. \A d \in quiet, v \in Workers : wk'[v].cli = d => wk'[v].pc = "pop"
        BY <1>1, <2>1, <2>3 DEF Ending, PlaceInv, Working
    <2>5. \A e \in Entries' : e \in Entries \/ e.cli = wk[w].cli
        <3>1. CASE Save(w)
            <4>1. MapSet(UidOf[wk[w].pkt.src], wk[w].cli) /\ wk[w].pkt.src = wk[w].cli
                  /\ wk[w].cli \in Conns
                BY <2>2, <3>1, WorkerAt DEF Save, SenderUid
            <4> QED BY <4>1, SetKeeps DEF PlaceInv
        <3>2. CASE ~Save(w)
            <4>1. UNCHANGED clients
                BY <1>3, <3>2 DEF Handling, LookUpSender, Compare, Decline, AnswerPing,
                   AnswerBroadcast, LookUpAddressee, AnswerNoUser, AnswerFound, AnswerWith, Deliver, BroadcastLen, BroadcastSkip,
                   BroadcastMode, BroadcastCopy, BroadcastEnd, Flush
            <4> QED BY <4>1 DEF Entries
        <3> QED BY <3>1, <3>2
    <2>6. \A d \in quiet, e \in Entries' : e.cli = d => e \in Entries
        BY <2>3, <2>5
    <2> QED BY <1>1, <2>2, <2>4, <2>6 DEF QuietInv, Ending, Open
<1> QED
    BY <1>2, <1>3 DEF WorkerStep, Handling

(* A connection closed with nothing read and no worker holding a packet of  *)
(* it has no entry in dcn_clients: custom_disconnector erases the one there *)
(* is, and no worker that still runs a task of it can add another.          *)
THEOREM ClosedLeavesNoEntry == Spec => []CleanClose
<1>1. Init => QuietInv
    BY DEF Init, QuietInv, Waiting
<1>2. PlaceInv /\ QuietInv /\ [Next]_vars => QuietInv'
    <2> SUFFICES ASSUME PlaceInv, QuietInv, [Next]_vars PROVE QuietInv'
        OBVIOUS
    <2>1. CASE UNCHANGED vars
        BY <2>1 DEF vars, QuietInv, Ending, Open, Entries
    <2> QED BY <2>1, QuietPeers, QuietEvents, QuietWork, QuietWorkers DEF Next
<1>3. PlaceInv /\ QuietInv => CleanClose
    BY DEF CleanClose, QuietInv, Ending, Open
<1> QED
    BY <1>1, <1>2, <1>3, PlaceHolds, PTL DEF Spec

-----------------------------------------------------------------------------
(* Blocks and the tasks that will take them.  Both sides of the count move  *)
(* together, or the queue is emptied; which task takes which block does not *)
(* matter.                                                                  *)

At(s, c) == {i \in DOMAIN s : s[i] = c}
Taker(r, c) == r.pc \in {"pop", "free"} /\ r.cli = c
Takers(c) == {w \in Workers : Taker(wk[w], c)}
One(p) == IF p THEN 1 ELSE 0

LEMMA PendingIs ==
    ASSUME NEW c
    PROVE  Pending(c) = Cardinality(At(tasks, c)) + Cardinality(Takers(c))
                          + One(ep.pc = "create" /\ ep.c = c)
BY DEF Pending, At, Takers, Taker, One

LEMMA AtFinite ==
    ASSUME NEW S, NEW s \in Seq(S), NEW c
    PROVE  IsFiniteSet(At(s, c)) /\ Cardinality(At(s, c)) \in Nat
<1>1. 0 \in Int /\ 1 \in Int /\ Len(s) \in Int /\ DOMAIN s = 1..Len(s)
    OBVIOUS
<1>2. IsFiniteSet(1..Len(s))
    BY <1>1, FS_Interval
<1>3. At(s, c) \in SUBSET (1..Len(s))
    BY <1>1 DEF At
<1>4. IsFiniteSet(At(s, c))
    BY <1>2, <1>3, FS_Subset
<1> QED
    BY <1>4, FS_CardinalityType

LEMMA AtAppend ==
    ASSUME NEW S, NEW s \in Seq(S), NEW x \in S, NEW c
    PROVE  Cardinality(At(Append(s, x), c)) = Cardinality(At(s, c)) + One(x = c)
<1> DEFINE t == Append(s, x)
           n == Len(s) + 1
<1>1. /\ t \in Seq(S) /\ Len(t) = n /\ t[n] = x /\ \A i \in 1..Len(s) : t[i] = s[i]
      /\ DOMAIN t = 1..Len(t) /\ DOMAIN s = 1..Len(s) /\ Len(s) \in Nat
    BY AppendProperties
<1> HIDE DEF t
<1>2. DOMAIN t = DOMAIN s \cup {n} /\ n \notin DOMAIN s
    BY <1>1
<1>3. At(t, c) = IF x = c THEN At(s, c) \cup {n} ELSE At(s, c)
    BY <1>1, <1>2 DEF At
<1>4. n \notin At(s, c) /\ IsFiniteSet(At(s, c)) /\ Cardinality(At(s, c)) \in Nat
    BY <1>2, AtFinite DEF At
<1> HIDE DEF n
<1>5. CASE x = c
    <2>1. Cardinality(At(s, c) \cup {n}) = Cardinality(At(s, c)) + 1
        BY <1>4, FS_AddElement
    <2> QED BY <1>3, <1>5, <2>1 DEF One, t
<1>6. CASE x # c
    BY <1>3, <1>4, <1>6 DEF One, t
<1> QED
    BY <1>5, <1>6

LEMMA AtTail ==
    ASSUME NEW S, NEW s \in Seq(S), s # <<>>, NEW c
    PROVE  Cardinality(At(Tail(s), c)) = Cardinality(At(s, c)) - One(Head(s) = c)
<1> DEFINE t == Tail(s)
           A == At(s, c)
           B == At(t, c)
<1>1. /\ t \in Seq(S) /\ Len(t) = Len(s) - 1 /\ Head(s) = s[1] /\ Len(s) \in Nat
      /\ Len(s) >= 1 /\ \A i \in 1..Len(t) : t[i] = s[i + 1]
      /\ DOMAIN t = 1..Len(t) /\ DOMAIN s = 1..Len(s)
    BY HeadTailProperties
<1> HIDE DEF t
<1>2. IsFiniteSet(A) /\ Cardinality(A) \in Nat
    BY AtFinite
<1>3. A \ {1} = {i + 1 : i \in B}
    <2>1. ASSUME NEW i \in A, i # 1 PROVE i \in {j + 1 : j \in B}
        <3>1. i - 1 \in 1..Len(t) /\ i = (i - 1) + 1 /\ s[i] = c
            BY <1>1, <2>1 DEF At
        <3>2. i - 1 \in B
            BY <1>1, <3>1 DEF At
        <3> QED BY <3>1, <3>2
    <2>2. ASSUME NEW j \in B PROVE j + 1 \in A /\ j + 1 # 1
        <3>1. j \in 1..Len(t) /\ t[j] = c
            BY <1>1 DEF At
        <3> QED BY <1>1, <3>1 DEF At
    <2> QED BY <2>1, <2>2
<1>4. Cardinality(A \ {1}) = Cardinality(B)
    <2> DEFINE g == [i \in B |-> i + 1]
               T == A \ {1}
    <2>1. B \subseteq Nat
        BY <1>1 DEF At
    <2>2. g \in [B -> T] /\ (\A a, b \in B : g[a] = g[b] => a = b)
          /\ \A x \in T : \E a \in B : g[a] = x
        <3> HIDE DEF A, B
        <3> QED BY <1>3, <2>1
    <2>3. IsFiniteSet(T)
        BY <1>2, FS_RemoveElement
    <2> HIDE DEF g, T
    <2>4. g \in Bijection(B, T)
        BY <2>2, Fun_IsBij
    <2>5. ExistsBijection(T, B)
        BY <2>4, Fun_ExistsBijSymmetric DEF ExistsBijection
    <2> QED BY <2>3, <2>5, FS_Bijection DEF T
<1>5. 1 \in A <=> Head(s) = c
    BY <1>1 DEF At
<1>6. Cardinality(A \ {1}) = IF 1 \in A THEN Cardinality(A) - 1 ELSE Cardinality(A)
    BY <1>2, FS_RemoveElement
<1> QED
    BY <1>2, <1>4, <1>5, <1>6 DEF One, t

(* One worker changes. *)
LEMMA TakersMove ==
    ASSUME PlaceInv, NEW w \in Workers, NEW r, wk' = [wk EXCEPT ![w] = r],
           NEW c, IsFiniteSet(Takers(c))
    PROVE  /\ IsFiniteSet(Takers(c)')
           /\ Cardinality(Takers(c)) \in Nat /\ Cardinality(Takers(c)') \in Nat
           /\ Cardinality(Takers(c)') = Cardinality(Takers(c)) - One(Taker(wk[w], c))
                                          + One(Taker(r, c))
<1> DEFINE A == Takers(c)
           B == Takers(c)'
<1>1. B = IF Taker(r, c) THEN A \cup {w} ELSE A \ {w}
    BY DEF Takers, Taker, PlaceInv, Working
<1>2. w \in A <=> Taker(wk[w], c)
    BY DEF Takers
<1> HIDE DEF A, B
<1>3. IsFiniteSet(A)
    BY DEF A
<1>4. /\ IsFiniteSet(A \cup {w}) /\ IsFiniteSet(A \ {w})
      /\ Cardinality(A \cup {w}) = IF w \in A THEN Cardinality(A) ELSE Cardinality(A) + 1
      /\ Cardinality(A \ {w}) = IF w \in A THEN Cardinality(A) - 1 ELSE Cardinality(A)
    BY <1>3, FS_AddElement, FS_RemoveElement
<1>5. Cardinality(A) \in Nat
    BY <1>3, FS_CardinalityType
<1>6. IsFiniteSet(B)
    BY <1>1, <1>4
<1>7. Cardinality(B) \in Nat
    BY <1>6, FS_CardinalityType
<1>8. Cardinality(B) = Cardinality(A) - One(Taker(wk[w], c)) + One(Taker(r, c))
    BY <1>1, <1>2, <1>4, <1>5 DEF One
<1> QED
    BY <1>5, <1>6, <1>7, <1>8 DEF A, B

CountInv == \A c \in Conns : IsFiniteSet(Takers(c)) /\ Len(rq[c]) <= Pending(c)

LEMMA Counts ==
    ASSUME PlaceInv, CountInv, NEW c \in Conns
    PROVE  /\ Len(rq[c]) \in Nat /\ Cardinality(At(tasks, c)) \in Nat
           /\ Cardinality(Takers(c)) \in Nat /\ IsFiniteSet(Takers(c))
           /\ Len(rq[c]) <= Cardinality(At(tasks, c)) + Cardinality(Takers(c))
                              + One(ep.pc = "create" /\ ep.c = c)
<1>1. rq[c] \in Seq(From(c)) /\ tasks \in Seq(Conns) /\ IsFiniteSet(Takers(c))
    BY DEF PlaceInv, Unread, Links, CountInv
<1>2. Len(rq[c]) \in Nat
    BY <1>1, QueueEnds
<1> QED
    BY <1>1, <1>2, AtFinite, FS_CardinalityType, PendingIs DEF CountInv

(* After a step that leaves finitely many takers, what is left to show. *)
LEMMA CountAgain ==
    ASSUME PlaceInv', NEW c \in Conns, IsFiniteSet(Takers(c)'),
           \/ rq'[c] = <<>>
           \/ Len(rq'[c]) <= Cardinality(At(tasks', c)) + Cardinality(Takers(c)')
                               + One(ep'.pc = "create" /\ ep'.c = c)
    PROVE  (IsFiniteSet(Takers(c)) /\ Len(rq[c]) <= Pending(c))'
<1>1. tasks' \in Seq(Conns)
    BY DEF PlaceInv, Links
<1>2. Cardinality(At(tasks', c)) \in Nat /\ Cardinality(Takers(c)') \in Nat
    BY <1>1, AtFinite, FS_CardinalityType
<1>3. One(ep'.pc = "create" /\ ep'.c = c) \in Nat
    BY DEF One
<1>4. Len(<<>>) = 0
    OBVIOUS
<1>5. Pending(c)' = Cardinality(At(tasks', c)) + Cardinality(Takers(c)')
                      + One(ep'.pc = "create" /\ ep'.c = c)
    BY DEF Pending, At, Takers, Taker, One
<1>6. Len(rq'[c]) <= Pending(c)'
    BY <1>2, <1>3, <1>4, <1>5
<1> QED
    BY <1>6

LEMMA CountSame ==
    ASSUME PlaceInv, PlaceInv', CountInv, UNCHANGED <<rq, tasks, wk>>,
           \A c \in Conns : ep.pc = "create" /\ ep.c = c => ep'.pc = "create" /\ ep'.c = c
    PROVE  CountInv'
<1>1. ASSUME NEW c \in Conns
      PROVE  (IsFiniteSet(Takers(c)) /\ Len(rq[c]) <= Pending(c))'
    <2>1. Takers(c)' = Takers(c)
        BY DEF Takers
    <2>2. One(ep.pc = "create" /\ ep.c = c) <= One(ep'.pc = "create" /\ ep'.c = c)
          /\ One(ep.pc = "create" /\ ep.c = c) \in Nat
          /\ One(ep'.pc = "create" /\ ep'.c = c) \in Nat
        BY DEF One
    <2>3. Len(rq'[c]) <= Cardinality(At(tasks', c)) + Cardinality(Takers(c)')
                           + One(ep'.pc = "create" /\ ep'.c = c)
        BY <2>1, <2>2, Counts
    <2> QED BY <2>1, <2>3, Counts, CountAgain
<1> QED
    BY <1>1 DEF CountInv

LEMMA CountEpoll ==
    ASSUME PlaceInv, PlaceInv', CountInv, EpollWork
    PROVE  CountInv'
<1>1. UNCHANGED wk /\ \A c : Takers(c)' = Takers(c)
    BY DEF EpollWork, Enqueue, Create, FreeWritten, ModeIn, Unregister, Close, Takers
<1>2. \A p \in BOOLEAN : One(p) \in Nat /\ (p => One(p) = 1) /\ (~p => One(p) = 0)
    BY DEF One
<1>3. CASE Enqueue
    <2> DEFINE x == Head(ep.batch)
    <2>1. /\ ep.pc = "push" /\ ep' = [ep EXCEPT !.pc = "create", !.batch = Tail(@)]
          /\ rq' = [rq EXCEPT ![ep.c] = Append(rq[ep.c], x)] /\ UNCHANGED tasks
        BY <1>3 DEF Enqueue, EpollGoes
    <2>2. ep \in EpollRec /\ ep.c \in Conns /\ x \in From(ep.c)
        BY <2>1, EpollAt, QueueEnds
    <2> HIDE DEF x
    <2>3. ep'.pc = "create" /\ ep'.c = ep.c
        <3>1. \A r \in EpollRec : \A y : [r EXCEPT !.pc = y, !.batch = Tail(@)]
                                       = EpollAs(y, r.c, Tail(r.batch), r.uid)
            BY GoingOn
        <3>2. ep' = EpollAs("create", ep.c, Tail(ep.batch), ep.uid)
            BY <2>1, <2>2, <3>1
        <3> QED BY <3>2 DEF EpollAs
    <2>4. ASSUME NEW c \in Conns
          PROVE  (IsFiniteSet(Takers(c)) /\ Len(rq[c]) <= Pending(c))'
        <3>1. CASE c = ep.c
            <4>1. rq[c] \in Seq(From(c)) /\ DOMAIN rq = Conns
                BY DEF PlaceInv, Unread
            <4>2. Len(Append(rq[c], x)) = Len(rq[c]) + 1
                BY <2>2, <3>1, <4>1, AppendProperties
            <4>3. rq'[c] = Append(rq[c], x)
                BY <2>1, <3>1, <4>1
            <4>4. One(ep.pc = "create" /\ ep.c = c) = 0 /\ One(ep'.pc = "create" /\ ep'.c = c) = 1
                BY <2>1, <2>3, <3>1 DEF One
            <4>5. Len(rq'[c]) <= Cardinality(At(tasks', c)) + Cardinality(Takers(c)')
                                   + One(ep'.pc = "create" /\ ep'.c = c)
                BY <1>1, <2>1, <4>2, <4>3, <4>4, Counts
            <4> QED BY <1>1, <4>5, Counts, CountAgain
        <3>2. CASE c # ep.c
            <4>1. rq'[c] = rq[c]
                BY <2>1, <3>2 DEF PlaceInv, Unread
            <4>2. One(ep.pc = "create" /\ ep.c = c) = One(ep'.pc = "create" /\ ep'.c = c)
                BY <2>3, <3>2 DEF One
            <4>3. Len(rq'[c]) <= Cardinality(At(tasks', c)) + Cardinality(Takers(c)')
                                   + One(ep'.pc = "create" /\ ep'.c = c)
                BY <1>1, <2>1, <4>1, <4>2, Counts
            <4> QED BY <1>1, <4>3, Counts, CountAgain
        <3> QED BY <3>1, <3>2
    <2> QED BY <2>4 DEF CountInv
<1>4. CASE Create
    <2>1. /\ ep.pc = "create" /\ tasks' = Append(tasks, ep.c) /\ UNCHANGED rq
          /\ tasks \in Seq(Conns) /\ ep.c \in Conns
        BY <1>4, EpollAt DEF Create, EpollGoes, PlaceInv, Links
    <2>2. ASSUME NEW c \in Conns
          PROVE  (IsFiniteSet(Takers(c)) /\ Len(rq[c]) <= Pending(c))'
        <3>1. Cardinality(At(tasks', c)) = Cardinality(At(tasks, c)) + One(ep.c = c)
            BY <2>1, AtAppend
        <3>2. One(ep.pc = "create" /\ ep.c = c) = One(ep.c = c)
            BY <2>1 DEF One
        <3>3. One(ep'.pc = "create" /\ ep'.c = c) \in Nat /\ One(ep.c = c) \in Nat
            BY DEF One
        <3>4. Len(rq'[c]) <= Cardinality(At(tasks', c)) + Cardinality(Takers(c)')
                               + One(ep'.pc = "create" /\ ep'.c = c)
            BY <1>1, <2>1, <3>1, <3>2, <3>3, Counts
        <3> QED BY <1>1, <3>4, Counts, CountAgain
    <2> QED BY <2>2 DEF CountInv
<1>5. CASE FreeWritten \/ ModeIn \/ Unregister
    BY <1>5, CountSame DEF FreeWritten, ModeIn, Unregister, EpollGoes
<1>6. CASE Close
    <2>1. ep.pc = "close" /\ rq' = [rq EXCEPT ![ep.c] = <<>>] /\ UNCHANGED tasks
          /\ ep.c \in Conns
        BY <1>6, EpollAt DEF Close, EpollGoes
    <2>2. ASSUME NEW c \in Conns
          PROVE  (IsFiniteSet(Takers(c)) /\ Len(rq[c]) <= Pending(c))'
        <3>1. rq'[c] = IF c = ep.c THEN <<>> ELSE rq[c]
            BY <2>1 DEF PlaceInv, Unread
        <3>2. One(ep.pc = "create" /\ ep.c = c) = 0 /\ One(ep'.pc = "create" /\ ep'.c = c) \in Nat
            BY <2>1 DEF One
        <3>3. \/ rq'[c] = <<>>
              \/ Len(rq'[c]) <= Cardinality(At(tasks', c)) + Cardinality(Takers(c)')
                                  + One(ep'.pc = "create" /\ ep'.c = c)
            BY <1>1, <2>1, <3>1, <3>2, Counts
        <3> QED BY <1>1, <3>3, Counts, CountAgain
    <2> QED BY <2>2 DEF CountInv
<1> QED
    BY <1>3, <1>4, <1>5, <1>6 DEF EpollWork

LEMMA CountWorkers ==
    ASSUME PlaceInv, PlaceInv', CountInv, NEW w \in Workers, WorkerStep(w)
    PROVE  CountInv'
<1> DEFINE d == wk[w].cli
<1>1. CASE Handling(w)
    <2>1. PICK r : /\ wk' = [wk EXCEPT ![w] = r] /\ r.pc \notin {"pop", "free"}
        BY <1>1, Handles
    <2>2. wk[w].pc \notin {"pop", "free"} /\ UNCHANGED <<rq, tasks, ep>>
        BY <1>1, Handles
    <2>3. ASSUME NEW c \in Conns
          PROVE  (IsFiniteSet(Takers(c)) /\ Len(rq[c]) <= Pending(c))'
        <3>1. One(Taker(wk[w], c)) = 0 /\ One(Taker(r, c)) = 0
            BY <2>1, <2>2 DEF One, Taker
        <3>2. IsFiniteSet(Takers(c)') /\ Cardinality(Takers(c)') = Cardinality(Takers(c))
            <4>1. /\ IsFiniteSet(Takers(c)) /\ wk' = [wk EXCEPT ![w] = r]
                  /\ Cardinality(Takers(c)) \in Nat
                BY <2>1, Counts
            <4>2. IsFiniteSet(Takers(c)') /\ Cardinality(Takers(c)')
                      = Cardinality(Takers(c)) - One(Taker(wk[w], c)) + One(Taker(r, c))
                BY <4>1, TakersMove
            <4> QED BY <3>1, <4>1, <4>2
        <3>3. Len(rq'[c]) <= Cardinality(At(tasks', c)) + Cardinality(Takers(c)')
                               + One(ep'.pc = "create" /\ ep'.c = c)
            BY <2>2, <3>2, Counts
        <3> QED BY <3>2, <3>3, CountAgain
    <2> QED BY <2>3 DEF CountInv
<1>2. CASE Start(w) \/ PopNone(w) \/ Pop(w) \/ PopLast(w) \/ FreeRead(w)
    <2>1. PICK r :
             /\ wk' = [wk EXCEPT ![w] = r] /\ UNCHANGED ep
             /\ \/ /\ wk[w].pc = "idle" /\ r.pc = "pop" /\ r.cli = Head(tasks)
                   /\ tasks # <<>> /\ tasks' = Tail(tasks) /\ UNCHANGED rq
                \/ /\ wk[w].pc = "pop" /\ rq[d] = <<>> /\ r = Idle /\ UNCHANGED <<tasks, rq>>
                \/ /\ wk[w].pc = "pop" /\ rq[d] # <<>> /\ r.pc = "register" /\ r.cli = d
                   /\ rq' = [rq EXCEPT ![d] = Tail(rq[d])] /\ UNCHANGED tasks
                \/ /\ wk[w].pc = "pop" /\ rq[d] # <<>> /\ r.pc = "free" /\ r.cli = d
                   /\ UNCHANGED <<tasks, rq>>
                \/ /\ wk[w].pc = "free" /\ r.pc = "register" /\ r.cli = d
                   /\ rq' = [rq EXCEPT ![d] = <<>>] /\ UNCHANGED tasks
        BY <1>2, Takes
    <2>2. ASSUME NEW c \in Conns
          PROVE  (IsFiniteSet(Takers(c)) /\ Len(rq[c]) <= Pending(c))'
        <3>1. /\ IsFiniteSet(Takers(c)')
              /\ Cardinality(Takers(c)) \in Nat /\ Cardinality(Takers(c)') \in Nat
              /\ Cardinality(Takers(c)') = Cardinality(Takers(c)) - One(Taker(wk[w], c))
                                             + One(Taker(r, c))
            <4>1. IsFiniteSet(Takers(c)) /\ wk' = [wk EXCEPT ![w] = r]
                BY <2>1, Counts
            <4> QED BY <4>1, TakersMove
        <3>2. rq[c] \in Seq(From(c)) /\ tasks \in Seq(Conns) /\ DOMAIN rq = Conns
            BY DEF PlaceInv, Unread, Links
        <3>3. \/ rq'[c] = <<>>
              \/ Len(rq'[c]) <= Cardinality(At(tasks', c)) + Cardinality(Takers(c)')
                                  + One(ep'.pc = "create" /\ ep'.c = c)
            <4>1. CASE r.pc = "pop" /\ wk[w].pc = "idle"
                <5>1. /\ r.cli = Head(tasks) /\ tasks # <<>> /\ tasks' = Tail(tasks)
                      /\ UNCHANGED rq
                    BY <2>1, <4>1
                <5>2. Cardinality(At(tasks', c)) = Cardinality(At(tasks, c)) - One(Head(tasks) = c)
                    BY <3>2, <5>1, AtTail
                <5>3. One(Taker(wk[w], c)) = 0 /\ One(Taker(r, c)) = One(Head(tasks) = c)
                      /\ One(Head(tasks) = c) \in Nat
                    BY <4>1, <5>1 DEF One, Taker
                <5> QED BY <2>1, <3>1, <5>1, <5>2, <5>3, Counts
            <4>2. CASE wk[w].pc = "pop" /\ rq[d] = <<>> /\ r = Idle /\ UNCHANGED <<tasks, rq>>
                <5>1. CASE c = d
                    BY <4>2, <5>1
                <5>2. CASE c # d
                    <6>1. One(Taker(wk[w], c)) = 0 /\ One(Taker(r, c)) = 0
                        BY <4>2, <5>2, IdleIsGood DEF One, Taker
                    <6> QED BY <2>1, <3>1, <4>2, <6>1, Counts
                <5> QED BY <5>1, <5>2
            <4>3. CASE /\ wk[w].pc = "pop" /\ rq[d] # <<>> /\ r.pc = "register" /\ r.cli = d
                       /\ rq' = [rq EXCEPT ![d] = Tail(rq[d])] /\ UNCHANGED tasks
                <5>1. CASE c = d
                    <6>1. One(Taker(wk[w], c)) = 1 /\ One(Taker(r, c)) = 0
                        BY <4>3, <5>1 DEF One, Taker
                    <6>2. rq'[c] = Tail(rq[c]) /\ rq[c] # <<>>
                        BY <3>2, <4>3, <5>1
                    <6>3. Len(Tail(rq[c])) = Len(rq[c]) - 1
                        BY <3>2, <6>2, HeadTailProperties
                    <6>4. ep' = ep /\ tasks' = tasks
                        BY <2>1, <4>3
                    <6> HIDE DEF d
                    <6>5. Len(rq'[c]) = Len(rq[c]) - 1
                        BY <6>2, <6>3
                    <6>6. Cardinality(Takers(c)') = Cardinality(Takers(c)) - 1
                        BY <3>1, <6>1
                    <6>7. One(ep.pc = "create" /\ ep.c = c) = One(ep'.pc = "create" /\ ep'.c = c)
                          /\ One(ep.pc = "create" /\ ep.c = c) \in Nat
                        BY <6>4 DEF One
                    <6> QED BY <6>4, <6>5, <6>6, <6>7, Counts
                <5>2. CASE c # d
                    <6>1. One(Taker(wk[w], c)) = 0 /\ One(Taker(r, c)) = 0
                        BY <4>3, <5>2 DEF One, Taker
                    <6>2. rq'[c] = rq[c] /\ ep' = ep /\ tasks' = tasks
                        BY <2>1, <3>2, <4>3, <5>2
                    <6> HIDE DEF d
                    <6> QED BY <3>1, <6>1, <6>2, Counts
                <5> QED BY <5>1, <5>2
            <4>4. CASE /\ wk[w].pc = "pop" /\ r.pc = "free" /\ r.cli = d
                       /\ UNCHANGED <<tasks, rq>>
                <5>1. One(Taker(wk[w], c)) = One(Taker(r, c)) /\ One(Taker(r, c)) \in Nat
                    BY <4>4 DEF One, Taker
                <5> QED BY <2>1, <3>1, <4>4, <5>1, Counts
            <4>5. CASE /\ wk[w].pc = "free" /\ r.pc = "register" /\ r.cli = d
                       /\ rq' = [rq EXCEPT ![d] = <<>>] /\ UNCHANGED tasks
                <5>1. CASE c = d
                    BY <3>2, <4>5, <5>1
                <5>2. CASE c # d
                    <6>1. One(Taker(wk[w], c)) = 0 /\ One(Taker(r, c)) = 0
                        BY <4>5, <5>2 DEF One, Taker
                    <6>2. rq'[c] = rq[c]
                        BY <3>2, <4>5, <5>2
                    <6> QED BY <2>1, <3>1, <4>5, <6>1, <6>2, Counts
                <5> QED BY <5>1, <5>2
            <4> QED BY <2>1, <4>1, <4>2, <4>3, <4>4, <4>5
        <3> QED BY <3>1, <3>3, CountAgain
    <2> QED BY <2>2 DEF CountInv
<1> QED
    BY <1>1, <1>2 DEF WorkerStep, Handling

(* No packet is left in a read queue without a task to take it: a worker    *)
(* that takes another one's packet leaves its own behind for it, and one    *)
(* that frees the queue with the last block leaves nothing.                 *)
THEOREM NoBlockIsOrphaned == Spec => []NoOrphanBlock
<1>1. Init /\ PlaceInv => CountInv
    <2> SUFFICES ASSUME Init, PlaceInv, NEW c \in Conns
                 PROVE  IsFiniteSet(Takers(c)) /\ Len(rq[c]) <= Pending(c)
        BY DEF CountInv
    <2>1. Takers(c) = {} /\ At(tasks, c) = {} /\ One(ep.pc = "create" /\ ep.c = c) = 0
        BY DEF Init, Takers, Taker, Idle, At, One, Waiting
    <2>2. IsFiniteSet({}) /\ Cardinality({}) = 0 /\ Len(<<>>) = 0
        BY FS_EmptySet
    <2>3. Pending(c) = 0
        BY <2>1, <2>2, PendingIs
    <2> QED BY <2>1, <2>2, <2>3 DEF Init
<1>2. PlaceInv /\ PlaceInv' /\ CountInv /\ [Next]_vars => CountInv'
    <2> SUFFICES ASSUME PlaceInv, PlaceInv', CountInv, [Next]_vars PROVE CountInv'
        OBVIOUS
    <2>1. CASE PeerStep
        BY <2>1, CountSame DEF PeerStep, PeerClose, Send
    <2>2. CASE EpollEvent
        BY <2>2, CountSame DEF EpollEvent, Accept, Read, Write, WriteLast, Hangup, EpollGoes
    <2>3. CASE UNCHANGED vars
        BY <2>3, CountSame DEF vars
    <2> QED BY <2>1, <2>2, <2>3, CountEpoll, CountWorkers DEF Next
<1>3. CountInv => NoOrphanBlock
    BY DEF CountInv, NoOrphanBlock
<1> QED
    BY <1>1, <1>2, <1>3, PlaceHolds, PTL DEF Spec
=============================================================================
