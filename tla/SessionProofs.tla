--------------------------- MODULE SessionProofs ---------------------------
(***************************************************************************)
(* Proofs about Session for any calls, peers, workers and bounds.          *)
(***************************************************************************)
EXTENDS Session, FiniteSetTheorems, SequenceTheorems, TLAPS

USE DEF maps, users, waits, ids, queues, env, app

-----------------------------------------------------------------------------
(* The inductive invariant of what each worker is doing and what the maps   *)
(* and queues hold.                                                         *)

Waiters == [what : {"call", "req", "resp"},
            of : Calls \cup Uids \cup {Server, NoCall}, n : Nat]

WaitPC    == {"wait", "dozing", "asleep"}
CyclePC   == {"push", "read", "increment", "register", "free-waiter", "erase", "getresp"}
RequestPC == {"enroll", "add", "lock-check", "check", "seek", "collect", "take", "leave"}
SendPC    == {"muid", "return"} \cup CyclePC
GatherPC  == {"lookup", "glance", "lock-get", "get"}
AnswerPC  == {"answer", "find", "set", "cast"}
StorePC   == {"lock-store", "store", "insert", "wake", "wake-user", "wake-any"}
LockPC    == {"store", "insert", "check", "collect", "take", "leave", "get", "lost"}
MessagePC == {"pop", "free"} \cup AnswerPC \cup StorePC

SentKinds == {"request", "respond", "signal", "ping"}

(* A worker between drawing a muid and taking the answer to it away ...     *)
Holding(r) == r.pc \in CyclePC \/ (r.pc \in WaitPC /\ r.then = "free-waiter")

(* ... and one whose waiter may be in cnd_responses. *)
Awaiting(r) == \/ r.pc \in WaitPC /\ r.then = "free-waiter"
               \/ r.pc \in {"free-waiter", "erase"}

(* What comes in once the muids D have been given out. *)
StatusMsg(D) == {p \in Packet : p.kind = "status" /\ p.code \in {101, 200} /\ p.num \in D}
UserMsg == Requests \cup {p \in Packet : p.kind = "response" /\ p.from \in Uids /\ p.ref \in Calls}

WorkerRec == [pc : WorkerPC, call : Calls \cup {NoCall}, muid : Nat, pkt : Packet,
              on : Waiters, then : {"idle", "glance", "free-waiter", "collect"},
              todo : SUBSET Uids, seen : Nat]

GoodWait(r) ==
    \/ r.then = "glance" /\ Op[r.call].kind \in {"gather", "misc"}
    \/ /\ r.then = "free-waiter" /\ Op[r.call].kind \in SentKinds
       /\ r.on = Waiter(r.call, r.muid)
    \/ r.then = "collect" /\ Op[r.call].kind = "request"

GoodWorker(r, D) ==
    /\ r \in WorkerRec
    /\ r.pc = "idle" => r = Idle
    /\ r.pc \in MessagePC => r.call = NoCall
    /\ r.pc \notin {"idle", "lost"} \cup MessagePC => r.call \in Calls
    /\ r.pc \in RequestPC => Op[r.call].kind = "request"
    /\ r.pc \in SendPC => Op[r.call].kind \in SentKinds
    /\ r.pc = "lookup" => Op[r.call].kind = "gather"
    /\ r.pc \in GatherPC => Op[r.call].kind \in {"gather", "misc"} /\ r.then = "glance"
    /\ r.pc \in WaitPC => GoodWait(r)
    /\ Holding(r) => r.muid \in D
    /\ r.pc = "free" => r.pkt \in StatusMsg(D) \cup UserMsg
    /\ r.pc \in AnswerPC => r.pkt \in StatusMsg(D)
    /\ r.pc = "set" => r.on.what = "call" /\ r.on.n = r.pkt.num
    /\ r.pc \in StorePC => r.pkt \in UserMsg
    /\ r.pc = "wake-user" => r.on.what # "call"
    /\ r.pc = "wake-any" => r.pkt.kind = "request"

Sendings(D) == [muid : D, call : Calls]

Working == wk = [w \in Workers |-> wk[w]] /\ \A w \in Workers : GoodWorker(wk[w], drawn)

Queued == /\ tasks \in Seq(Calls \cup {OnMessage}) /\ runner \in {"poll", "create", "free"}
          /\ readq \in Seq(StatusMsg(drawn) \cup UserMsg)
          /\ writeq \in Seq(Sendings(drawn)) /\ atServer \subseteq Sendings(drawn)

Numbers == last_muid \in Nat /\ drawn \subseteq Nat

Called == /\ last_c_muids \subseteq Uids /\ cmuid \in [Calls -> {0, 1}]
          /\ stage \in [Calls -> {"new", "running", "done"}]
          /\ accepted \in [Calls -> Nat] /\ asked \in [Uids -> Nat]
          /\ DOMAIN got = Calls /\ \A c \in Calls : got[c] \subseteq Packet
          /\ stored \subseteq Requests

Answers == \A n \in DOMAIN responses : n \in drawn /\ responses[n] \in {101, 200}

(* An entry of cnd_responses is the waiter of a worker that waits or is     *)
(* about to erase it.                                                       *)
Waited == \A n \in DOMAIN cnd_responses :
             /\ n \in drawn /\ cnd_responses[n] \in Waiters
             /\ cnd_responses[n].what = "call" /\ cnd_responses[n].n = n
             /\ \E w \in Workers : Awaiting(wk[w])
                                   /\ cnd_responses[n] = Waiter(wk[w].call, wk[w].muid)

GoodUser(e) == /\ DOMAIN e = {"requests", "responses"} /\ e.requests \in Seq(Nat)
               /\ DOMAIN e.responses \subseteq Nat
               /\ \A n \in DOMAIN e.responses : e.responses[n] \in Calls \cup {NoCall}

Users == /\ DOMAIN usr_responses \subseteq Uids /\ usr_waiters \in [Uids -> Nat]
         /\ usrLock \in Workers \cup {NoWorker}
         /\ \A u \in DOMAIN usr_responses : GoodUser(usr_responses[u])

Set == ready \subseteq Waiters /\ \A x \in ready : x.what = "call" => x.n \in drawn

Locked == usrLock # NoWorker => wk[usrLock].pc \in LockPC

PlaceInv == /\ Working /\ Queued /\ Numbers /\ Called /\ Answers /\ Waited /\ Users
            /\ Set /\ Locked

-----------------------------------------------------------------------------
(* Records. *)

WithPkt(r, pc, p)    == [r EXCEPT !.pc = pc, !.pkt = p]
WithMuid(r, pc, n)   == [r EXCEPT !.pc = pc, !.muid = n]
WithSeen(r, pc, n)   == [r EXCEPT !.pc = pc, !.seen = n]
WithOn(r, pc, x)     == [r EXCEPT !.pc = pc, !.on = x]
WithTodo(r, pc, t)   == [r EXCEPT !.pc = pc, !.todo = t]
Waiting(r, x, then)  == [r EXCEPT !.pc = "wait", !.on = x, !.then = then]
Began(pc, c)         == [Idle EXCEPT !.pc = pc, !.call = c, !.then = "glance"]

Same(r, s) == s.call = r.call /\ s.muid = r.muid /\ s.then = r.then

LEMMA IdleIs == /\ Idle.pc = "idle" /\ Idle.call = NoCall /\ Idle \in WorkerRec
                /\ NoPacket \in Packet /\ AnyWaiter \in Waiters
BY DEF Idle, WorkerRec, WorkerPC, NoPacket, Packet, AnyWaiter, Waiters

LEMMA ToIs ==
    ASSUME NEW r \in WorkerRec, NEW pc \in WorkerPC
    PROVE  LET s == [r EXCEPT !.pc = pc]
           IN /\ s \in WorkerRec /\ s.pc = pc /\ Same(r, s) /\ s.pkt = r.pkt /\ s.on = r.on
              /\ s.todo = r.todo
BY DEF WorkerRec, Same

LEMMA WithPktIs ==
    ASSUME NEW r \in WorkerRec, NEW pc \in WorkerPC, NEW p \in Packet
    PROVE  LET s == WithPkt(r, pc, p)
           IN s \in WorkerRec /\ s.pc = pc /\ Same(r, s) /\ s.pkt = p
BY DEF WorkerRec, Same, WithPkt

LEMMA WithMuidIs ==
    ASSUME NEW r \in WorkerRec, NEW pc \in WorkerPC, NEW n \in Nat
    PROVE  LET s == WithMuid(r, pc, n)
           IN s \in WorkerRec /\ s.pc = pc /\ s.call = r.call /\ s.muid = n
BY DEF WorkerRec, WithMuid

LEMMA WithSeenIs ==
    ASSUME NEW r \in WorkerRec, NEW pc \in WorkerPC, NEW n \in Nat
    PROVE  LET s == WithSeen(r, pc, n)
           IN s \in WorkerRec /\ s.pc = pc /\ Same(r, s) /\ s.seen = n
BY DEF WorkerRec, Same, WithSeen

LEMMA WithOnIs ==
    ASSUME NEW r \in WorkerRec, NEW pc \in WorkerPC, NEW x \in Waiters
    PROVE  LET s == WithOn(r, pc, x)
           IN s \in WorkerRec /\ s.pc = pc /\ Same(r, s) /\ s.pkt = r.pkt /\ s.on = x
BY DEF WorkerRec, Same, WithOn

LEMMA WithTodoIs ==
    ASSUME NEW r \in WorkerRec, NEW pc \in WorkerPC, NEW t \in SUBSET Uids
    PROVE  LET s == WithTodo(r, pc, t)
           IN s \in WorkerRec /\ s.pc = pc /\ Same(r, s)
BY DEF WorkerRec, Same, WithTodo

LEMMA WaitingIs ==
    ASSUME NEW r \in WorkerRec, NEW x \in Waiters, NEW then \in {"free-waiter", "collect"}
    PROVE  LET s == Waiting(r, x, then)
           IN /\ s \in WorkerRec /\ s.pc = "wait" /\ s.call = r.call /\ s.muid = r.muid
              /\ s.on = x /\ s.then = then
<1> DEFINE a == [r EXCEPT !.pc = "wait"]
           b == [a EXCEPT !.on = x]
           d == [b EXCEPT !.then = then]
<1>1. a \in WorkerRec /\ a.pc = "wait" /\ a.call = r.call /\ a.muid = r.muid
    BY DEF WorkerRec, WorkerPC
<1> HIDE DEF a
<1>2. b \in WorkerRec /\ b.pc = "wait" /\ b.call = r.call /\ b.muid = r.muid /\ b.on = x
    BY <1>1 DEF WorkerRec
<1> HIDE DEF b
<1>3. d \in WorkerRec /\ d.pc = "wait" /\ d.call = r.call /\ d.muid = r.muid /\ d.on = x
      /\ d.then = then
    BY <1>2 DEF WorkerRec
<1> QED
    BY <1>3 DEF a, b, d, Waiting

LEMMA BeganIs ==
    ASSUME NEW pc \in WorkerPC, NEW c \in Calls
    PROVE  LET s == Began(pc, c)
           IN s \in WorkerRec /\ s.pc = pc /\ s.call = c /\ s.then = "glance"
<1> DEFINE a == [Idle EXCEPT !.pc = pc]
           b == [a EXCEPT !.call = c]
           d == [b EXCEPT !.then = "glance"]
<1>1. a \in WorkerRec /\ a.pc = pc
    BY IdleIs DEF WorkerRec
<1> HIDE DEF a
<1>2. b \in WorkerRec /\ b.pc = pc /\ b.call = c
    BY <1>1 DEF WorkerRec
<1> HIDE DEF b
<1>3. d \in WorkerRec /\ d.pc = pc /\ d.call = c /\ d.then = "glance"
    BY <1>2 DEF WorkerRec
<1> QED
    BY <1>3 DEF a, b, d, Began

-----------------------------------------------------------------------------
(* One worker makes a step; those that its waiter_set wakes go on waiting.  *)

Becomes(w, r) ==
    /\ wk' = [v \in Workers |-> wk'[v]] /\ wk'[w] = r
    /\ \A v \in Workers \ {w} : \/ wk'[v] = wk[v]
                                \/ wk[v].pc = "asleep" /\ wk'[v] = [wk[v] EXCEPT !.pc = "wait"]

LEMMA GoesTo ==
    ASSUME PlaceInv, NEW w \in Workers, NEW from, NEW r, Goes(w, from, r)
    PROVE  Becomes(w, r) /\ wk[w].pc = from
BY DEF PlaceInv, Working, Goes, Becomes

LEMMA CastsTo ==
    ASSUME NEW w \in Workers, NEW x, NEW r, Broadcast(w, x, r)
    PROVE  Becomes(w, r)
BY DEF Broadcast, Becomes, To

LEMMA SetsTo ==
    ASSUME NEW w \in Workers, NEW x, NEW r, SetWaiter(w, x, r)
    PROVE  Becomes(w, r) /\ ready' = ready \cup {x}
BY CastsTo DEF SetWaiter

LEMMA WorkerAt ==
    ASSUME PlaceInv, NEW w \in Workers
    PROVE  /\ GoodWorker(wk[w], drawn) /\ wk[w] \in WorkerRec
           /\ wk[w].call \in Calls \cup {NoCall} /\ wk[w].pkt \in Packet
           /\ wk[w].muid \in Nat /\ wk[w].on \in Waiters /\ wk[w].todo \subseteq Uids
           /\ wk[w].seen \in Nat
BY DEF PlaceInv, Working, GoodWorker, WorkerRec

(* What changes for the better or not at all when a worker wakes up. *)
LEMMA Woken ==
    ASSUME NEW r, NEW D, GoodWorker(r, D), r.pc = "asleep"
    PROVE  LET s == [r EXCEPT !.pc = "wait"]
           IN /\ GoodWorker(s, D) /\ s.pc = "wait" /\ Same(r, s)
              /\ (Holding(s) <=> Holding(r)) /\ (Awaiting(s) <=> Awaiting(r))
<1> DEFINE s == [r EXCEPT !.pc = "wait"]
<1>1. r \in WorkerRec /\ "wait" \in WorkerPC
    BY DEF GoodWorker, WorkerPC
<1>2. s \in WorkerRec /\ s.pc = "wait" /\ Same(r, s) /\ s.pkt = r.pkt /\ s.on = r.on
    BY <1>1, ToIs
<1> HIDE DEF s
<1>3. Holding(s) <=> Holding(r)
    BY <1>2 DEF Holding, Same, WaitPC, CyclePC
<1>4. Awaiting(s) <=> Awaiting(r)
    BY <1>2 DEF Awaiting, Same, WaitPC
<1>5. GoodWorker(s, D)
    BY <1>2, <1>3 DEF GoodWorker, GoodWait, Same, WaitPC, RequestPC, SendPC, CyclePC, GatherPC,
                      AnswerPC, StorePC, MessagePC
<1> QED
    BY <1>2, <1>3, <1>4, <1>5 DEF s

LEMMA MoreDrawn ==
    ASSUME NEW r, NEW D, NEW E, GoodWorker(r, D), D \subseteq E
    PROVE  GoodWorker(r, E)
BY DEF GoodWorker, StatusMsg

(* The step of worker w leaves it with the record r; the other workers keep *)
(* to what they wait for and to usr_responses_mtx.                          *)
Suits(w, r) == Becomes(w, r) /\ drawn \subseteq drawn' /\ GoodWorker(r, drawn')

Remains(v) == Awaiting(wk[v]) => /\ Awaiting(wk'[v]) /\ wk'[v].call = wk[v].call
                                 /\ wk'[v].muid = wk[v].muid

LEMMA Suiting ==
    ASSUME PlaceInv, NEW w \in Workers, NEW r, Suits(w, r)
    PROVE  /\ Working' /\ wk'[w] = r /\ \A v \in Workers \ {w} : Remains(v)
           /\ UNCHANGED usrLock /\ (wk[w].pc \in LockPC => r.pc \in LockPC) => Locked'
           /\ usrLock' = w /\ r.pc \in LockPC => Locked'
           /\ usrLock' = NoWorker => Locked'
<1>1. /\ wk' = [v \in Workers |-> wk'[v]] /\ wk'[w] = r /\ drawn \subseteq drawn'
      /\ GoodWorker(r, drawn')
      /\ \A v \in Workers \ {w} : \/ wk'[v] = wk[v]
                                  \/ wk[v].pc = "asleep" /\ wk'[v] = [wk[v] EXCEPT !.pc = "wait"]
    BY DEF Suits, Becomes
<1>2. \A v \in Workers : GoodWorker(wk[v], drawn)
    BY WorkerAt
<1>3. \A v \in Workers \ {w} :
          GoodWorker(wk'[v], drawn) /\ Remains(v) /\ (wk[v].pc \in LockPC => wk'[v].pc \in LockPC)
    <2> SUFFICES ASSUME NEW v \in Workers \ {w}
                 PROVE  /\ GoodWorker(wk'[v], drawn) /\ Remains(v)
                        /\ wk[v].pc \in LockPC => wk'[v].pc \in LockPC
        OBVIOUS
    <2>1. CASE wk'[v] = wk[v]
        BY <1>2, <2>1 DEF Remains
    <2>2. CASE wk[v].pc = "asleep" /\ wk'[v] = [wk[v] EXCEPT !.pc = "wait"]
        <3> DEFINE s == [wk[v] EXCEPT !.pc = "wait"]
        <3>1. GoodWorker(s, drawn) /\ Same(wk[v], s) /\ (Awaiting(s) <=> Awaiting(wk[v]))
            BY <1>2, <2>2, Woken
        <3> HIDE DEF s
        <3>2. wk'[v] = s
            BY <2>2 DEF s
        <3> QED BY <2>2, <3>1, <3>2 DEF Same, LockPC, Remains
    <2> QED BY <1>1, <2>1, <2>2
<1>4. Working'
    BY <1>1, <1>3, MoreDrawn DEF Working
<1>5. usrLock \in Workers \cup {NoWorker}
    BY DEF PlaceInv, Users
<1>6. UNCHANGED usrLock /\ (wk[w].pc \in LockPC => r.pc \in LockPC) => Locked'
    BY <1>1, <1>3, <1>5 DEF PlaceInv, Locked
<1>7. (usrLock' = w /\ r.pc \in LockPC => Locked') /\ (usrLock' = NoWorker => Locked')
    BY <1>1 DEF Locked
<1> QED
    BY <1>1, <1>3, <1>4, <1>6, <1>7

(* ... and worker w does not give up its waiter either. *)
Fits(w, r) ==
    /\ Suits(w, r)
    /\ Awaiting(wk[w]) => Awaiting(r) /\ r.call = wk[w].call /\ r.muid = wk[w].muid

LEMMA Fitting ==
    ASSUME PlaceInv, NEW w \in Workers, NEW r, Fits(w, r)
    PROVE  /\ Working'
           /\ UNCHANGED cnd_responses => Waited'
           /\ UNCHANGED usrLock /\ (wk[w].pc \in LockPC => r.pc \in LockPC) => Locked'
           /\ usrLock' = w /\ r.pc \in LockPC => Locked'
           /\ usrLock' = NoWorker => Locked'
<1>1. /\ Working' /\ wk'[w] = r /\ \A v \in Workers \ {w} : Remains(v)
      /\ UNCHANGED usrLock /\ (wk[w].pc \in LockPC => r.pc \in LockPC) => Locked'
      /\ usrLock' = w /\ r.pc \in LockPC => Locked'
      /\ usrLock' = NoWorker => Locked'
    BY Suiting DEF Fits
<1>2. \A v \in Workers : Remains(v)
    BY <1>1 DEF Fits, Remains
<1>3. ASSUME UNCHANGED cnd_responses PROVE Waited'
    <2>1. drawn \subseteq drawn'
        BY DEF Fits, Suits
    <2> QED BY <1>2, <1>3, <2>1 DEF PlaceInv, Waited, Waiter, Remains
<1> QED
    BY <1>1, <1>3

(* What is left alone stays as it is. *)
LEMMA KeepQueued ==
    ASSUME PlaceInv, UNCHANGED <<tasks, runner, readq, writeq, atServer, drawn>> PROVE Queued'
BY DEF PlaceInv, Queued
LEMMA KeepNumbers == ASSUME PlaceInv, UNCHANGED <<last_muid, drawn>> PROVE Numbers'
BY DEF PlaceInv, Numbers
LEMMA KeepCalled ==
    ASSUME PlaceInv, UNCHANGED <<last_c_muids, cmuid, stage, accepted, asked, got, stored>>
    PROVE  Called'
BY DEF PlaceInv, Called
LEMMA KeepAnswers == ASSUME PlaceInv, UNCHANGED responses, drawn \subseteq drawn' PROVE Answers'
BY DEF PlaceInv, Answers
LEMMA KeepUsers == ASSUME PlaceInv, UNCHANGED <<usr_responses, usr_waiters, usrLock>> PROVE Users'
BY DEF PlaceInv, Users
LEMMA KeepSet == ASSUME PlaceInv, UNCHANGED <<ready, drawn>> PROVE Set'
BY DEF PlaceInv, Set
LEMMA KeepWorkers == ASSUME PlaceInv, UNCHANGED <<wk, drawn>> PROVE Working'
BY DEF PlaceInv, Working
LEMMA KeepWaited == ASSUME PlaceInv, UNCHANGED <<wk, drawn, cnd_responses>> PROVE Waited'
BY DEF PlaceInv, Waited, Waiter
LEMMA KeepLocked == ASSUME PlaceInv, UNCHANGED <<wk, usrLock>> PROVE Locked'
BY DEF PlaceInv, Locked

-----------------------------------------------------------------------------
(* The steps after which a worker differs in its pc alone. *)
OnTo(r, pc) ==
    \/ /\ r.pc \in WaitPC /\ pc \in WaitPC
    \/ r.pc = "wait" /\ pc = r.then
    \/ r.pc = "lock-store" /\ pc = "store"
    \/ r.pc = "lock-check" /\ pc = "check"
    \/ r.pc = "lock-get" /\ pc = "get"
    \/ r.pc = "idle" /\ pc = "pop"
    \/ r.pc = "free" /\ pc = Sort(r.pkt)
    \/ r.pc = "answer" /\ pc = "find"
    \/ r.pc = "store" /\ pc \in {"insert", "wake"}
    \/ r.pc = "insert" /\ pc = "wake"
    \/ r.pc \in {"wake", "wake-user"} /\ pc = "wake-any" /\ r.pkt.kind = "request"
    \/ r.pc = "cast" /\ pc = "lost"
    \/ r.pc = "enroll" /\ pc \in {"muid", "add"}
    \/ r.pc = "add" /\ pc = "muid"
    \/ r.pc = "push" /\ pc = "read"
    \/ r.pc = "increment" /\ pc = "register"
    \/ r.pc = "free-waiter" /\ pc = "erase"
    \/ r.pc = "erase" /\ pc = "getresp"
    \/ r.pc = "getresp" /\ pc \in {"muid", "return"}
    \/ r.pc = "getresp" /\ pc = "lock-check" /\ Op[r.call].kind = "request"
    \/ r.pc = "check" /\ pc \in {"seek", "collect"}
    \/ r.pc = "take" /\ pc \in {"leave", "lost"}

LEMMA OnToKeeps ==
    ASSUME NEW r, NEW D, GoodWorker(r, D), NEW pc, OnTo(r, pc)
    PROVE  LET s == [r EXCEPT !.pc = pc]
           IN /\ GoodWorker(s, D) /\ s.pc = pc /\ Same(r, s) /\ s.pkt = r.pkt /\ s.on = r.on
              /\ Awaiting(r) /\ r.pc # "erase" => Awaiting(s)
<1> DEFINE s == [r EXCEPT !.pc = pc]
<1>1. r \in WorkerRec /\ r.then \in {"idle", "glance", "free-waiter", "collect"}
    BY DEF GoodWorker, WorkerRec
<1>2. pc \in WorkerPC
    BY <1>1 DEF OnTo, WorkerPC, WaitPC, Sort
<1>3. s \in WorkerRec /\ s.pc = pc /\ Same(r, s) /\ s.pkt = r.pkt /\ s.on = r.on
    BY <1>1, <1>2, ToIs
<1> HIDE DEF s
<1>4. Awaiting(r) /\ r.pc # "erase" => Awaiting(s)
    BY <1>3 DEF Awaiting, OnTo, WaitPC, Same
<1>5. GoodWorker(s, D)
    <2> USE <1>1, <1>3 DEF WaitPC, RequestPC, SendPC, CyclePC, GatherPC, AnswerPC, StorePC,
                           MessagePC, Same, Holding, GoodWorker
    <2>1. CASE r.pc \in WaitPC /\ pc \in WaitPC
        BY <2>1 DEF GoodWait
    <2>2. CASE r.pc = "wait" /\ pc = r.then
        <3>1. GoodWait(r)
            BY <2>2
        <3> QED BY <2>2, <3>1 DEF GoodWait
    <2>3. CASE r.pc \in {"lock-store", "lock-check", "lock-get"} /\ OnTo(r, pc)
        BY <2>3 DEF OnTo
    <2>4. CASE r.pc = "idle" /\ pc = "pop"
        BY <2>4, IdleIs
    <2>5. CASE r.pc = "free" /\ pc = Sort(r.pkt)
        <3>1. pc \in {"answer", "lock-store"} /\ (pc = "answer" <=> r.pkt.kind = "status")
            BY <2>5 DEF Sort
        <3>2. r.pkt \in StatusMsg(D) => r.pkt.kind = "status"
            BY DEF StatusMsg
        <3>3. r.pkt \in UserMsg => r.pkt.kind # "status"
            BY DEF UserMsg, Requests
        <3> QED BY <2>5, <3>1, <3>2, <3>3
    <2>6. CASE r.pc \in {"answer", "cast", "store", "insert", "wake", "wake-user"} /\ OnTo(r, pc)
        BY <2>6 DEF OnTo
    <2>7. CASE r.pc \in {"enroll", "add", "check", "take"} /\ OnTo(r, pc)
        BY <2>7 DEF OnTo, SentKinds
    <2>8. CASE r.pc \in {"push", "increment", "free-waiter", "erase", "getresp"} /\ OnTo(r, pc)
        BY <2>8 DEF OnTo
    <2> QED BY <2>1, <2>2, <2>3, <2>4, <2>5, <2>6, <2>7, <2>8 DEF OnTo
<1> QED
    BY <1>3, <1>4, <1>5 DEF s

LEMMA MovesOn ==
    ASSUME PlaceInv, NEW w \in Workers, NEW from, NEW pc, Becomes(w, To(w, pc)),
           wk[w].pc # "erase", OnTo(wk[w], pc), drawn' = drawn
    PROVE  /\ Fits(w, To(w, pc)) /\ To(w, pc).pc = pc
           /\ GoodWorker(To(w, pc), drawn) /\ Same(wk[w], To(w, pc))
<1> DEFINE r == wk[w]
           s == [r EXCEPT !.pc = pc]
<1>1. GoodWorker(r, drawn)
    BY WorkerAt
<1> HIDE DEF r
<1>2. /\ GoodWorker(s, drawn) /\ s.pc = pc /\ Same(r, s)
      /\ Awaiting(r) /\ r.pc # "erase" => Awaiting(s)
    BY <1>1, OnToKeeps DEF r
<1>3. To(w, pc) = s
    BY DEF To, r
<1> HIDE DEF s
<1> QED
    BY <1>2, <1>3 DEF Fits, Suits, Same, r

LEMMA IdleFits ==
    ASSUME PlaceInv, NEW w \in Workers, Becomes(w, Idle), drawn' = drawn, ~Awaiting(wk[w])
    PROVE  Fits(w, Idle)
BY IdleIs DEF Fits, Suits, GoodWorker, Holding, WaitPC, RequestPC, SendPC, CyclePC, GatherPC,
              AnswerPC, StorePC, MessagePC

(* What an ended call leaves. *)
LEMMA Returned ==
    ASSUME PlaceInv, NEW w \in Workers, wk[w].call \in Calls, NEW v, v \subseteq Packet,
           Return(w, v), UNCHANGED <<last_c_muids, cmuid, accepted, asked, stored>>
    PROVE  Called'
BY DEF PlaceInv, Called, Return

LEMMA WaitsKeep ==
    ASSUME PlaceInv, NEW w \in Workers, WaitStep(w)
    PROVE  PlaceInv'
<1> USE DEF WaitPC
<1>1. CASE Awake(w) \/ Doze(w) \/ Sleep(w) \/ SpuriousWake(w)
    <2>1. /\ UNCHANGED <<tasks, runner, queues, ids, app, maps, users, env, got, stored>>
          /\ ready' \subseteq ready
        BY <1>1 DEF Awake, Doze, Sleep, SpuriousWake
    <2>2. \E pc : Goes(w, wk[w].pc, To(w, pc)) /\ OnTo(wk[w], pc) /\ wk[w].pc \in WaitPC
        BY <1>1 DEF Awake, Doze, Sleep, SpuriousWake, Goes, OnTo
    <2>3. PICK pc : Goes(w, wk[w].pc, To(w, pc)) /\ OnTo(wk[w], pc) /\ wk[w].pc \in WaitPC
        BY <2>2
    <2>4. Becomes(w, To(w, pc))
        BY <2>3, GoesTo
    <2>5. Fits(w, To(w, pc))
        BY <2>1, <2>3, <2>4, MovesOn
    <2>6. Working' /\ Waited' /\ Locked'
        BY <2>1, <2>3, <2>5, Fitting DEF LockPC
    <2>7. Set'
        BY <2>1 DEF PlaceInv, Set
    <2> QED BY <2>1, <2>6, <2>7, KeepQueued, KeepNumbers, KeepCalled, KeepAnswers, KeepUsers
               DEF PlaceInv
<1>2. CASE TimeOut(w)
    <2>1. /\ wk[w].pc = "asleep" /\ Becomes(w, Idle) /\ wk[w].call \in Calls
          /\ Op[wk[w].call].kind = "misc" /\ Return(w, {})
          /\ UNCHANGED <<tasks, runner, queues, ids, last_c_muids, cmuid, maps, users, ready,
                         env, stored>>
        BY <1>2, GoesTo, WorkerAt DEF TimeOut
    <2>2. ~Awaiting(wk[w])
        <3>1. GoodWait(wk[w])
            BY <2>1, WorkerAt DEF GoodWorker
        <3> QED BY <2>1, <3>1 DEF GoodWait, Awaiting, SentKinds
    <2>3. Working' /\ Waited' /\ Locked'
        BY <2>1, <2>2, IdleFits, Fitting DEF LockPC
    <2>4. Called'
        BY <2>1, Returned
    <2> QED BY <2>1, <2>3, <2>4, KeepQueued, KeepNumbers, KeepAnswers, KeepUsers, KeepSet
               DEF PlaceInv
<1>3. CASE Lock(w)
    <2>1. /\ usrLock' = w
          /\ UNCHANGED <<tasks, runner, queues, ids, app, maps, usr_responses, usr_waiters,
                         ready, env, got, stored>>
          /\ \E pc \in {"store", "check", "get"} :
                Goes(w, wk[w].pc, To(w, pc)) /\ OnTo(wk[w], pc)
          /\ wk[w].pc \in {"lock-store", "lock-check", "lock-get"}
        BY <1>3 DEF Lock, Goes, OnTo
    <2>2. PICK pc \in {"store", "check", "get"} :
              Goes(w, wk[w].pc, To(w, pc)) /\ OnTo(wk[w], pc)
        BY <2>1
    <2>3. Becomes(w, To(w, pc))
        BY <2>2, GoesTo
    <2>4. Fits(w, To(w, pc)) /\ To(w, pc).pc = pc
        BY <2>1, <2>2, <2>3, MovesOn
    <2>5. Working' /\ Waited' /\ Locked'
        BY <2>1, <2>4, Fitting DEF LockPC
    <2>6. Users'
        BY <2>1 DEF PlaceInv, Users
    <2> QED BY <2>1, <2>5, <2>6, KeepQueued, KeepNumbers, KeepCalled, KeepAnswers, KeepSet
               DEF PlaceInv
<1> QED
    BY <1>1, <1>2, <1>3 DEF WaitStep

(* A call begins: its task is taken by a worker that was idle. *)
LEMMA BeganFits ==
    ASSUME PlaceInv, NEW w \in Workers, NEW c \in Calls, Becomes(w, Began(FirstStep(c), c)),
           drawn' = drawn, wk[w].pc = "idle"
    PROVE  Fits(w, Began(FirstStep(c), c))
<1> DEFINE pc == FirstStep(c)
           s == Began(pc, c)
<1>1. Op[c].kind \in Kinds
    BY OpAssumption
<1>2. /\ Op[c].kind = "request" => pc = "enroll"
      /\ Op[c].kind \in {"respond", "signal", "ping"} => pc = "muid"
      /\ Op[c].kind = "gather" => pc = "lookup"
      /\ Op[c].kind = "misc" => pc = "wait"
    BY DEF FirstStep
<1>3. pc \in {"enroll", "muid", "lookup", "wait"}
    BY <1>1, <1>2 DEF Kinds
<1>4. pc \in WorkerPC
    BY <1>3 DEF WorkerPC
<1> HIDE DEF pc
<1>5. s \in WorkerRec /\ s.pc = pc /\ s.call = c /\ s.then = "glance"
    BY <1>4, BeganIs
<1> HIDE DEF s
<1>6. GoodWorker(s, drawn)
    BY <1>1, <1>2, <1>3, <1>5
       DEF Kinds, GoodWorker, GoodWait, Holding, WaitPC, RequestPC, SendPC, CyclePC, GatherPC,
           AnswerPC, StorePC, MessagePC, SentKinds
<1>7. ~Awaiting(wk[w])
    BY DEF Awaiting, WaitPC
<1> QED
    BY <1>6, <1>7 DEF Fits, Suits, s, pc

LEMMA TakesKeep ==
    ASSUME PlaceInv, NEW w \in Workers, Take(w)
    PROVE  PlaceInv'
<1>1. /\ tasks # <<>> /\ tasks' = Tail(tasks) /\ wk[w].pc = "idle"
      /\ UNCHANGED <<runner, queues, ids, app, maps, users, ready, env, got, stored>>
    BY DEF Take, Goes
<1>2. tasks \in Seq(Calls \cup {OnMessage}) /\ Head(tasks) \in Calls \cup {OnMessage}
    BY <1>1 DEF PlaceInv, Queued
<1>3. \E r : Fits(w, r)
    <2>1. CASE Head(tasks) = OnMessage
        <3>1. Goes(w, "idle", To(w, "pop"))
            BY <2>1 DEF Take
        <3>2. Becomes(w, To(w, "pop"))
            BY <3>1, GoesTo
        <3>3. OnTo(wk[w], "pop")
            BY <1>1 DEF OnTo
        <3> QED BY <1>1, <3>2, <3>3, MovesOn
    <2>2. CASE Head(tasks) # OnMessage
        <3> DEFINE c == Head(tasks)
        <3>1. c \in Calls
            BY <1>2, <2>2
        <3>2. Goes(w, "idle", Began(FirstStep(c), c))
            BY <2>2 DEF Take, Began
        <3>3. Becomes(w, Began(FirstStep(c), c))
            BY <3>2, GoesTo
        <3> QED BY <1>1, <3>1, <3>3, BeganFits
    <2> QED BY <2>1, <2>2
<1>4. PICK r : Fits(w, r)
    BY <1>3
<1>5. Working' /\ Waited' /\ Locked'
    BY <1>1, <1>4, Fitting DEF LockPC
<1>6. Queued'
    BY <1>1, <1>2 DEF PlaceInv, Queued
<1> QED
    BY <1>1, <1>5, <1>6, KeepNumbers, KeepCalled, KeepAnswers, KeepUsers, KeepSet DEF PlaceInv

-----------------------------------------------------------------------------
(* __dcn_on_message. *)

(* What pop_block hands out. *)
LEMMA HeadIs ==
    ASSUME PlaceInv, readq # <<>>
    PROVE  /\ Head(readq) \in StatusMsg(drawn) \cup UserMsg /\ Head(readq) \in Packet
           /\ Tail(readq) \in Seq(StatusMsg(drawn) \cup UserMsg)
BY DEF PlaceInv, Queued, StatusMsg, UserMsg, Requests

LEMMA SortIs ==
    ASSUME NEW D, NEW p \in StatusMsg(D) \cup UserMsg
    PROVE  /\ \/ Sort(p) = "answer" /\ p \in StatusMsg(D)
              \/ Sort(p) = "lock-store" /\ p \in UserMsg
           /\ Sort(p) \in WorkerPC
BY DEF Sort, StatusMsg, UserMsg, Requests, WorkerPC

LEMMA PoppedFits ==
    ASSUME PlaceInv, NEW w \in Workers, NEW pc, NEW p \in StatusMsg(drawn) \cup UserMsg,
           pc = "free" \/ pc = Sort(p), Becomes(w, WithPkt(wk[w], pc, p)), drawn' = drawn,
           wk[w].pc = "pop"
    PROVE  Fits(w, WithPkt(wk[w], pc, p))
<1> DEFINE r == wk[w]
           s == WithPkt(r, pc, p)
<1>1. GoodWorker(r, drawn) /\ r \in WorkerRec
    BY WorkerAt
<1>2. /\ p \in Packet /\ pc \in WorkerPC
      /\ \/ pc = "free"
         \/ pc = "answer" /\ p \in StatusMsg(drawn)
         \/ pc = "lock-store" /\ p \in UserMsg
    BY SortIs DEF StatusMsg, UserMsg, Requests, WorkerPC
<1>3. r.call = NoCall
    BY <1>1 DEF GoodWorker, MessagePC
<1> HIDE DEF r
<1>4. s \in WorkerRec /\ s.pc = pc /\ Same(r, s) /\ s.pkt = p
    BY <1>1, <1>2, WithPktIs
<1> HIDE DEF s
<1>5. GoodWorker(s, drawn)
    BY <1>2, <1>3, <1>4
       DEF GoodWorker, GoodWait, Holding, WaitPC, RequestPC, SendPC, CyclePC, GatherPC,
           AnswerPC, StorePC, MessagePC, Same
<1>6. ~Awaiting(r)
    BY DEF Awaiting, WaitPC, r
<1> QED
    BY <1>5, <1>6 DEF Fits, Suits, s, r

LEMMA PutIs ==
    ASSUME NEW f, NEW k, NEW v
    PROVE  /\ DOMAIN Put(f, k, v) = DOMAIN f \cup {k} /\ Put(f, k, v)[k] = v
           /\ \A x \in DOMAIN f \ {k} : Put(f, k, v)[x] = f[x]
BY DEF Put

LEMMA WithoutIs ==
    ASSUME NEW f, NEW k
    PROVE  /\ DOMAIN Without(f, k) = DOMAIN f \ {k}
           /\ \A x \in DOMAIN f \ {k} : Without(f, k)[x] = f[x]
BY DEF Without

LEMMA PopIs ==
    ASSUME NEW w, Pop(w)
    PROVE  /\ Len(readq) > 1 /\ readq' = Tail(readq)
           /\ Goes(w, "pop", WithPkt(wk[w], Sort(Head(readq)), Head(readq)))
           /\ UNCHANGED <<tasks, runner, writeq, last_muid, dup, drawn, app, maps, users, ready,
                          env, got, stored>>
BY Zenon DEF Pop, WithPkt

LEMMA PopLastIs ==
    ASSUME NEW w, PopLast(w)
    PROVE  /\ Len(readq) = 1 /\ readq' = readq
           /\ Goes(w, "pop", WithPkt(wk[w], "free", Head(readq)))
           /\ UNCHANGED <<tasks, runner, writeq, last_muid, dup, drawn, app, maps, users, ready,
                          env, got, stored>>
BY Zenon DEF PopLast, WithPkt

LEMMA PopsKeep ==
    ASSUME PlaceInv, NEW w \in Workers, PopNone(w) \/ Pop(w) \/ PopLast(w) \/ FreeRead(w)
    PROVE  PlaceInv'
<1>1. /\ UNCHANGED <<tasks, runner, writeq, last_muid, drawn, app, maps, users, ready, env, got,
                     stored>>
      /\ readq' \in Seq(StatusMsg(drawn) \cup UserMsg)
    <2>1. readq \in Seq(StatusMsg(drawn) \cup UserMsg)
        BY DEF PlaceInv, Queued
    <2>2. CASE Pop(w)
        <3>1. readq # <<>>
            BY <2>1, <2>2, PopIs
        <3>2. Tail(readq) \in Seq(StatusMsg(drawn) \cup UserMsg)
            BY <3>1, HeadIs
        <3> QED BY <2>2, <3>2, PopIs
    <2>3. CASE PopLast(w)
        BY <2>1, <2>3, PopLastIs
    <2>4. CASE PopNone(w)
        BY <2>1, <2>4 DEF PopNone
    <2>5. CASE FreeRead(w)
        <3>1. <<>> \in Seq(StatusMsg(drawn) \cup UserMsg)
            OBVIOUS
        <3> QED BY <3>1, <2>5 DEF FreeRead
    <2> QED BY <2>2, <2>3, <2>4, <2>5
<1>2. \E r : Fits(w, r) /\ wk[w].pc \notin LockPC
    <2>1. CASE PopNone(w)
        <3>1. Goes(w, "pop", Idle)
            BY <2>1 DEF PopNone
        <3>2. Becomes(w, Idle) /\ wk[w].pc = "pop"
            BY <3>1, GoesTo
        <3>3. ~Awaiting(wk[w])
            BY <3>2 DEF Awaiting, WaitPC
        <3> QED BY <1>1, <3>2, <3>3, IdleFits DEF LockPC
    <2>2. CASE Pop(w) \/ PopLast(w)
        <3> DEFINE p == Head(readq)
        <3>1. readq # <<>>
            <4>1. Len(readq) >= 1
                BY <2>2, PopIs, PopLastIs
            <4> QED BY <4>1
        <3>2. p \in StatusMsg(drawn) \cup UserMsg
            BY <3>1, HeadIs
        <3>3. \E pc \in {"free", Sort(p)} : Goes(w, "pop", WithPkt(wk[w], pc, p))
            BY <2>2, PopIs, PopLastIs
        <3> HIDE DEF p
        <3>4. PICK pc \in {"free", Sort(p)} : Goes(w, "pop", WithPkt(wk[w], pc, p))
            BY <3>3
        <3>5. Becomes(w, WithPkt(wk[w], pc, p)) /\ wk[w].pc = "pop"
            BY <3>4, GoesTo
        <3> QED BY <1>1, <3>2, <3>4, <3>5, PoppedFits DEF LockPC
    <2>3. CASE FreeRead(w)
        <3> DEFINE pc == Sort(wk[w].pkt)
        <3>1. Goes(w, "free", To(w, pc))
            BY <2>3 DEF FreeRead
        <3>2. OnTo(wk[w], pc)
            BY <3>1 DEF OnTo, Goes
        <3> HIDE DEF pc
        <3>3. Becomes(w, To(w, pc)) /\ wk[w].pc = "free"
            BY <3>1, GoesTo
        <3> QED BY <1>1, <3>2, <3>3, MovesOn DEF LockPC
    <2> QED BY <2>1, <2>2, <2>3
<1>3. Working' /\ Waited' /\ Locked'
    BY <1>1, <1>2, Fitting
<1>4. Queued'
    BY <1>1 DEF PlaceInv, Queued
<1> QED
    BY <1>1, <1>3, <1>4, KeepNumbers, KeepCalled, KeepAnswers, KeepUsers, KeepSet DEF PlaceInv

(* A handler that has got hold of a waiter. *)
LEMMA AimedFits ==
    ASSUME PlaceInv, NEW w \in Workers, NEW x \in Waiters, NEW pc,
           \/ pc = "set" /\ wk[w].pc = "find" /\ x.what = "call" /\ x.n = wk[w].pkt.num
           \/ pc = "cast" /\ wk[w].pc = "set"
           \/ pc = "wake-user" /\ wk[w].pc = "wake" /\ x.what # "call",
           Becomes(w, WithOn(wk[w], pc, x)), drawn' = drawn
    PROVE  Fits(w, WithOn(wk[w], pc, x))
<1> DEFINE r == wk[w]
           s == WithOn(r, pc, x)
<1>1. GoodWorker(r, drawn) /\ r \in WorkerRec /\ pc \in WorkerPC
    BY WorkerAt DEF WorkerPC
<1>2. /\ r.call = NoCall /\ ~Awaiting(r)
      /\ pc \in {"set", "cast"} => r.pkt \in StatusMsg(drawn)
      /\ pc = "wake-user" => r.pkt \in UserMsg
    BY <1>1 DEF GoodWorker, MessagePC, AnswerPC, StorePC, Awaiting, WaitPC
<1>3. /\ pc \in {"set", "cast", "wake-user"} /\ r = wk[w]
      /\ pc = "set" => x.what = "call" /\ x.n = r.pkt.num
      /\ pc = "wake-user" => x.what # "call"
    OBVIOUS
<1> HIDE DEF r
<1>4. s \in WorkerRec /\ s.pc = pc /\ Same(r, s) /\ s.pkt = r.pkt /\ s.on = x
    BY <1>1, WithOnIs
<1> HIDE DEF s
<1>5. GoodWorker(s, drawn)
    BY <1>2, <1>3, <1>4
       DEF GoodWorker, GoodWait, Holding, WaitPC, RequestPC, SendPC, CyclePC, GatherPC,
           AnswerPC, StorePC, MessagePC, Same
<1> QED
    BY <1>2, <1>3, <1>5 DEF Fits, Suits, s, r

LEMMA AnswersKeep ==
    ASSUME PlaceInv, NEW w \in Workers, StoreAnswer(w) \/ FindWaiter(w)
    PROVE  PlaceInv'
<1> DEFINE p == wk[w].pkt
<1>1. /\ UNCHANGED <<tasks, runner, queues, ids, app, cnd_responses, users, ready, env, got,
                     stored>>
      /\ wk[w].pc \in AnswerPC /\ wk[w].pc \notin LockPC
    BY DEF StoreAnswer, FindWaiter, Goes, AnswerPC, LockPC
<1>2. p \in StatusMsg(drawn)
    BY <1>1, WorkerAt DEF GoodWorker
<1>3. CASE StoreAnswer(w)
    <2>1. /\ Goes(w, "answer", To(w, "find")) /\ responses' = Put(responses, p.num, p.code)
        BY <1>3 DEF StoreAnswer
    <2>2. Becomes(w, To(w, "find")) /\ wk[w].pc = "answer"
        BY <2>1, GoesTo
    <2>3. OnTo(wk[w], "find")
        BY <2>2 DEF OnTo
    <2>4. Fits(w, To(w, "find"))
        BY <1>1, <2>2, <2>3, MovesOn
    <2>5. Answers'
        <3> DEFINE f == Put(responses, p.num, p.code)
        <3>1. p.num \in drawn /\ p.code \in {101, 200}
            BY <1>2 DEF StatusMsg
        <3>2. \A n \in DOMAIN responses : n \in drawn /\ responses[n] \in {101, 200}
            BY DEF PlaceInv, Answers
        <3>3. /\ DOMAIN f = DOMAIN responses \cup {p.num} /\ f[p.num] = p.code
              /\ \A n \in DOMAIN responses \ {p.num} : f[n] = responses[n]
            BY DEF Put
        <3> HIDE DEF f
        <3>4. \A n \in DOMAIN f : n \in drawn /\ f[n] \in {101, 200}
            BY <3>1, <3>2, <3>3
        <3> QED BY <1>1, <2>1, <3>4 DEF Answers, f
    <2> QED BY <1>1, <2>4, <2>5, Fitting, KeepQueued, KeepNumbers, KeepCalled, KeepUsers, KeepSet
               DEF PlaceInv
<1>4. CASE FindWaiter(w)
    <2>1. UNCHANGED responses
        BY <1>4 DEF FindWaiter
    <2>2. \E r : Fits(w, r)
        <3>1. CASE p.num \in DOMAIN cnd_responses
            <4> DEFINE x == cnd_responses[p.num]
            <4>1. x \in Waiters /\ x.what = "call" /\ x.n = p.num
                BY <3>1 DEF PlaceInv, Waited
            <4>2. Goes(w, "find", WithOn(wk[w], "set", x))
                BY <1>4, <3>1 DEF FindWaiter, WithOn
            <4> HIDE DEF x
            <4>3. Becomes(w, WithOn(wk[w], "set", x)) /\ wk[w].pc = "find"
                BY <4>2, GoesTo
            <4> QED BY <1>1, <4>1, <4>3, AimedFits
        <3>2. CASE p.num \notin DOMAIN cnd_responses
            <4>1. Goes(w, "find", Idle)
                BY <1>4, <3>2 DEF FindWaiter
            <4>2. Becomes(w, Idle) /\ wk[w].pc = "find"
                BY <4>1, GoesTo
            <4>3. ~Awaiting(wk[w])
                BY <4>2 DEF Awaiting, WaitPC
            <4> QED BY <1>1, <4>2, <4>3, IdleFits
        <3> QED BY <3>1, <3>2
    <2> QED BY <1>1, <2>1, <2>2, Fitting, KeepQueued, KeepNumbers, KeepCalled, KeepAnswers,
               KeepUsers, KeepSet DEF PlaceInv
<1> QED
    BY <1>3, <1>4

(* A waiter is set by a worker whose part in it is over. *)
LEMMA SettingKeeps ==
    ASSUME PlaceInv, NEW w \in Workers, NEW r, Fits(w, r), wk[w].pc \notin LockPC,
           NEW x \in Waiters, x.what = "call" => x.n \in drawn, ready' \subseteq ready \cup {x},
           UNCHANGED <<tasks, runner, queues, ids, app, maps, users, env, got, stored>>
    PROVE  PlaceInv'
<1>1. Working' /\ Waited' /\ Locked'
    BY Fitting
<1>2. Set'
    BY DEF PlaceInv, Set
<1> QED
    BY <1>1, <1>2, KeepQueued, KeepNumbers, KeepCalled, KeepAnswers, KeepUsers DEF PlaceInv

LEMMA SetAnsweredIs ==
    ASSUME NEW w, SetAnswered(w)
    PROVE  /\ \E x \in Targets(w) : /\ Goes(w, "set", WithOn(wk[w], "cast", x))
                                    /\ ready' = ready \cup {x}
           /\ UNCHANGED <<tasks, runner, queues, ids, app, maps, users, env, got, stored>>
BY Zenon DEF SetAnswered, WithOn

LEMMA TargetsAre ==
    ASSUME PlaceInv, NEW w \in Workers, wk[w].pc = "set", NEW x \in Targets(w)
    PROVE  x \in Waiters /\ x.what = "call" /\ x.n = wk[w].pkt.num /\ x.n \in drawn
<1>1. /\ wk[w].pkt \in StatusMsg(drawn) /\ wk[w].on \in Waiters
      /\ wk[w].on.what = "call" /\ wk[w].on.n = wk[w].pkt.num
    BY WorkerAt DEF GoodWorker, AnswerPC
<1>2. \A n \in {wk[w].pkt.num} \cap DOMAIN cnd_responses :
          /\ cnd_responses[n] \in Waiters /\ cnd_responses[n].what = "call"
          /\ cnd_responses[n].n = wk[w].pkt.num
    BY DEF PlaceInv, Waited
<1>3. wk[w].pkt.num \in drawn
    BY <1>1 DEF StatusMsg
<1> QED
    BY <1>1, <1>2, <1>3 DEF Targets

LEMMA SetsAnswerKeep ==
    ASSUME PlaceInv, NEW w \in Workers, SetAnswered(w) \/ CastAnswered(w) \/ CastFreed(w)
    PROVE  PlaceInv'
<1>1. /\ UNCHANGED <<tasks, runner, queues, ids, app, maps, users, env, got, stored>>
      /\ wk[w].pc \in {"set", "cast"} /\ drawn' = drawn
    BY DEF SetAnswered, CastAnswered, CastFreed, Goes
<1>2. wk[w].pc \notin LockPC /\ ~Awaiting(wk[w])
    BY <1>1 DEF LockPC, Awaiting, WaitPC
<1>3. CASE SetAnswered(w)
    <2>1. PICK x \in Targets(w) : /\ Goes(w, "set", WithOn(wk[w], "cast", x))
                                  /\ ready' = ready \cup {x}
        BY <1>3, SetAnsweredIs
    <2>2. Becomes(w, WithOn(wk[w], "cast", x)) /\ wk[w].pc = "set"
        BY <2>1, GoesTo
    <2>3. x \in Waiters /\ (x.what = "call" => x.n \in drawn)
        BY <2>2, TargetsAre
    <2>4. Fits(w, WithOn(wk[w], "cast", x))
        BY <1>1, <2>2, <2>3, AimedFits
    <2> QED BY <1>1, <1>2, <2>1, <2>3, <2>4, SettingKeeps
<1>4. CASE CastAnswered(w) \/ CastFreed(w)
    <2>1. ready' = ready /\ wk[w].pc = "cast"
        BY <1>4 DEF CastAnswered, CastFreed, Goes
    <2>2. Becomes(w, Idle) \/ Goes(w, "cast", To(w, "lost"))
        <3>1. CASE CastAnswered(w)
            BY <3>1, CastsTo DEF CastAnswered
        <3>2. CASE CastFreed(w)
            BY <3>2, GoesTo DEF CastFreed
        <3> QED BY <1>4, <3>1, <3>2
    <2>3. \E r : Fits(w, r)
        <3>1. CASE Becomes(w, Idle)
            BY <1>1, <1>2, <3>1, IdleFits
        <3>2. CASE Goes(w, "cast", To(w, "lost"))
            <4>1. OnTo(wk[w], "lost")
                BY <2>1 DEF OnTo
            <4>2. Becomes(w, To(w, "lost"))
                BY <3>2, GoesTo
            <4> QED BY <1>1, <2>1, <4>1, <4>2, MovesOn
        <3> QED BY <2>2, <3>1, <3>2
    <2>4. AnyWaiter \in Waiters /\ AnyWaiter.what # "call"
        BY IdleIs DEF AnyWaiter
    <2> QED BY <1>1, <1>2, <2>1, <2>3, <2>4, SettingKeeps
<1> QED
    BY <1>3, <1>4

LEMMA FindUserIs ==
    ASSUME NEW w, FindUser(w)
    PROVE  /\ \E x \in {ReqWaiter(wk[w].pkt.from), RespWaiter(wk[w].pkt.from)} :
                 Goes(w, "wake", WithOn(wk[w], "wake-user", x))
           /\ UNCHANGED <<tasks, runner, queues, ids, app, maps, users, ready, env, got, stored>>
<1>1. CASE wk[w].pkt.kind = "request"
    BY <1>1, Zenon DEF FindUser, WithOn
<1>2. CASE wk[w].pkt.kind # "request"
    BY <1>2, Zenon DEF FindUser, WithOn
<1> QED
    BY <1>1, <1>2

(* What a handler does after it has set a peer's waiter, or found none. *)
LEMMA AfterWakeFits ==
    ASSUME PlaceInv, NEW w \in Workers, wk[w].pc \in {"wake", "wake-user"},
           Becomes(w, AfterWake(w)), drawn' = drawn
    PROVE  Fits(w, AfterWake(w))
<1>1. ~Awaiting(wk[w])
    BY DEF Awaiting, WaitPC
<1>2. CASE wk[w].pkt.kind = "request"
    <2>1. OnTo(wk[w], "wake-any") /\ AfterWake(w) = To(w, "wake-any")
        BY <1>2 DEF OnTo, AfterWake
    <2>2. Becomes(w, To(w, "wake-any"))
        BY <2>1
    <2> QED BY <2>1, <2>2, MovesOn
<1>3. CASE wk[w].pkt.kind # "request"
    <2>1. AfterWake(w) = Idle
        BY <1>3 DEF AfterWake
    <2> QED BY <1>1, <2>1, IdleFits
<1> QED
    BY <1>2, <1>3

LEMMA WakesKeep ==
    ASSUME PlaceInv, NEW w \in Workers,
           WakeNobody(w) \/ FindUser(w) \/ WakeUser(w) \/ WakeAny(w)
    PROVE  PlaceInv'
<1> DEFINE u == wk[w].pkt.from
<1>1. /\ UNCHANGED <<tasks, runner, queues, ids, app, maps, users, env, got, stored>>
      /\ wk[w].pc \in {"wake", "wake-user", "wake-any"} /\ drawn' = drawn
    BY DEF WakeNobody, FindUser, WakeUser, WakeAny, Goes
<1>2. wk[w].pc \notin LockPC /\ ~Awaiting(wk[w])
    BY <1>1 DEF LockPC, Awaiting, WaitPC
<1>3. AnyWaiter \in Waiters /\ AnyWaiter.what # "call"
    BY IdleIs DEF AnyWaiter
<1>4. CASE WakeNobody(w)
    <2>1. Becomes(w, AfterWake(w)) /\ wk[w].pc = "wake" /\ ready' = ready
        BY <1>4, GoesTo DEF WakeNobody
    <2>2. Fits(w, AfterWake(w))
        BY <1>1, <2>1, AfterWakeFits
    <2> QED BY <1>1, <1>2, <1>3, <2>1, <2>2, SettingKeeps
<1>5. CASE FindUser(w)
    <2>1. PICK x \in {ReqWaiter(u), RespWaiter(u)} : Goes(w, "wake", WithOn(wk[w], "wake-user", x))
        BY <1>5, FindUserIs
    <2>2. Becomes(w, WithOn(wk[w], "wake-user", x)) /\ wk[w].pc = "wake" /\ ready' = ready
        BY <1>5, <2>1, GoesTo, FindUserIs
    <2>3. wk[w].pkt \in UserMsg
        BY <2>2, WorkerAt DEF GoodWorker, StorePC
    <2>4. u \in Uids /\ usr_waiters[u] \in Nat
        BY <2>3 DEF UserMsg, Requests, PlaceInv, Users
    <2>5. x \in Waiters /\ x.what # "call"
        BY <2>4 DEF ReqWaiter, RespWaiter, Waiters
    <2>6. Fits(w, WithOn(wk[w], "wake-user", x))
        BY <1>1, <2>2, <2>5, AimedFits
    <2> QED BY <1>1, <1>2, <1>3, <2>2, <2>6, SettingKeeps
<1>6. CASE WakeUser(w)
    <2>1. SetWaiter(w, wk[w].on, AfterWake(w)) /\ wk[w].pc = "wake-user"
        BY <1>6 DEF WakeUser
    <2>2. Becomes(w, AfterWake(w)) /\ ready' = ready \cup {wk[w].on}
        BY <2>1, SetsTo
    <2>3. Fits(w, AfterWake(w))
        BY <1>1, <2>1, <2>2, AfterWakeFits
    <2>4. wk[w].on \in Waiters /\ wk[w].on.what # "call"
        BY <2>1, WorkerAt DEF GoodWorker
    <2> QED BY <1>1, <1>2, <2>2, <2>3, <2>4, SettingKeeps
<1>7. CASE WakeAny(w)
    <2>1. SetWaiter(w, AnyWaiter, Idle)
        BY <1>7 DEF WakeAny
    <2>2. Becomes(w, Idle) /\ ready' = ready \cup {AnyWaiter}
        BY <2>1, SetsTo
    <2>3. Fits(w, Idle)
        BY <1>1, <1>2, <2>2, IdleFits
    <2> QED BY <1>1, <1>2, <1>3, <2>2, <2>3, SettingKeeps
<1> QED
    BY <1>4, <1>5, <1>6, <1>7

(* What a peer's packet makes of its usr_resp. *)
LEMMA AddedIs ==
    ASSUME NEW e, GoodUser(e), NEW p \in UserMsg
    PROVE  GoodUser(Added(e, p))
<1> DEFINE f == Put(e.responses, p.num, p.ref)
           q == Append(e.requests, p.num)
<1>1. p.num \in Nat /\ p.ref \in Calls \cup {NoCall}
    BY DEF UserMsg, Requests, Packet
<1>2. DOMAIN f = DOMAIN e.responses \cup {p.num} /\ f[p.num] = p.ref
      /\ \A x \in DOMAIN e.responses \ {p.num} : f[x] = e.responses[x]
    BY DEF Put
<1>3. q \in Seq(Nat)
    BY <1>1 DEF GoodUser
<1>4. p.kind = "response" => Added(e, p) = [e EXCEPT !.responses = f]
    BY DEF Added
<1>5. p.kind # "response" => Added(e, p) = [e EXCEPT !.requests = q]
    BY DEF Added
<1> HIDE DEF f, q
<1>6. DOMAIN f \subseteq Nat /\ \A n \in DOMAIN f : f[n] \in Calls \cup {NoCall}
    BY <1>1, <1>2 DEF GoodUser
<1>7. GoodUser([e EXCEPT !.responses = f])
    BY <1>6 DEF GoodUser
<1>8. GoodUser([e EXCEPT !.requests = q])
    BY <1>3 DEF GoodUser
<1> QED
    BY <1>4, <1>5, <1>7, <1>8

LEMMA StoredKeeps ==
    ASSUME PlaceInv, NEW w \in Workers, NEW e, GoodUser(e), StoreIn(w, e), wk[w].pkt \in UserMsg
    PROVE  Users' /\ Called'
<1> DEFINE p == wk[w].pkt
           a == Added(e, p)
           f == Put(usr_responses, p.from, a)
<1>1. GoodUser(a)
    BY AddedIs
<1>2. usr_responses' = f /\ usrLock' = NoWorker /\ UNCHANGED usr_waiters
    BY DEF StoreIn, Unlock
<1>3. p.from \in Uids
    BY DEF UserMsg, Requests
<1> HIDE DEF a
<1>4. DOMAIN f = DOMAIN usr_responses \cup {p.from} /\ f[p.from] = a
      /\ \A u \in DOMAIN usr_responses \ {p.from} : f[u] = usr_responses[u]
    BY DEF Put
<1>5. /\ DOMAIN usr_responses \subseteq Uids /\ usr_waiters \in [Uids -> Nat]
      /\ \A u \in DOMAIN usr_responses : GoodUser(usr_responses[u])
    BY DEF PlaceInv, Users
<1> HIDE DEF f
<1>6. Users'
    BY <1>1, <1>2, <1>3, <1>4, <1>5 DEF Users
<1>7. p.kind = "request" => p \in Requests
    BY DEF UserMsg
<1>8. Called'
    BY <1>7 DEF StoreIn, PlaceInv, Called
<1> QED
    BY <1>6, <1>8

LEMMA StoresKeep ==
    ASSUME PlaceInv, NEW w \in Workers, StoreKnown(w) \/ MakeUser(w) \/ StoreNew(w)
    PROVE  PlaceInv'
<1> DEFINE p == wk[w].pkt
<1>1. /\ UNCHANGED <<tasks, runner, queues, ids, app, maps, ready, env, got>>
      /\ wk[w].pc \in {"store", "insert"}
    BY DEF StoreKnown, MakeUser, StoreNew, StoreIn, Goes
<1>2. p \in UserMsg
    BY <1>1, WorkerAt DEF GoodWorker, StorePC
<1>3. \E pc \in {"insert", "wake"} : Goes(w, wk[w].pc, To(w, pc)) /\ OnTo(wk[w], pc)
    BY DEF StoreKnown, MakeUser, StoreNew, Goes, OnTo
<1>4. PICK pc \in {"insert", "wake"} : Goes(w, wk[w].pc, To(w, pc)) /\ OnTo(wk[w], pc)
    BY <1>3
<1>5. Becomes(w, To(w, pc))
    BY <1>4, GoesTo
<1>6. Fits(w, To(w, pc)) /\ To(w, pc).pc = pc
    BY <1>1, <1>4, <1>5, MovesOn
<1>7. CASE MakeUser(w)
    <2>1. UNCHANGED <<users, stored>> /\ To(w, "insert").pc = "insert" /\ Fits(w, To(w, "insert"))
        <3>1. Goes(w, "store", To(w, "insert")) /\ UNCHANGED <<users, stored>>
            BY <1>7 DEF MakeUser
        <3>2. OnTo(wk[w], "insert")
            BY <3>1 DEF OnTo, Goes
        <3>3. Becomes(w, To(w, "insert"))
            BY <3>1, GoesTo
        <3> QED BY <1>1, <3>1, <3>2, <3>3, MovesOn
    <2>2. Working' /\ Waited' /\ Locked'
        BY <1>1, <2>1, Fitting DEF LockPC
    <2> QED BY <1>1, <2>1, <2>2, KeepQueued, KeepNumbers, KeepCalled, KeepAnswers, KeepUsers,
               KeepSet DEF PlaceInv
<1>8. CASE StoreKnown(w) \/ StoreNew(w)
    <2>1. \E e : GoodUser(e) /\ StoreIn(w, e)
        <3>1. CASE StoreKnown(w)
            BY <3>1 DEF StoreKnown, PlaceInv, Users
        <3>2. CASE StoreNew(w)
            <4>1. GoodUser(Empty)
                BY DEF GoodUser, Empty
            <4> QED BY <3>2, <4>1 DEF StoreNew
        <3> QED BY <1>8, <3>1, <3>2
    <2>2. Users' /\ Called'
        BY <1>2, <2>1, StoredKeeps
    <2>3. Working' /\ Waited' /\ Locked'
        <3>1. usrLock' = NoWorker
            BY <2>1 DEF StoreIn, Unlock
        <3> QED BY <1>1, <1>6, <3>1, Fitting
    <2> QED BY <1>1, <2>2, <2>3, KeepQueued, KeepNumbers, KeepAnswers, KeepSet DEF PlaceInv
<1> QED
    BY <1>7, <1>8

LEMMA MessagesKeep ==
    ASSUME PlaceInv, NEW w \in Workers, MessageStep(w)
    PROVE  PlaceInv'
BY PopsKeep, AnswersKeep, SetsAnswerKeep, WakesKeep, StoresKeep DEF MessageStep

-----------------------------------------------------------------------------
(* __async_req and __async_ping. *)

LEMMA PeerIs ==
    ASSUME PlaceInv, NEW w \in Workers, wk[w].pc \in RequestPC
    PROVE  wk[w].call \in Calls /\ Peer(w) \in Uids /\ Op[wk[w].call].kind = "request"
<1>1. wk[w].call \in Calls /\ Op[wk[w].call].kind = "request"
    <2>1. GoodWorker(wk[w], drawn)
        BY WorkerAt
    <2>2. wk[w].pc \notin {"idle", "lost"} \cup MessagePC
        BY DEF RequestPC, MessagePC, AnswerPC, StorePC
    <2> QED BY <2>1, <2>2 DEF GoodWorker
<1> QED
    BY <1>1, OpAssumption DEF Peer

LEMMA SenderIs ==
    ASSUME PlaceInv, NEW w \in Workers, wk[w].pc \in SendPC
    PROVE  /\ wk[w].call \in Calls /\ Op[wk[w].call].kind \in SentKinds
           /\ wk[w].pc \in CyclePC => wk[w].muid \in drawn
<1>1. GoodWorker(wk[w], drawn)
    BY WorkerAt
<1>2. wk[w].pc \notin {"idle", "lost"} \cup MessagePC
    BY DEF SendPC, CyclePC, MessagePC, AnswerPC, StorePC
<1> QED
    BY <1>1, <1>2 DEF GoodWorker, Holding

(* The steps of a call that change its worker's pc alone, the maps' own     *)
(* changes left aside.                                                      *)
LEMMA StepFits ==
    ASSUME PlaceInv, NEW w \in Workers, NEW from, NEW pc, Goes(w, from, To(w, pc)),
           OnTo(wk[w], pc), from # "erase", drawn' = drawn,
           from \in LockPC => pc \in LockPC \/ usrLock' = NoWorker,
           UNCHANGED usrLock \/ usrLock' = NoWorker
    PROVE  Working' /\ (UNCHANGED cnd_responses => Waited') /\ Locked' /\ wk[w].pc = from
<1>1. Becomes(w, To(w, pc)) /\ wk[w].pc = from
    BY GoesTo
<1>2. Fits(w, To(w, pc)) /\ To(w, pc).pc = pc
    BY <1>1, MovesOn
<1> QED
    BY <1>1, <1>2, Fitting

LEMMA EnrollsKeep ==
    ASSUME PlaceInv, NEW w \in Workers, Enroll(w) \/ AddWaiters(w)
    PROVE  PlaceInv'
<1>1. /\ UNCHANGED <<tasks, runner, queues, ids, app, env, got, stored, maps, usr_responses,
                     usrLock, ready>>
      /\ wk[w].pc \in {"enroll", "add"}
    BY DEF Enroll, AddWaiters, Unchanged, Goes
<1>2. Peer(w) \in Uids
    BY <1>1, PeerIs DEF RequestPC
<1>3. \E pc \in {"add", "muid"} : Goes(w, wk[w].pc, To(w, pc)) /\ OnTo(wk[w], pc)
    BY DEF Enroll, AddWaiters, Goes, OnTo
<1>4. PICK pc \in {"add", "muid"} : Goes(w, wk[w].pc, To(w, pc)) /\ OnTo(wk[w], pc)
    BY <1>3
<1>5. Working' /\ Waited' /\ Locked'
    BY <1>1, <1>4, StepFits DEF LockPC
<1>6. usr_waiters' \in [Uids -> Nat]
    BY <1>2 DEF Enroll, AddWaiters, PlaceInv, Users
<1>7. Users'
    BY <1>1, <1>6 DEF PlaceInv, Users
<1> QED
    BY <1>1, <1>5, <1>7, KeepQueued, KeepNumbers, KeepCalled, KeepAnswers, KeepSet DEF PlaceInv

LEMMA DrawMuidIs ==
    ASSUME NEW w, DrawMuid(w)
    PROVE  /\ Goes(w, "muid", WithMuid(wk[w], "push", last_muid))
           /\ dup' = (dup \/ last_muid \in drawn) /\ drawn' = drawn \cup {last_muid}
           /\ UNCHANGED <<tasks, runner, queues, app, env, got, stored, last_muid, maps, users,
                          ready>>
BY Zenon DEF DrawMuid, WithMuid, Unchanged

LEMMA DrawnFits ==
    ASSUME PlaceInv, NEW w \in Workers, NEW n \in Nat, Becomes(w, WithMuid(wk[w], "push", n)),
           wk[w].pc = "muid", drawn' = drawn \cup {n}
    PROVE  Fits(w, WithMuid(wk[w], "push", n))
<1> DEFINE r == wk[w]
           s == WithMuid(r, "push", n)
<1>1. r \in WorkerRec /\ "push" \in WorkerPC
    BY WorkerAt DEF WorkerPC
<1>2. r.call \in Calls /\ Op[r.call].kind \in SentKinds
    BY SenderIs DEF SendPC
<1>3. ~Awaiting(r)
    BY DEF Awaiting, WaitPC
<1> HIDE DEF r
<1>4. s \in WorkerRec /\ s.pc = "push" /\ s.call = r.call /\ s.muid = n
    BY <1>1, WithMuidIs
<1> HIDE DEF s
<1>5. GoodWorker(s, drawn')
    BY <1>2, <1>4
       DEF GoodWorker, GoodWait, Holding, WaitPC, RequestPC, SendPC, CyclePC, GatherPC,
           AnswerPC, StorePC, MessagePC
<1> QED
    BY <1>3, <1>5 DEF Fits, Suits, s, r

LEMMA DrawsKeep ==
    ASSUME PlaceInv, NEW w \in Workers, DrawMuid(w)
    PROVE  PlaceInv'
<1>1. /\ Goes(w, "muid", WithMuid(wk[w], "push", last_muid)) /\ last_muid \in Nat
      /\ drawn' = drawn \cup {last_muid}
      /\ UNCHANGED <<tasks, runner, queues, app, env, got, stored, last_muid, maps, users, ready>>
    BY DrawMuidIs DEF PlaceInv, Numbers
<1>2. Becomes(w, WithMuid(wk[w], "push", last_muid)) /\ wk[w].pc = "muid"
    BY <1>1, GoesTo
<1>3. Fits(w, WithMuid(wk[w], "push", last_muid))
    BY <1>1, <1>2, DrawnFits
<1>4. Working' /\ Waited' /\ Locked'
    BY <1>1, <1>2, <1>3, Fitting DEF LockPC
<1>5. Queued'
    <2>1. StatusMsg(drawn) \subseteq StatusMsg(drawn') /\ Sendings(drawn) \subseteq Sendings(drawn')
        BY <1>1 DEF StatusMsg, Sendings
    <2>2. readq \in Seq(StatusMsg(drawn') \cup UserMsg) /\ writeq \in Seq(Sendings(drawn'))
          /\ atServer \subseteq Sendings(drawn')
        BY <2>1 DEF PlaceInv, Queued
    <2>3. readq' = readq /\ writeq' = writeq /\ atServer' = atServer /\ tasks' = tasks
          /\ runner' = runner
        BY <1>1
    <2> QED BY <2>2, <2>3 DEF PlaceInv, Queued, UserMsg
<1>6. Numbers' /\ Set'
    BY <1>1 DEF PlaceInv, Numbers, Set
<1> QED
    BY <1>1, <1>4, <1>5, <1>6, KeepCalled, KeepAnswers, KeepUsers DEF PlaceInv

LEMMA SendsKeep ==
    ASSUME PlaceInv, NEW w \in Workers, PushOut(w) \/ Increment(w)
    PROVE  PlaceInv'
<1>1. /\ UNCHANGED <<tasks, runner, readq, drawn, app, maps, users, ready, env, got, stored>>
      /\ wk[w].pc \in {"push", "increment"}
    BY DEF PushOut, Increment, Unchanged, Goes
<1>2. wk[w].call \in Calls /\ wk[w].muid \in drawn
    BY <1>1, SenderIs DEF SendPC, CyclePC
<1>3. \E pc : Goes(w, wk[w].pc, To(w, pc)) /\ OnTo(wk[w], pc)
    BY DEF PushOut, Increment, Goes, OnTo
<1>4. PICK pc : Goes(w, wk[w].pc, To(w, pc)) /\ OnTo(wk[w], pc)
    BY <1>3
<1>5. Working' /\ Waited' /\ Locked'
    BY <1>1, <1>4, StepFits DEF LockPC
<1>6. writeq' \in Seq(Sendings(drawn)) /\ last_muid' \in Nat
    <2>1. writeq \in Seq(Sendings(drawn)) /\ last_muid \in Nat /\ wk[w].seen \in Nat
        BY WorkerAt DEF PlaceInv, Queued, Numbers
    <2>2. [muid |-> wk[w].muid, call |-> wk[w].call] \in Sendings(drawn)
        BY <1>2 DEF Sendings
    <2>3. CASE PushOut(w)
        BY <2>1, <2>2, <2>3 DEF PushOut
    <2>4. CASE Increment(w)
        BY <2>1, <2>4 DEF Increment, Unchanged
    <2> QED BY <2>3, <2>4
<1>7. Queued' /\ Numbers'
    BY <1>1, <1>6 DEF PlaceInv, Queued, Numbers
<1> QED
    BY <1>1, <1>5, <1>7, KeepCalled, KeepAnswers, KeepUsers, KeepSet DEF PlaceInv

LEMMA ReadMuidIs ==
    ASSUME NEW w, ReadMuid(w)
    PROVE  /\ Goes(w, "read", WithSeen(wk[w], "increment", last_muid))
           /\ UNCHANGED <<tasks, runner, queues, app, env, got, stored, ids, maps, users, ready>>
BY Zenon DEF ReadMuid, WithSeen, Unchanged

LEMMA SeenFits ==
    ASSUME PlaceInv, NEW w \in Workers, NEW n \in Nat, drawn' = drawn,
           Becomes(w, WithSeen(wk[w], "increment", n)), wk[w].pc = "read"
    PROVE  Fits(w, WithSeen(wk[w], "increment", n))
<1> DEFINE r == wk[w]
           pc == "increment"
           s == WithSeen(r, pc, n)
<1>1. r \in WorkerRec /\ r.call \in Calls /\ Op[r.call].kind \in SentKinds /\ r.muid \in drawn
    BY WorkerAt, SenderIs DEF SendPC, CyclePC
<1>2. ~Awaiting(r)
    BY DEF Awaiting, WaitPC
<1>3. pc \in WorkerPC /\ pc = "increment"
    BY DEF WorkerPC
<1> HIDE DEF r, pc
<1>4. s \in WorkerRec /\ s.pc = pc /\ Same(r, s)
    BY <1>1, <1>3, WithSeenIs
<1> HIDE DEF s
<1>5. GoodWorker(s, drawn)
    BY <1>1, <1>3, <1>4
       DEF GoodWorker, GoodWait, Holding, WaitPC, RequestPC, SendPC, CyclePC, GatherPC,
           AnswerPC, StorePC, MessagePC, Same
<1> QED
    BY <1>2, <1>5 DEF Fits, Suits, s, r, pc

LEMMA ReadsKeep ==
    ASSUME PlaceInv, NEW w \in Workers, ReadMuid(w)
    PROVE  PlaceInv'
<1>1. /\ Goes(w, "read", WithSeen(wk[w], "increment", last_muid)) /\ last_muid \in Nat
      /\ UNCHANGED <<tasks, runner, queues, app, env, got, stored, ids, maps, users, ready>>
    BY ReadMuidIs DEF PlaceInv, Numbers
<1>2. Becomes(w, WithSeen(wk[w], "increment", last_muid)) /\ wk[w].pc = "read"
    BY <1>1, GoesTo
<1>3. Fits(w, WithSeen(wk[w], "increment", last_muid))
    BY <1>1, <1>2, SeenFits
<1>4. Working' /\ Waited' /\ Locked'
    BY <1>1, <1>2, <1>3, Fitting DEF LockPC
<1> QED
    BY <1>1, <1>4, KeepQueued, KeepNumbers, KeepCalled, KeepAnswers, KeepUsers, KeepSet
       DEF PlaceInv

LEMMA RegisterIs ==
    ASSUME NEW w, Register(w)
    PROVE  LET x == Waiter(wk[w].call, wk[w].muid)
           IN /\ Goes(w, "register", Waiting(wk[w], x, "free-waiter"))
              /\ cnd_responses' = Put(cnd_responses, wk[w].muid, x)
              /\ UNCHANGED <<tasks, runner, queues, app, env, got, stored, ids, responses, users,
                             ready>>
BY Zenon DEF Register, Waiting, Unchanged

LEMMA WaiterIs ==
    ASSUME PlaceInv, NEW w \in Workers, wk[w].call \in Calls
    PROVE  LET x == Waiter(wk[w].call, wk[w].muid)
           IN x \in Waiters /\ x.what = "call" /\ x.n = wk[w].muid
<1>1. wk[w].muid \in Nat
    BY WorkerAt
<1> QED
    BY <1>1 DEF Waiter, Waiters

LEMMA RegisteredFits ==
    ASSUME PlaceInv, NEW w \in Workers, NEW x, x = Waiter(wk[w].call, wk[w].muid),
           Becomes(w, Waiting(wk[w], x, "free-waiter")), wk[w].pc = "register", drawn' = drawn
    PROVE  LET s == Waiting(wk[w], x, "free-waiter")
           IN Fits(w, s) /\ Awaiting(s) /\ s.call = wk[w].call /\ s.muid = wk[w].muid
<1> DEFINE r == wk[w]
           then == "free-waiter"
           s == Waiting(r, x, then)
<1>1. r \in WorkerRec /\ r.call \in Calls /\ Op[r.call].kind \in SentKinds /\ r.muid \in drawn
    BY WorkerAt, SenderIs DEF SendPC, CyclePC
<1>2. x \in Waiters /\ x = Waiter(r.call, r.muid)
    BY <1>1, WaiterIs
<1>3. ~Awaiting(r)
    BY DEF Awaiting, WaitPC
<1>4. then \in {"free-waiter", "collect"} /\ then = "free-waiter"
    OBVIOUS
<1> HIDE DEF r, then
<1>5. /\ s \in WorkerRec /\ s.pc = "wait" /\ s.call = r.call /\ s.muid = r.muid
      /\ s.on = x /\ s.then = then
    BY <1>1, <1>2, <1>4, WaitingIs
<1> HIDE DEF s
<1>6. GoodWorker(s, drawn) /\ Awaiting(s)
    BY <1>1, <1>2, <1>4, <1>5
       DEF GoodWorker, GoodWait, Holding, WaitPC, RequestPC, SendPC, CyclePC, GatherPC,
           AnswerPC, StorePC, MessagePC, Awaiting
<1> QED
    BY <1>3, <1>5, <1>6 DEF Fits, Suits, s, r, then

LEMMA RegistersKeep ==
    ASSUME PlaceInv, NEW w \in Workers, Register(w)
    PROVE  PlaceInv'
<1> DEFINE x == Waiter(wk[w].call, wk[w].muid)
           s == Waiting(wk[w], x, "free-waiter")
           f == Put(cnd_responses, wk[w].muid, x)
<1>1. /\ Goes(w, "register", s) /\ cnd_responses' = f
      /\ UNCHANGED <<tasks, runner, queues, app, env, got, stored, ids, responses, users, ready>>
    BY RegisterIs
<1>2. Becomes(w, s) /\ wk[w].pc = "register"
    BY <1>1, GoesTo
<1>3. Fits(w, s) /\ Awaiting(s) /\ s.call = wk[w].call /\ s.muid = wk[w].muid
    BY <1>1, <1>2, RegisteredFits
<1>4. wk[w].call \in Calls /\ wk[w].muid \in drawn
    BY <1>2, SenderIs DEF SendPC, CyclePC
<1>5. x \in Waiters /\ x.what = "call" /\ x.n = wk[w].muid
    BY <1>4, WaiterIs
<1>6. /\ DOMAIN f = DOMAIN cnd_responses \cup {wk[w].muid} /\ f[wk[w].muid] = x
      /\ \A n \in DOMAIN cnd_responses \ {wk[w].muid} : f[n] = cnd_responses[n]
    BY DEF Put
<1> HIDE DEF s, f
<1>7. /\ Working' /\ wk'[w] = s /\ \A v \in Workers \ {w} : Remains(v)
      /\ Locked'
    BY <1>1, <1>2, <1>3, Suiting DEF Fits, LockPC
<1>8. ~Awaiting(wk[w])
    BY <1>2 DEF Awaiting, WaitPC
<1>9. Waited'
    <2> SUFFICES ASSUME NEW n \in DOMAIN f
                 PROVE  /\ n \in drawn /\ f[n] \in Waiters /\ f[n].what = "call" /\ f[n].n = n
                        /\ \E v \in Workers : Awaiting(wk'[v])
                                              /\ f[n] = Waiter(wk'[v].call, wk'[v].muid)
        BY <1>1 DEF Waited, Waiter
    <2>1. CASE n = wk[w].muid
        BY <1>3, <1>4, <1>5, <1>6, <1>7, <2>1
    <2>2. CASE n # wk[w].muid
        <3>1. n \in DOMAIN cnd_responses /\ f[n] = cnd_responses[n]
            BY <1>6, <2>2
        <3>2. /\ n \in drawn /\ f[n] \in Waiters /\ f[n].what = "call" /\ f[n].n = n
              /\ \E v \in Workers : Awaiting(wk[v]) /\ f[n] = Waiter(wk[v].call, wk[v].muid)
            BY <3>1 DEF PlaceInv, Waited
        <3>3. PICK v \in Workers : Awaiting(wk[v]) /\ f[n] = Waiter(wk[v].call, wk[v].muid)
            BY <3>2
        <3>4. v \in Workers \ {w}
            BY <1>8, <3>3
        <3>5. Awaiting(wk'[v]) /\ wk'[v].call = wk[v].call /\ wk'[v].muid = wk[v].muid
            BY <1>7, <3>3, <3>4 DEF Remains
        <3> QED BY <3>2, <3>3, <3>5
    <2> QED BY <2>1, <2>2
<1> QED
    BY <1>1, <1>7, <1>9, KeepQueued, KeepNumbers, KeepCalled, KeepAnswers, KeepUsers, KeepSet
       DEF PlaceInv

LEMMA FreesKeep ==
    ASSUME PlaceInv, NEW w \in Workers, FreeWaiter(w)
    PROVE  PlaceInv'
<1>1. /\ UNCHANGED <<tasks, runner, queues, app, env, got, stored, ids, maps, users, ready>>
      /\ Goes(w, "free-waiter", To(w, "erase"))
    BY DEF FreeWaiter, Unchanged
<1>2. OnTo(wk[w], "erase")
    BY <1>1 DEF Goes, OnTo
<1>3. Working' /\ Waited' /\ Locked'
    BY <1>1, <1>2, StepFits DEF LockPC
<1> QED
    BY <1>1, <1>3, KeepQueued, KeepNumbers, KeepCalled, KeepAnswers, KeepUsers, KeepSet
       DEF PlaceInv

LEMMA ErasesKeep ==
    ASSUME PlaceInv, NEW w \in Workers, EraseWaiter(w)
    PROVE  PlaceInv'
<1> DEFINE s == To(w, "getresp")
           f == Without(cnd_responses, wk[w].muid)
<1>1. /\ Goes(w, "erase", s) /\ cnd_responses' = f
      /\ UNCHANGED <<tasks, runner, queues, app, env, got, stored, ids, responses, users, ready>>
    BY DEF EraseWaiter, Unchanged
<1>2. Becomes(w, s) /\ wk[w].pc = "erase"
    BY <1>1, GoesTo
<1>3. Suits(w, s)
    <2> DEFINE r == wk[w]
    <2>1. GoodWorker(r, drawn) /\ OnTo(r, "getresp")
        BY <1>2, WorkerAt DEF OnTo
    <2> HIDE DEF r
    <2>2. GoodWorker([r EXCEPT !.pc = "getresp"], drawn)
        BY <2>1, OnToKeeps
    <2> QED BY <1>1, <1>2, <2>2 DEF Suits, To, r
<1>4. /\ DOMAIN f = DOMAIN cnd_responses \ {wk[w].muid}
      /\ \A n \in DOMAIN f : f[n] = cnd_responses[n]
    BY DEF Without
<1> HIDE DEF s, f
<1>5. Working' /\ (\A v \in Workers \ {w} : Remains(v)) /\ Locked'
    BY <1>1, <1>2, <1>3, Suiting DEF LockPC
<1>6. Waited'
    <2> SUFFICES ASSUME NEW n \in DOMAIN f
                 PROVE  /\ n \in drawn /\ f[n] \in Waiters /\ f[n].what = "call" /\ f[n].n = n
                        /\ \E v \in Workers : Awaiting(wk'[v])
                                              /\ f[n] = Waiter(wk'[v].call, wk'[v].muid)
        BY <1>1 DEF Waited, Waiter
    <2>1. n \in DOMAIN cnd_responses /\ f[n] = cnd_responses[n] /\ n # wk[w].muid
        BY <1>4
    <2>2. /\ n \in drawn /\ f[n] \in Waiters /\ f[n].what = "call" /\ f[n].n = n
          /\ \E v \in Workers : Awaiting(wk[v]) /\ f[n] = Waiter(wk[v].call, wk[v].muid)
        BY <2>1 DEF PlaceInv, Waited
    <2>3. PICK v \in Workers : Awaiting(wk[v]) /\ f[n] = Waiter(wk[v].call, wk[v].muid)
        BY <2>2
    <2>4. wk[v].muid = n
        BY <2>2, <2>3 DEF Waiter
    <2>5. v \in Workers \ {w}
        BY <2>1, <2>4
    <2>6. Awaiting(wk'[v]) /\ wk'[v].call = wk[v].call /\ wk'[v].muid = wk[v].muid
        BY <1>5, <2>3, <2>5 DEF Remains
    <2> QED BY <2>2, <2>3, <2>6
<1> QED
    BY <1>1, <1>5, <1>6, KeepQueued, KeepNumbers, KeepCalled, KeepAnswers, KeepUsers, KeepSet
       DEF PlaceInv

LEMMA AnsweredKeep ==
    ASSUME PlaceInv, NEW w \in Workers, Retry(w) \/ Proceed(w)
    PROVE  PlaceInv'
<1>1. wk[w].pc = "getresp" /\ \E pc : TakeAnswer(w, pc) /\ OnTo(wk[w], pc)
    BY DEF Retry, Proceed, OnTo
<1>2. PICK pc : TakeAnswer(w, pc) /\ OnTo(wk[w], pc)
    BY <1>1
<1>3. /\ Goes(w, "getresp", To(w, pc)) /\ responses' = Without(responses, wk[w].muid)
      /\ UNCHANGED <<tasks, runner, queues, app, env, got, stored, ids, cnd_responses, users,
                     ready>>
    BY <1>2 DEF TakeAnswer, Unchanged
<1>4. Working' /\ Waited' /\ Locked'
    BY <1>2, <1>3, StepFits DEF LockPC
<1>5. Answers'
    BY <1>3 DEF PlaceInv, Answers, Without
<1> QED
    BY <1>3, <1>4, <1>5, KeepQueued, KeepNumbers, KeepCalled, KeepUsers, KeepSet DEF PlaceInv

LEMMA ReturnsKeep ==
    ASSUME PlaceInv, NEW w \in Workers, ReturnSent(w)
    PROVE  PlaceInv'
<1>1. /\ Becomes(w, Idle) /\ wk[w].pc = "return" /\ Return(w, {})
      /\ UNCHANGED <<tasks, runner, queues, ids, last_c_muids, cmuid, maps, users, ready, env,
                     stored>>
    BY GoesTo DEF ReturnSent
<1>2. wk[w].call \in Calls /\ ~Awaiting(wk[w])
    BY <1>1, SenderIs DEF SendPC, Awaiting, WaitPC
<1>3. Working' /\ Waited' /\ Locked'
    BY <1>1, <1>2, IdleFits, Fitting DEF LockPC
<1>4. Called'
    BY <1>1, <1>2, Returned
<1> QED
    BY <1>1, <1>3, <1>4, KeepQueued, KeepNumbers, KeepAnswers, KeepUsers, KeepSet DEF PlaceInv

LEMMA SeekIs ==
    ASSUME NEW w, Seek(w)
    PROVE  /\ Goes(w, "seek", Waiting(wk[w], RespWaiter(Peer(w)), "collect"))
           /\ UNCHANGED <<tasks, runner, queues, app, env, got, stored, ids, maps, users, ready>>
BY Zenon DEF Seek, Waiting, Unchanged

LEMMA CollectingFits ==
    ASSUME PlaceInv, NEW w \in Workers, NEW x \in Waiters, drawn' = drawn,
           Becomes(w, Waiting(wk[w], x, "collect")), wk[w].pc = "seek"
    PROVE  Fits(w, Waiting(wk[w], x, "collect"))
<1> DEFINE r == wk[w]
           then == "collect"
           s == Waiting(r, x, then)
<1>1. r \in WorkerRec /\ r.call \in Calls /\ Op[r.call].kind = "request"
    BY WorkerAt, PeerIs DEF RequestPC
<1>2. ~Awaiting(r)
    BY DEF Awaiting, WaitPC
<1>3. then \in {"free-waiter", "collect"} /\ then = "collect"
    OBVIOUS
<1> HIDE DEF r, then
<1>4. /\ s \in WorkerRec /\ s.pc = "wait" /\ s.call = r.call /\ s.muid = r.muid
      /\ s.on = x /\ s.then = then
    BY <1>1, <1>3, WaitingIs
<1> HIDE DEF s
<1>5. GoodWorker(s, drawn)
    BY <1>1, <1>3, <1>4
       DEF GoodWorker, GoodWait, Holding, WaitPC, RequestPC, SendPC, CyclePC, GatherPC,
           AnswerPC, StorePC, MessagePC
<1> QED
    BY <1>2, <1>5 DEF Fits, Suits, s, r, then

LEMMA ChecksKeep ==
    ASSUME PlaceInv, NEW w \in Workers, CheckFound(w) \/ CheckNone(w)
    PROVE  PlaceInv'
<1>1. /\ UNCHANGED <<tasks, runner, queues, app, env, got, stored, ids, maps, usr_responses,
                     usr_waiters, ready>>
      /\ \/ Goes(w, "check", To(w, "collect")) /\ UNCHANGED usrLock
         \/ Goes(w, "check", To(w, "seek")) /\ usrLock' = NoWorker
    BY DEF CheckFound, CheckNone, Unchanged, Unlock
<1>2. wk[w].pc = "check"
    BY <1>1 DEF Goes
<1>3. OnTo(wk[w], "collect") /\ OnTo(wk[w], "seek")
    BY <1>2 DEF OnTo
<1>4. Working' /\ Waited' /\ Locked'
    BY <1>1, <1>3, StepFits DEF LockPC
<1>5. Users'
    BY <1>1 DEF PlaceInv, Users
<1> QED
    BY <1>1, <1>4, <1>5, KeepQueued, KeepNumbers, KeepCalled, KeepAnswers, KeepSet DEF PlaceInv

LEMMA SeeksKeep ==
    ASSUME PlaceInv, NEW w \in Workers, Seek(w)
    PROVE  PlaceInv'
<1> DEFINE x == RespWaiter(Peer(w))
<1>1. /\ Goes(w, "seek", Waiting(wk[w], x, "collect"))
      /\ UNCHANGED <<tasks, runner, queues, app, env, got, stored, ids, maps, users, ready>>
    BY SeekIs
<1>2. Becomes(w, Waiting(wk[w], x, "collect")) /\ wk[w].pc = "seek"
    BY <1>1, GoesTo
<1>3. Peer(w) \in Uids
    BY <1>2, PeerIs DEF RequestPC
<1>4. x \in Waiters
    BY <1>3 DEF RespWaiter, Waiters, PlaceInv, Users
<1> HIDE DEF x
<1>5. Fits(w, Waiting(wk[w], x, "collect"))
    BY <1>1, <1>2, <1>4, CollectingFits
<1>6. Working' /\ Waited' /\ Locked'
    BY <1>1, <1>2, <1>5, Fitting DEF LockPC
<1> QED
    BY <1>1, <1>6, KeepQueued, KeepNumbers, KeepCalled, KeepAnswers, KeepUsers, KeepSet
       DEF PlaceInv

-----------------------------------------------------------------------------
(* What the futures of request and of the gather calls yield. *)

Response(u, n, c) == [NoPacket EXCEPT !.kind = "response", !.from = u, !.num = n, !.ref = c]
Gathered(u, n)    == [NoPacket EXCEPT !.kind = "request", !.from = u, !.num = n]

LEMMA GatheredIs ==
    ASSUME NEW kind \in {"request", "response"}, NEW u \in Uids, NEW n \in Nat
    PROVE  LET p == [NoPacket EXCEPT !.kind = kind, !.from = u, !.num = n]
           IN p \in Packet /\ p.kind = kind /\ p.from = u /\ p.num = n /\ p.code = 0
              /\ p.ref = NoCall
<1> DEFINE a == [NoPacket EXCEPT !.kind = kind]
           b == [a EXCEPT !.from = u]
           d == [b EXCEPT !.num = n]
<1>1. a \in Packet /\ a.kind = kind /\ a.code = 0 /\ a.ref = NoCall
    BY IdleIs DEF Packet, NoPacket
<1> HIDE DEF a
<1>2. b \in Packet /\ b.kind = kind /\ b.code = 0 /\ b.ref = NoCall /\ b.from = u
    BY <1>1 DEF Packet
<1> HIDE DEF b
<1>3. d \in Packet /\ d.kind = kind /\ d.code = 0 /\ d.ref = NoCall /\ d.from = u /\ d.num = n
    BY <1>2 DEF Packet
<1> QED
    BY <1>3 DEF a, b, d

LEMMA ResponseIs ==
    ASSUME NEW u \in Uids, NEW n \in Nat, NEW c \in Calls \cup {NoCall}
    PROVE  Response(u, n, c) \in Packet
<1> DEFINE p == [NoPacket EXCEPT !.kind = "response", !.from = u, !.num = n]
           q == [p EXCEPT !.ref = c]
<1>1. p \in Packet
    BY GatheredIs
<1> HIDE DEF p
<1>2. q \in Packet
    BY <1>1 DEF Packet
<1> QED
    BY <1>2 DEF p, q, Response

LEMMA CollectIs ==
    ASSUME NEW w, Collect(w)
    PROVE  /\ \E pc \in {"take", "leave"} :
                 Goes(w, "collect", WithPkt(wk[w], pc, Present(w)))
           /\ UNCHANGED <<tasks, runner, queues, app, env, got, stored, ids, maps, users, ready>>
<1>1. CASE Matching(w)
    BY <1>1, Zenon DEF Collect, WithPkt, Unchanged
<1>2. CASE ~Matching(w)
    BY <1>2, Zenon DEF Collect, WithPkt, Unchanged
<1> QED
    BY <1>1, <1>2

LEMMA TakeResponseIs ==
    ASSUME NEW w, TakeResponse(w)
    PROVE  LET u == Peer(w)
               n == cmuid[wk[w].call]
           IN /\ wk[w].pc = "take"
              /\ UNCHANGED <<tasks, runner, queues, app, env, got, stored, ids, maps, usr_waiters,
                             usrLock, ready>>
              /\ \/ /\ Matching(w)
                    /\ \E p \in {wk[w].pkt, Present(w)} :
                          Goes(w, "take", WithPkt(wk[w], "leave", p))
                    /\ usr_responses' = [usr_responses EXCEPT ![u].responses = Without(@, n)]
                 \/ /\ \E pc \in {"leave", "lost"} : Goes(w, "take", To(w, pc))
                    /\ UNCHANGED usr_responses
BY Zenon DEF TakeResponse, WithPkt, Unchanged

LEMMA LeaveIs ==
    ASSUME NEW w, Leave(w)
    PROVE  /\ Goes(w, "leave", Idle) /\ usrLock' = NoWorker
           /\ Return(w, {wk[w].pkt} \ {NoPacket})
           /\ UNCHANGED <<tasks, runner, queues, ids, last_c_muids, cmuid, maps, usr_responses,
                          usr_waiters, ready, env, stored>>
BY Zenon DEF Leave, Unlock

(* What is found under the cmuid of a request is a packet, or none is. *)
LEMMA PresentIs ==
    ASSUME PlaceInv, NEW w \in Workers, wk[w].pc \in RequestPC
    PROVE  Present(w) \in Packet
<1> DEFINE u == Peer(w)
           n == cmuid[wk[w].call]
<1>1. CASE Matching(w)
    <2> DEFINE e == usr_responses[u]
               c == e.responses[n]
    <2>1. u \in Uids /\ wk[w].call \in Calls
        BY PeerIs
    <2>2. u \in DOMAIN usr_responses /\ n \in DOMAIN e.responses
        BY <1>1 DEF Matching
    <2>3. GoodUser(e)
        BY <2>2 DEF PlaceInv, Users
    <2>4. n \in Nat /\ c \in Calls \cup {NoCall}
        BY <2>2, <2>3 DEF GoodUser
    <2>5. Present(w) = Response(u, n, c)
        BY <1>1, Zenon DEF Present, Response
    <2> QED BY <2>1, <2>4, <2>5, ResponseIs
<1>2. CASE ~Matching(w)
    BY <1>2, IdleIs DEF Present
<1> QED
    BY <1>1, <1>2

(* A call on its way out of the last section with a packet. *)
LEMMA CarryingFits ==
    ASSUME PlaceInv, NEW w \in Workers, NEW pc \in {"take", "leave"}, NEW p \in Packet,
           Becomes(w, WithPkt(wk[w], pc, p)), wk[w].pc \in {"collect", "take"}, drawn' = drawn
    PROVE  Fits(w, WithPkt(wk[w], pc, p)) /\ WithPkt(wk[w], pc, p).pc \in LockPC
<1> DEFINE r == wk[w]
           s == WithPkt(r, pc, p)
<1>1. r \in WorkerRec /\ r.call \in Calls /\ Op[r.call].kind = "request"
    BY WorkerAt, PeerIs DEF RequestPC
<1>2. ~Awaiting(r)
    BY DEF Awaiting, WaitPC
<1>3. pc \in WorkerPC
    BY DEF WorkerPC
<1> HIDE DEF r
<1>4. s \in WorkerRec /\ s.pc = pc /\ Same(r, s)
    BY <1>1, <1>3, WithPktIs
<1> HIDE DEF s
<1>5. GoodWorker(s, drawn) /\ s.pc \in LockPC
    BY <1>1, <1>3, <1>4
       DEF GoodWorker, GoodWait, Holding, WaitPC, RequestPC, SendPC, CyclePC, GatherPC,
           AnswerPC, StorePC, MessagePC, Same, LockPC
<1> QED
    BY <1>2, <1>5 DEF Fits, Suits, s, r

(* A usr_resp from which something has been taken. *)
LEMMA TakenOut ==
    ASSUME PlaceInv, NEW u \in DOMAIN usr_responses, NEW e, GoodUser(e),
           usrLock' \in {usrLock, NoWorker}, UNCHANGED usr_waiters,
           usr_responses' = [usr_responses EXCEPT ![u] = e]
    PROVE  Users'
BY DEF PlaceInv, Users

LEMMA CollectsKeep ==
    ASSUME PlaceInv, NEW w \in Workers, Collect(w)
    PROVE  PlaceInv'
<1> DEFINE p == Present(w)
<1>1. UNCHANGED <<tasks, runner, queues, app, env, got, stored, ids, maps, users, ready>>
    BY CollectIs
<1>2. PICK pc \in {"take", "leave"} : Goes(w, "collect", WithPkt(wk[w], pc, p))
    BY CollectIs
<1>3. Becomes(w, WithPkt(wk[w], pc, p)) /\ wk[w].pc = "collect"
    BY <1>2, GoesTo
<1>4. p \in Packet
    BY <1>3, PresentIs DEF RequestPC
<1> HIDE DEF p
<1>5. Fits(w, WithPkt(wk[w], pc, p)) /\ WithPkt(wk[w], pc, p).pc \in LockPC
    BY <1>1, <1>3, <1>4, CarryingFits
<1>6. Working' /\ Waited' /\ Locked'
    BY <1>1, <1>5, Fitting
<1> QED
    BY <1>1, <1>6, KeepQueued, KeepNumbers, KeepCalled, KeepAnswers, KeepUsers, KeepSet
       DEF PlaceInv

LEMMA TakingKeeps ==
    ASSUME PlaceInv, NEW w \in Workers, TakeResponse(w)
    PROVE  PlaceInv'
<1> DEFINE u == Peer(w)
           n == cmuid[wk[w].call]
           Taken == /\ Matching(w)
                    /\ \E p \in {wk[w].pkt, Present(w)} :
                          Goes(w, "take", WithPkt(wk[w], "leave", p))
                    /\ usr_responses' = [usr_responses EXCEPT ![u].responses = Without(@, n)]
           Gone  == /\ \E pc \in {"leave", "lost"} : Goes(w, "take", To(w, pc))
                    /\ UNCHANGED usr_responses
<1>1. /\ Taken \/ Gone
      /\ UNCHANGED <<tasks, runner, queues, app, env, got, stored, ids, maps, usr_waiters,
                     usrLock, ready>>
    BY TakeResponseIs
<1>2. wk[w].pc = "take" /\ drawn' = drawn
    BY TakeResponseIs DEF ids
<1>3. wk[w].call \in Calls /\ u \in Uids
    BY <1>2, PeerIs DEF RequestPC
<1>4. CASE Taken
    <2> DEFINE e == usr_responses[u]
               g == Without(e.responses, n)
    <2>1. PICK p \in {wk[w].pkt, Present(w)} : Goes(w, "take", WithPkt(wk[w], "leave", p))
        BY <1>4
    <2>2. p \in Packet /\ "leave" \in {"take", "leave"}
        BY <1>2, PresentIs, WorkerAt DEF RequestPC
    <2>3. Becomes(w, WithPkt(wk[w], "leave", p))
        BY <2>1, GoesTo
    <2>4. Fits(w, WithPkt(wk[w], "leave", p)) /\ WithPkt(wk[w], "leave", p).pc \in LockPC
        BY <1>2, <2>2, <2>3, CarryingFits
    <2>5. Working' /\ Waited' /\ Locked'
        BY <1>1, <2>4, Fitting
    <2>6. u \in DOMAIN usr_responses /\ n \in DOMAIN e.responses
        BY <1>4 DEF Matching
    <2>7. GoodUser(e)
        BY <2>6 DEF PlaceInv, Users
    <2>8. DOMAIN g \subseteq DOMAIN e.responses /\ \A x \in DOMAIN g : g[x] = e.responses[x]
        BY DEF Without
    <2>9. usr_responses' = [usr_responses EXCEPT ![u] = [e EXCEPT !.responses = g]]
        BY <1>4
    <2> HIDE DEF g, e
    <2> DEFINE d == [e EXCEPT !.responses = g]
    <2>10. GoodUser(d)
        BY <2>7, <2>8 DEF GoodUser
    <2> HIDE DEF d
    <2>11. usr_responses' = [usr_responses EXCEPT ![u] = d]
        BY <2>9 DEF d
    <2>12. Users'
        BY <1>1, <1>3, <2>6, <2>10, <2>11, TakenOut
    <2> QED BY <1>1, <2>5, <2>12, KeepQueued, KeepNumbers, KeepCalled, KeepAnswers, KeepSet
               DEF PlaceInv
<1>5. CASE Gone
    <2>1. OnTo(wk[w], "leave") /\ OnTo(wk[w], "lost")
        BY <1>2 DEF OnTo
    <2>2. Working' /\ Waited' /\ Locked'
        BY <1>1, <1>5, <2>1, StepFits DEF LockPC
    <2> QED BY <1>1, <1>5, <2>2, KeepQueued, KeepNumbers, KeepCalled, KeepAnswers, KeepUsers,
               KeepSet DEF PlaceInv
<1> QED
    BY <1>1, <1>4, <1>5

LEMMA LeavesKeep ==
    ASSUME PlaceInv, NEW w \in Workers, Leave(w)
    PROVE  PlaceInv'
<1> DEFINE v == {wk[w].pkt} \ {NoPacket}
<1>1. /\ Goes(w, "leave", Idle) /\ usrLock' = NoWorker /\ Return(w, v)
      /\ UNCHANGED <<tasks, runner, queues, ids, last_c_muids, cmuid, maps, usr_responses,
                     usr_waiters, ready, env, stored>>
    BY LeaveIs
<1>2. Becomes(w, Idle) /\ wk[w].pc = "leave"
    BY <1>1, GoesTo
<1>3. wk[w].call \in Calls /\ ~Awaiting(wk[w]) /\ v \subseteq Packet
    BY <1>2, PeerIs, WorkerAt DEF RequestPC, Awaiting, WaitPC
<1>4. Working' /\ Waited' /\ Locked'
    BY <1>1, <1>2, <1>3, IdleFits, Fitting
<1> HIDE DEF v
<1>5. Called'
    BY <1>1, <1>3, Returned
<1>6. Users'
    BY <1>1 DEF PlaceInv, Users
<1> QED
    BY <1>1, <1>4, <1>5, <1>6, KeepQueued, KeepNumbers, KeepAnswers, KeepSet DEF PlaceInv

LEMMA RequestsKeep ==
    ASSUME PlaceInv, NEW w \in Workers, RequestStep(w)
    PROVE  PlaceInv'
BY EnrollsKeep, DrawsKeep, SendsKeep, ReadsKeep, RegistersKeep, FreesKeep, ErasesKeep,
   AnsweredKeep, ReturnsKeep, ChecksKeep, SeeksKeep, CollectsKeep, TakingKeeps, LeavesKeep
   DEF RequestStep

-----------------------------------------------------------------------------
(* __async_grequests. *)

LEMMA GathererIs ==
    ASSUME PlaceInv, NEW w \in Workers, wk[w].pc \in GatherPC
    PROVE  /\ wk[w].call \in Calls /\ Op[wk[w].call].kind \in {"gather", "misc"}
           /\ wk[w].then = "glance" /\ ~Awaiting(wk[w])
           /\ wk[w].pc = "lookup" => Op[wk[w].call].kind = "gather"
           /\ Op[wk[w].call].kind = "gather" => Peer(w) \in Uids
<1>1. GoodWorker(wk[w], drawn)
    BY WorkerAt
<1>2. wk[w].pc \notin {"idle", "lost"} \cup MessagePC /\ ~Awaiting(wk[w])
    BY DEF GatherPC, MessagePC, AnswerPC, StorePC, Awaiting, WaitPC
<1>3. /\ wk[w].call \in Calls /\ Op[wk[w].call].kind \in {"gather", "misc"}
      /\ wk[w].then = "glance"
      /\ wk[w].pc = "lookup" => Op[wk[w].call].kind = "gather"
    BY <1>1, <1>2 DEF GoodWorker
<1> QED
    BY <1>2, <1>3, OpAssumption DEF Peer

LEMMA LookingFits ==
    ASSUME PlaceInv, NEW w \in Workers, NEW x \in Waiters, drawn' = drawn,
           Becomes(w, WithOn(wk[w], "wait", x)), wk[w].pc = "lookup"
    PROVE  Fits(w, WithOn(wk[w], "wait", x))
<1> DEFINE r == wk[w]
           pc == "wait"
           s == WithOn(r, pc, x)
<1>1. r \in WorkerRec /\ r.call \in Calls /\ Op[r.call].kind = "gather" /\ r.then = "glance"
      /\ ~Awaiting(r)
    BY WorkerAt, GathererIs DEF GatherPC
<1>2. pc \in WorkerPC /\ pc = "wait"
    BY DEF WorkerPC
<1> HIDE DEF r, pc
<1>3. s \in WorkerRec /\ s.pc = pc /\ Same(r, s) /\ s.on = x
    BY <1>1, <1>2, WithOnIs
<1> HIDE DEF s
<1>4. GoodWorker(s, drawn)
    BY <1>1, <1>2, <1>3
       DEF GoodWorker, GoodWait, Holding, WaitPC, RequestPC, SendPC, CyclePC, GatherPC,
           AnswerPC, StorePC, MessagePC, Same
<1> QED
    BY <1>1, <1>4 DEF Fits, Suits, s, r, pc

LEMMA GlancedFits ==
    ASSUME PlaceInv, NEW w \in Workers, NEW t \in SUBSET Uids, drawn' = drawn,
           Becomes(w, WithTodo(wk[w], "lock-get", t)), wk[w].pc \in {"glance", "get"}
    PROVE  Fits(w, WithTodo(wk[w], "lock-get", t))
<1> DEFINE r == wk[w]
           pc == "lock-get"
           s == WithTodo(r, pc, t)
<1>1. r \in WorkerRec /\ r.call \in Calls /\ Op[r.call].kind \in {"gather", "misc"}
      /\ r.then = "glance" /\ ~Awaiting(r)
    BY WorkerAt, GathererIs DEF GatherPC
<1>2. pc \in WorkerPC /\ pc = "lock-get"
    BY DEF WorkerPC
<1> HIDE DEF r, pc
<1>3. s \in WorkerRec /\ s.pc = pc /\ Same(r, s)
    BY <1>1, <1>2, WithTodoIs
<1> HIDE DEF s
<1>4. GoodWorker(s, drawn)
    BY <1>1, <1>2, <1>3
       DEF GoodWorker, GoodWait, Holding, WaitPC, RequestPC, SendPC, CyclePC, GatherPC,
           AnswerPC, StorePC, MessagePC, Same
<1> QED
    BY <1>1, <1>4 DEF Fits, Suits, s, r, pc

LEMMA GatherFromIs ==
    ASSUME NEW w, GatherFrom(w)
    PROVE  /\ Goes(w, "lookup", WithOn(wk[w], "wait", ReqWaiter(Peer(w))))
           /\ UNCHANGED <<tasks, runner, queues, app, env, got, stored, ids, maps, users, ready>>
BY Zenon DEF GatherFrom, WithOn, Unchanged

LEMMA GlanceIs ==
    ASSUME NEW w, Glance(w)
    PROVE  /\ \E t \in {{Peer(w)}, DOMAIN usr_responses} :
                 /\ Goes(w, "glance", WithTodo(wk[w], "lock-get", t))
                 /\ t = DOMAIN usr_responses \/ Op[wk[w].call].kind = "gather"
           /\ UNCHANGED <<tasks, runner, queues, app, env, got, stored, ids, maps, users, ready>>
<1>1. CASE Op[wk[w].call].kind = "gather"
    BY <1>1, Zenon DEF Glance, WithTodo, Unchanged
<1>2. CASE Op[wk[w].call].kind # "gather"
    BY <1>2, Zenon DEF Glance, WithTodo, Unchanged
<1> QED
    BY <1>1, <1>2

LEMMA LooksKeep ==
    ASSUME PlaceInv, NEW w \in Workers, GatherNobody(w) \/ GatherFrom(w) \/ Glance(w)
    PROVE  PlaceInv'
<1>1. CASE GatherNobody(w)
    <2>1. /\ Becomes(w, Idle) /\ wk[w].pc = "lookup" /\ Return(w, {})
          /\ UNCHANGED <<tasks, runner, queues, ids, last_c_muids, cmuid, maps, users, ready, env,
                         stored>>
        BY <1>1, GoesTo DEF GatherNobody
    <2>2. wk[w].call \in Calls /\ ~Awaiting(wk[w])
        BY <2>1, GathererIs DEF GatherPC
    <2>3. Working' /\ Waited' /\ Locked'
        BY <2>1, <2>2, IdleFits, Fitting DEF LockPC
    <2>4. Called'
        BY <2>1, <2>2, Returned
    <2> QED BY <2>1, <2>3, <2>4, KeepQueued, KeepNumbers, KeepAnswers, KeepUsers, KeepSet
               DEF PlaceInv
<1>2. CASE GatherFrom(w) \/ Glance(w)
    <2>1. UNCHANGED <<tasks, runner, queues, app, env, got, stored, ids, maps, users, ready>>
        BY <1>2, GatherFromIs, GlanceIs
    <2>2. \E r : Fits(w, r) /\ wk[w].pc \notin LockPC
        <3>1. CASE GatherFrom(w)
            <4> DEFINE x == ReqWaiter(Peer(w))
            <4>1. Goes(w, "lookup", WithOn(wk[w], "wait", x))
                BY <3>1, GatherFromIs
            <4>2. Becomes(w, WithOn(wk[w], "wait", x)) /\ wk[w].pc = "lookup"
                BY <4>1, GoesTo
            <4>3. Peer(w) \in Uids
                BY <4>2, GathererIs DEF GatherPC
            <4>4. x \in Waiters
                BY <4>3 DEF ReqWaiter, Waiters, PlaceInv, Users
            <4> HIDE DEF x
            <4> QED BY <2>1, <4>2, <4>4, LookingFits DEF LockPC
        <3>2. CASE Glance(w)
            <4>1. PICK t \in {{Peer(w)}, DOMAIN usr_responses} :
                     /\ Goes(w, "glance", WithTodo(wk[w], "lock-get", t))
                     /\ t = DOMAIN usr_responses \/ Op[wk[w].call].kind = "gather"
                BY <3>2, GlanceIs
            <4>2. Becomes(w, WithTodo(wk[w], "lock-get", t)) /\ wk[w].pc = "glance"
                BY <4>1, GoesTo
            <4>3. t \in SUBSET Uids
                BY <4>1, <4>2, GathererIs DEF GatherPC, PlaceInv, Users
            <4> QED BY <2>1, <4>2, <4>3, GlancedFits DEF LockPC
        <3> QED BY <1>2, <3>1, <3>2
    <2>3. Working' /\ Waited' /\ Locked'
        BY <2>1, <2>2, Fitting
    <2> QED BY <2>1, <2>3, KeepQueued, KeepNumbers, KeepCalled, KeepAnswers, KeepUsers, KeepSet
               DEF PlaceInv
<1> QED
    BY <1>1, <1>2

LEMMA GetFromIs ==
    ASSUME NEW w, NEW u, GetFrom(w, u)
    PROVE  /\ Goes(w, "get", Idle) /\ HasRequest(u) /\ usrLock' = NoWorker
           /\ Return(w, {Gathered(u, Head(usr_responses[u].requests))})
           /\ usr_responses' = [usr_responses EXCEPT ![u].requests = Tail(@)]
           /\ UNCHANGED <<tasks, runner, queues, ids, last_c_muids, cmuid, maps, usr_waiters,
                          ready, env, stored>>
BY Zenon DEF GetFrom, Gathered, Unlock

LEMMA GetNoneIs ==
    ASSUME NEW w, NEW u, GetNone(w, u)
    PROVE  /\ \/ Goes(w, "get", Idle) /\ Return(w, {})
              \/ /\ Goes(w, "get", WithTodo(wk[w], "lock-get", wk[w].todo \ {u}))
                 /\ UNCHANGED <<stage, got>>
           /\ usrLock' = NoWorker
           /\ UNCHANGED <<tasks, runner, queues, ids, last_c_muids, cmuid, maps, usr_responses,
                          usr_waiters, ready, env, stored>>
BY Zenon DEF GetNone, WithTodo, Unlock

LEMMA GetsKeep ==
    ASSUME PlaceInv, NEW w \in Workers, NEW u \in Uids, GetFrom(w, u) \/ GetNone(w, u)
    PROVE  PlaceInv'
<1>1. /\ wk[w].pc = "get" /\ usrLock' = NoWorker
      /\ UNCHANGED <<tasks, runner, queues, ids, last_c_muids, cmuid, maps, usr_waiters, ready,
                     env, stored>>
    BY GetFromIs, GetNoneIs DEF Goes
<1>2. wk[w].call \in Calls /\ ~Awaiting(wk[w]) /\ wk[w].todo \subseteq Uids
    BY <1>1, GathererIs, WorkerAt DEF GatherPC
<1>3. CASE GetFrom(w, u)
    <2> DEFINE e == usr_responses[u]
               q == Tail(e.requests)
               n == Head(e.requests)
               d == [e EXCEPT !.requests = q]
               p == Gathered(u, n)
    <2>1. /\ Goes(w, "get", Idle) /\ HasRequest(u) /\ Return(w, {p})
          /\ usr_responses' = [usr_responses EXCEPT ![u] = d]
        BY <1>3, GetFromIs
    <2>2. u \in DOMAIN usr_responses /\ GoodUser(e) /\ e.requests # <<>>
        BY <2>1 DEF HasRequest, PlaceInv, Users
    <2>3. n \in Nat /\ q \in Seq(Nat)
        BY <2>2 DEF GoodUser
    <2>4. p \in Packet
        <3> DEFINE kind == "request"
                   v == [NoPacket EXCEPT !.kind = kind, !.from = u, !.num = n]
        <3>1. p = v
            BY Zenon DEF Gathered
        <3>2. kind \in {"request", "response"}
            OBVIOUS
        <3> HIDE DEF kind, p, n
        <3>3. v \in Packet
            BY <2>3, <3>2, GatheredIs
        <3> QED BY <3>1, <3>3
    <2> HIDE DEF q, n, e, p
    <2>5. GoodUser(d)
        BY <2>2, <2>3 DEF GoodUser
    <2> HIDE DEF d
    <2>6. Users'
        BY <1>1, <2>1, <2>2, <2>5, TakenOut
    <2>7. Called'
        BY <1>1, <1>2, <2>1, <2>4, Returned
    <2>8. Becomes(w, Idle)
        BY <2>1, GoesTo
    <2>9. Working' /\ Waited' /\ Locked'
        BY <1>1, <1>2, <2>8, IdleFits, Fitting
    <2> QED BY <1>1, <2>6, <2>7, <2>9, KeepQueued, KeepNumbers, KeepAnswers, KeepSet DEF PlaceInv
<1>4. CASE GetNone(w, u)
    <2> DEFINE t == wk[w].todo \ {u}
    <2>1. Users'
        BY <1>1, <1>4, GetNoneIs DEF PlaceInv, Users
    <2>2. CASE Goes(w, "get", Idle) /\ Return(w, {})
        <3>1. Called'
            BY <1>1, <1>2, <2>2, Returned
        <3>2. Becomes(w, Idle)
            BY <2>2, GoesTo
        <3>3. Working' /\ Waited' /\ Locked'
            BY <1>1, <1>2, <3>2, IdleFits, Fitting
        <3> QED BY <1>1, <2>1, <3>1, <3>3, KeepQueued, KeepNumbers, KeepAnswers, KeepSet
                   DEF PlaceInv
    <2>3. CASE Goes(w, "get", WithTodo(wk[w], "lock-get", t)) /\ UNCHANGED <<stage, got>>
        <3>1. Becomes(w, WithTodo(wk[w], "lock-get", t))
            BY <2>3, GoesTo
        <3>2. t \in SUBSET Uids
            BY <1>2
        <3> HIDE DEF t
        <3>3. Fits(w, WithTodo(wk[w], "lock-get", t))
            BY <1>1, <3>1, <3>2, GlancedFits
        <3>4. Working' /\ Waited' /\ Locked'
            BY <1>1, <3>3, Fitting
        <3> QED BY <1>1, <2>1, <2>3, <3>4, KeepQueued, KeepNumbers, KeepCalled, KeepAnswers,
                   KeepSet DEF PlaceInv
    <2> QED BY <1>4, <2>2, <2>3, GetNoneIs
<1> QED
    BY <1>3, <1>4

LEMMA GathersKeep ==
    ASSUME PlaceInv, NEW w \in Workers, GatherStep(w)
    PROVE  PlaceInv'
BY LooksKeep, GetsKeep DEF GatherStep

-----------------------------------------------------------------------------
(* The thread of run_client, and the application. *)

StatusFor(n, code) == [NoPacket EXCEPT !.num = n, !.code = code]
ResponseTo(u, c)   == [NoPacket EXCEPT !.kind = "response", !.from = u, !.ref = c]

LEMMA StatusForIs ==
    ASSUME NEW n \in Nat, NEW code \in {101, 200}
    PROVE  /\ StatusFor(n, code) \in Packet /\ StatusFor(n, code).kind = "status"
           /\ StatusFor(n, code).num = n /\ StatusFor(n, code).code = code
<1> DEFINE a == [NoPacket EXCEPT !.num = n]
           b == [a EXCEPT !.code = code]
<1>1. a \in Packet /\ a.kind = "status" /\ a.num = n
    BY IdleIs DEF Packet, NoPacket
<1> HIDE DEF a
<1>2. b \in Packet /\ b.kind = "status" /\ b.num = n /\ b.code = code
    BY <1>1 DEF Packet
<1> HIDE DEF b
<1>3. StatusFor(n, code) = b
    BY Zenon DEF StatusFor, a, b
<1> QED
    BY <1>2, <1>3

LEMMA ResponseToIs ==
    ASSUME NEW u \in Uids, NEW c \in Calls
    PROVE  ResponseTo(u, c) \in UserMsg
<1> DEFINE a == [NoPacket EXCEPT !.kind = "response"]
           b == [a EXCEPT !.from = u]
           d == [b EXCEPT !.ref = c]
<1>1. a \in Packet /\ a.kind = "response"
    BY IdleIs DEF Packet
<1> HIDE DEF a
<1>2. b \in Packet /\ b.kind = "response" /\ b.from = u
    BY <1>1 DEF Packet
<1> HIDE DEF b
<1>3. d \in Packet /\ d.kind = "response" /\ d.from = u /\ d.ref = c
    BY <1>2 DEF Packet
<1> HIDE DEF d
<1>4. ResponseTo(u, c) = d
    BY Zenon DEF ResponseTo, a, b, d
<1> QED
    BY <1>3, <1>4 DEF UserMsg

LEMMA AskedIs ==
    ASSUME NEW u \in Uids, NEW n \in 1..MaxAsks
    PROVE  Gathered(u, n) \in Requests
<1> DEFINE kind == "request"
           v == [NoPacket EXCEPT !.kind = kind, !.from = u, !.num = n]
<1>1. Gathered(u, n) = v
    BY Zenon DEF Gathered
<1>2. kind = "request" /\ kind \in {"request", "response"} /\ n \in Nat
    BY BoundsAssumption
<1> HIDE DEF kind
<1>3. v \in Packet /\ v.kind = kind /\ v.from = u /\ v.num = n /\ v.code = 0 /\ v.ref = NoCall
    BY <1>2, GatheredIs
<1> HIDE DEF v
<1>4. v \in Requests
    BY <1>2, <1>3 DEF Requests
<1> QED
    BY <1>1, <1>4

LEMMA AnswerIs ==
    ASSUME NEW m, NEW code, Answer(m, code)
    PROVE  /\ code = 101 => Op[m.call].to # Server /\ Cardinality(drawn) < MaxMuids
           /\ Receive(StatusFor(m.muid, code)) /\ atServer' = atServer \ {m}
           /\ accepted' = [accepted EXCEPT ![m.call] = IF code = 200 THEN @ + 1 ELSE @]
           /\ UNCHANGED <<asked, responded>>
BY Zenon DEF Answer, StatusFor

LEMMA AskIs ==
    ASSUME NEW u, Ask(u)
    PROVE  /\ asked[u] < MaxAsks /\ asked' = [asked EXCEPT ![u] = @ + 1]
           /\ Receive(Gathered(u, asked[u] + 1)) /\ UNCHANGED <<atServer, accepted, responded>>
BY Zenon DEF Ask, Gathered

LEMMA RespondIs ==
    ASSUME NEW c, Respond(c)
    PROVE  /\ Op[c].kind = "request" /\ Receive(ResponseTo(Op[c].to, c))
           /\ UNCHANGED <<atServer, asked, accepted>>
BY Zenon DEF Respond, ResponseTo

(* Packet p comes in from the server or from a peer. *)
Comes(p) == /\ Receive(p) /\ atServer' \subseteq atServer
            /\ accepted' \in [Calls -> Nat] /\ asked' \in [Uids -> Nat]

LEMMA ReceivesKeep ==
    ASSUME PlaceInv, Incoming
    PROVE  PlaceInv'
<1>1. \E p \in StatusMsg(drawn) \cup UserMsg : Comes(p)
    <2> USE DEF PlaceInv, Queued, Called
    <2>1. ASSUME NEW m \in atServer, NEW code \in {101, 200}, Answer(m, code)
          PROVE  \E p \in StatusMsg(drawn) \cup UserMsg : Comes(p)
        <3> DEFINE n == m.muid
                   p == StatusFor(n, code)
        <3>1. n \in drawn /\ drawn \subseteq Nat /\ m.call \in Calls
            BY DEF Sendings, Numbers
        <3>2. /\ Receive(p) /\ atServer' = atServer \ {m} /\ asked' = asked
              /\ accepted' = [accepted EXCEPT ![m.call] = IF code = 200 THEN @ + 1 ELSE @]
            BY <2>1, AnswerIs
        <3> HIDE DEF n
        <3>3. p \in StatusMsg(drawn)
            <4>1. n \in Nat /\ code \in {101, 200}
                BY <3>1
            <4>2. p \in Packet /\ p.kind = "status" /\ p.num = n /\ p.code = code
                BY ONLY <4>1, StatusForIs
            <4> HIDE DEF p
            <4> QED BY <3>1, <4>2 DEF StatusMsg
        <3>4. Comes(p)
            BY <3>1, <3>2 DEF Comes
        <3> QED BY <3>3, <3>4
    <2>2. ASSUME NEW u \in Uids, Ask(u)
          PROVE  \E p \in StatusMsg(drawn) \cup UserMsg : Comes(p)
        <3> DEFINE n == asked[u] + 1
                   p == Gathered(u, n)
        <3>1. n \in 1..MaxAsks /\ asked' = [asked EXCEPT ![u] = @ + 1]
            BY <2>2, AskIs, BoundsAssumption
        <3>2. Receive(p) /\ UNCHANGED <<atServer, accepted>>
            BY <2>2, AskIs
        <3>3. asked' \in [Uids -> Nat]
            BY <3>1
        <3> HIDE DEF n
        <3>4. p \in UserMsg
            BY <3>1, AskedIs DEF UserMsg
        <3>5. Comes(p)
            BY <3>2, <3>3 DEF Comes
        <3> QED BY <3>4, <3>5
    <2>3. ASSUME NEW c \in Calls, Respond(c)
          PROVE  \E p \in StatusMsg(drawn) \cup UserMsg : Comes(p)
        <3> DEFINE p == ResponseTo(Op[c].to, c)
        <3>1. Receive(p) /\ UNCHANGED <<atServer, asked, accepted>> /\ Op[c].kind = "request"
            BY <2>3, RespondIs
        <3>2. Op[c].to \in Uids
            BY <3>1, OpAssumption
        <3>3. p \in UserMsg
            BY <3>2, ResponseToIs
        <3>4. Comes(p)
            BY <3>1 DEF Comes
        <3> QED BY <3>3, <3>4
    <2> QED BY <2>1, <2>2, <2>3 DEF Incoming
<1>2. PICK p \in StatusMsg(drawn) \cup UserMsg : Comes(p)
    BY <1>1
<1>3. /\ runner' = "create" /\ readq' = Append(readq, p)
      /\ UNCHANGED <<tasks, wk, writeq, ids, app, maps, users, ready, got, stored>>
    BY <1>2 DEF Comes, Receive, RunnerGoes
<1>4. Queued' /\ Called'
    BY <1>2, <1>3 DEF Comes, PlaceInv, Queued, Called, UserMsg
<1> QED
    BY <1>3, <1>4, KeepWorkers, KeepWaited, KeepLocked, KeepNumbers, KeepAnswers, KeepUsers,
       KeepSet DEF PlaceInv

LEMMA RunnersKeep ==
    ASSUME PlaceInv, RunnerStep
    PROVE  PlaceInv'
<1>1. CASE Incoming
    BY <1>1, ReceivesKeep
<1>2. CASE CreateTask
    <2>1. /\ runner' = "poll" /\ tasks' = Append(tasks, OnMessage)
          /\ UNCHANGED <<wk, queues, ids, app, maps, users, ready, env, got, stored>>
        BY <1>2 DEF CreateTask, RunnerGoes
    <2>2. Queued'
        BY <2>1 DEF PlaceInv, Queued, UserMsg
    <2> QED BY <2>1, <2>2, KeepWorkers, KeepWaited, KeepLocked, KeepNumbers, KeepCalled,
               KeepAnswers, KeepUsers, KeepSet DEF PlaceInv
<1>3. CASE Write \/ WriteLast \/ FreeWritten
    <2>1. /\ runner' \in {"poll", "free"}
          /\ UNCHANGED <<tasks, wk, readq, ids, app, maps, users, ready, asked, accepted,
                         got, stored>>
        BY <1>3 DEF Write, WriteLast, FreeWritten, RunnerGoes
    <2>2. writeq' \in Seq(Sendings(drawn)) /\ atServer' \subseteq Sendings(drawn)
        <3>1. writeq \in Seq(Sendings(drawn)) /\ atServer \subseteq Sendings(drawn)
            BY DEF PlaceInv, Queued
        <3>2. CASE Write \/ WriteLast
            <4>1. Len(writeq) >= 1
                BY <3>2 DEF Write, WriteLast
            <4>2. writeq # <<>>
                BY <4>1
            <4>3. Head(writeq) \in Sendings(drawn) /\ Tail(writeq) \in Seq(Sendings(drawn))
                BY <3>1, <4>2
            <4> QED BY <3>1, <3>2, <4>3 DEF Write, WriteLast
        <3>3. CASE FreeWritten
            <4>1. <<>> \in Seq(Sendings(drawn))
                OBVIOUS
            <4> QED BY <3>1, <3>3, <4>1 DEF FreeWritten
        <3> QED BY <1>3, <3>2, <3>3
    <2>3. Queued'
        BY <2>1, <2>2 DEF PlaceInv, Queued, UserMsg
    <2> QED BY <2>1, <2>3, KeepWorkers, KeepWaited, KeepLocked, KeepNumbers, KeepCalled,
               KeepAnswers, KeepUsers, KeepSet DEF PlaceInv
<1> QED
    BY <1>1, <1>2, <1>3 DEF RunnerStep

LEMMA AppsKeep ==
    ASSUME PlaceInv, AppStep
    PROVE  PlaceInv'
<1>1. PICK c \in Calls : Request(c) \/ RequestRefused(c) \/ Start(c)
    BY DEF AppStep
<1>2. UNCHANGED <<wk, runner, queues, ids, maps, users, ready, env, got, stored>>
    BY <1>1 DEF Request, RequestRefused, Start
<1>3. tasks' \in Seq(Calls \cup {OnMessage})
    <2>1. tasks \in Seq(Calls \cup {OnMessage}) /\ tasks' \in {tasks, Append(tasks, c)}
        BY <1>1 DEF Request, RequestRefused, Start, Schedule, PlaceInv, Queued
    <2> QED BY <2>1
<1>4. stage' \in [Calls -> {"new", "running", "done"}]
    BY <1>1 DEF Request, RequestRefused, Start, Schedule, PlaceInv, Called
<1>5. last_c_muids' \subseteq Uids /\ cmuid' \in [Calls -> {0, 1}]
    <2>1. CASE Request(c)
        <3>1. Op[c].to \in Uids \cup {Server} /\ Cmuid(c) \in {0, 1}
            BY OpAssumption DEF Cmuid
        <3> QED BY <2>1, <3>1 DEF Request, PlaceInv, Called
    <2>2. CASE RequestRefused(c) \/ Start(c)
        BY <2>2 DEF RequestRefused, Start, PlaceInv, Called
    <2> QED BY <1>1, <2>1, <2>2
<1>6. Queued' /\ Called'
    BY <1>2, <1>3, <1>4, <1>5 DEF PlaceInv, Queued, Called, UserMsg
<1> QED
    BY <1>2, <1>6, KeepWorkers, KeepWaited, KeepLocked, KeepNumbers, KeepAnswers, KeepUsers,
       KeepSet DEF PlaceInv

-----------------------------------------------------------------------------
LEMMA PlaceInit == Init => PlaceInv
<1> SUFFICES ASSUME Init PROVE PlaceInv
    OBVIOUS
<1>1. Working
    BY IdleIs DEF Init, Working, GoodWorker, Holding, WaitPC, RequestPC, SendPC, CyclePC,
                  GatherPC, AnswerPC, StorePC, MessagePC
<1>2. Queued
    BY DEF Init, Queued
<1>3. Numbers /\ Called /\ Set /\ Locked
    BY DEF Init, Numbers, Called, Set, Locked
<1>4. Answers /\ Waited /\ Users
    BY DEF Init, Answers, Waited, Users
<1> QED
    BY <1>1, <1>2, <1>3, <1>4 DEF PlaceInv

LEMMA PlaceStep == PlaceInv /\ [Next]_vars => PlaceInv'
<1> SUFFICES ASSUME PlaceInv, [Next]_vars PROVE PlaceInv'
    OBVIOUS
<1>1. CASE AppStep
    BY <1>1, AppsKeep
<1>2. CASE RunnerStep
    BY <1>2, RunnersKeep
<1>3. ASSUME NEW w \in Workers, WorkerStep(w) PROVE PlaceInv'
    BY <1>3, TakesKeep, WaitsKeep, MessagesKeep, RequestsKeep, GathersKeep DEF WorkerStep
<1>4. CASE UNCHANGED vars
    BY <1>4, KeepQueued, KeepNumbers, KeepCalled, KeepAnswers, KeepUsers, KeepSet, KeepWorkers,
       KeepWaited, KeepLocked DEF PlaceInv, vars
<1> QED
    BY <1>1, <1>2, <1>3, <1>4 DEF Next

LEMMA PlaceInvariant == Spec => []PlaceInv
BY PlaceInit, PlaceStep, PTL DEF Spec

LEMMA TypesFollow == PlaceInv => TypeOK
<1> SUFFICES ASSUME PlaceInv PROVE TypeOK
    OBVIOUS
<1>1. \A w \in Workers :
          /\ wk[w].pc \in WorkerPC /\ wk[w].call \in Calls \cup {NoCall}
          /\ wk[w].pkt \in Packet /\ wk[w].todo \subseteq Uids
    BY WorkerAt DEF GoodWorker, WorkerRec
<1>2. \A i \in DOMAIN tasks : tasks[i] \in Calls \cup {OnMessage}
    BY DEF PlaceInv, Queued
<1>3. \A i \in DOMAIN readq : readq[i] \in Packet
    <2>1. StatusMsg(drawn) \cup UserMsg \subseteq Packet
        BY DEF StatusMsg, UserMsg, Requests
    <2> QED BY <2>1 DEF PlaceInv, Queued
<1>4. \A i \in DOMAIN writeq : writeq[i] \in [muid : Nat, call : Calls]
    <2>1. Sendings(drawn) \subseteq [muid : Nat, call : Calls]
        BY DEF PlaceInv, Numbers, Sendings
    <2> QED BY <2>1 DEF PlaceInv, Queued
<1>5. runner \in {"poll", "create", "free"} /\ last_muid \in Nat
    BY DEF PlaceInv, Queued, Numbers
<1>6. /\ last_c_muids \subseteq Uids /\ cmuid \in [Calls -> {0, 1}]
      /\ stage \in [Calls -> {"new", "running", "done"}]
      /\ (\A c \in Calls : got[c] \subseteq Packet) /\ stored \subseteq Requests
    BY DEF PlaceInv, Called
<1>7. /\ \A n \in DOMAIN responses : responses[n] \in {101, 200}
      /\ \A n \in DOMAIN cnd_responses : cnd_responses[n].n = n
    BY DEF PlaceInv, Answers, Waited
<1>8. /\ DOMAIN usr_responses \subseteq Uids /\ usr_waiters \in [Uids -> Nat]
      /\ usrLock \in Workers \cup {NoWorker}
    BY DEF PlaceInv, Users
<1> QED
    BY <1>1, <1>2, <1>3, <1>4, <1>5, <1>6, <1>7, <1>8 DEF TypeOK

(* Whatever calls are made and however the threads of the session take      *)
(* turns, its queues, maps and workers hold what the code expects there.    *)
THEOREM SessionTypes == Spec => []TypeOK
BY PlaceInvariant, TypesFollow, PTL

(* usr_responses_mtx is held by a worker inside one of its critical         *)
(* sections or by nobody, on every path through the handlers and the calls. *)
THEOREM MutexIsReleased == Spec => []LockReleased
<1>1. PlaceInv => LockReleased
    BY DEF PlaceInv, Locked, LockReleased, LockPC
<1> QED
    BY <1>1, PlaceInvariant, PTL
=============================================================================
