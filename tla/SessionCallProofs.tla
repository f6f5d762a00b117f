------------------------- MODULE SessionCallProofs --------------------------
(***************************************************************************)
(* Proofs about the calls of Session: that a woken call finds the answer   *)
(* to its packet, and that the server accepts a call's packet once.  Both  *)
(* hold as long as no muid is given out twice (~dup); they rest on         *)
(* PlaceInv of SessionProofs.                                              *)
(***************************************************************************)
EXTENDS SessionProofs

USE DEF maps, users, waits, ids, queues, env, app

-----------------------------------------------------------------------------
(* The invariants of the calls: one worker runs a call, one packet of it is *)
(* under way at a time, and the answer to it is in responses when its       *)
(* worker has been woken.                                                   *)

(* What a worker has heard of the answer to the packet with muid n ...      *)
Hears(r, n) == \/ r.pc \in {"find", "set"} /\ r.pkt.num = n
               \/ r.pc \in {"free-waiter", "erase", "getresp"} /\ r.muid = n

(* ... and whether anybody has: then the answer has been stored.            *)
Heard(n) == \/ \E x \in ready : x.what = "call" /\ x.n = n
            \/ \E w \in Workers : Hears(wk[w], n)

(* The server's answer to muid n is on its way to responses, or there.      *)
Bears(r, n, k) == /\ r.pc \in {"free", "answer"} /\ r.pkt.kind = "status"
                  /\ r.pkt.num = n /\ r.pkt.code = k

Reported(n, k) ==
    \/ \E i \in DOMAIN readq :
          readq[i].kind = "status" /\ readq[i].num = n /\ readq[i].code = k
    \/ \E w \in Workers : Bears(wk[w], n, k)
    \/ n \in DOMAIN responses /\ responses[n] = k

(* The packets in writeq that the thread of run_client has not written. *)
First == IF runner = "free" THEN 2 ELSE 1
Unwritten == {writeq[i] : i \in First..Len(writeq)}

(* A call is in the event loop once, or one worker runs it, or it is over.  *)
OnceQueued == \A i, j \in DOMAIN tasks : tasks[i] = tasks[j] /\ tasks[i] # OnMessage => i = j
OneRunner  == /\ \A i \in DOMAIN tasks, w \in Workers : tasks[i] # wk[w].call
              /\ \A v, w \in Workers : wk[v].call = wk[w].call /\ wk[v].call # NoCall => v = w
Unstarted  == \A c \in Calls : stage[c] = "new" =>
                 /\ accepted[c] = 0
                 /\ \A i \in DOMAIN tasks : tasks[i] # c
                 /\ \A w \in Workers : wk[w].call # c
                 /\ \A i \in DOMAIN writeq : writeq[i].call # c
                 /\ \A q \in atServer : q.call # c

RunInv == OnceQueued /\ OneRunner /\ Unstarted

Distinct == \A v, w \in Workers : Holding(wk[v]) /\ Holding(wk[w]) /\ wk[v].muid = wk[w].muid
                                  => v = w

HeardStored == \A w \in Workers : Holding(wk[w]) /\ Heard(wk[w].muid)
                                  => wk[w].muid \in DOMAIN responses

AnswerInv == ~dup => Distinct /\ HeardStored

(* What the server has accepted, seen from where a call is. *)
Unsent == /\ \A i \in DOMAIN tasks : tasks[i] \in Calls => accepted[tasks[i]] = 0
          /\ \A w \in Workers : wk[w].pc \in {"enroll", "add", "muid", "push"}
                                => accepted[wk[w].call] = 0
          /\ \A w \in Workers, n \in drawn, k \in {101, 200} :
                wk[w].pc = "push" /\ wk[w].muid = n => ~Reported(n, k)

Sent == /\ \A c \in Calls : accepted[c] <= 1
        /\ \A w \in Workers : wk[w].pc \in {"lock-check", "return"} => accepted[wk[w].call] = 1

Truthful == \A w \in Workers, n \in drawn : Holding(wk[w]) /\ wk[w].muid = n =>
               /\ Reported(n, 200) => accepted[wk[w].call] = 1
               /\ Reported(n, 101) => accepted[wk[w].call] = 0

(* A packet under way has a worker that waits for the answer to it. *)
Owned(q) == /\ \E w \in Workers : /\ Holding(wk[w]) /\ wk[w].pc # "push"
                                  /\ wk[w].call = q.call /\ wk[w].muid = q.muid
            /\ accepted[q.call] = 0
            /\ ~Reported(q.muid, 101) /\ ~Reported(q.muid, 200)

UnderWay == /\ \A q \in atServer : Owned(q)
            /\ \A q \in Unwritten : Owned(q) /\ q \notin atServer
            /\ \A i, j \in First..Len(writeq) : writeq[i] = writeq[j] => i = j

SendInv == ~dup => Unsent /\ Sent /\ Truthful /\ UnderWay

-----------------------------------------------------------------------------
(* The workers that do not make the step. *)

Stays(v) == /\ wk'[v].call = wk[v].call /\ wk'[v].muid = wk[v].muid
            /\ Holding(wk'[v]) <=> Holding(wk[v])
            /\ \/ wk'[v].pc = wk[v].pc
               \/ wk[v].pc = "asleep" /\ wk'[v].pc = "wait"
            /\ \A n : Hears(wk'[v], n) <=> Hears(wk[v], n)
            /\ \A n, k : Bears(wk'[v], n, k) <=> Bears(wk[v], n, k)

LEMMA OthersStay ==
    ASSUME PlaceInv, NEW w \in Workers, Becomes(w, wk'[w]), NEW v \in Workers \ {w}
    PROVE  Stays(v)
<1>1. CASE wk'[v] = wk[v]
    BY <1>1 DEF Stays
<1>2. CASE wk[v].pc = "asleep" /\ wk'[v] = [wk[v] EXCEPT !.pc = "wait"]
    <2> DEFINE r == wk[v]
               s == [r EXCEPT !.pc = "wait"]
    <2>1. GoodWorker(r, drawn) /\ r.pc = "asleep"
        BY <1>2, WorkerAt
    <2> HIDE DEF r
    <2>2. s.pc = "wait" /\ Same(r, s) /\ (Holding(s) <=> Holding(r))
        BY <2>1, Woken
    <2> HIDE DEF s
    <2>3. wk'[v] = s /\ wk[v] = r
        BY <1>2 DEF s, r
    <2> QED BY <2>1, <2>2, <2>3 DEF Stays, Same, Hears, Bears
<1> QED
    BY <1>1, <1>2 DEF Becomes

(* A step of worker w that neither begins a request cycle nor ends one: the *)
(* worker stays in its cycle, or outside, and with its call.                *)
Plain(a, r) ==
    /\ r.call \in {a.call, NoCall}
    /\ Holding(r) <=> Holding(a)
    /\ Holding(r) => r.muid = a.muid /\ r.call = a.call
    /\ a.pc # "push" /\ r.pc \notin {"push", "lock-check", "return"}
    /\ r.pc \in {"enroll", "add", "muid"} => a.pc \in {"enroll", "add"} /\ r.call = a.call

(* What the step makes known has been known before or stored now. *)
Learns(w) == /\ \A n : Hears(wk'[w], n) => Heard(n) \/ n \in DOMAIN responses'
             /\ \A x \in ready' : x.what = "call" => x \in ready \/ Heard(x.n)

LEMMA RunKeeps ==
    ASSUME PlaceInv, RunInv, NEW w \in Workers, Becomes(w, wk'[w]),
           wk'[w].call \in {wk[w].call, NoCall}, UNCHANGED <<tasks, atServer, accepted>>,
           \A c \in Calls : stage'[c] = "new" => stage[c] = "new",
           \A i \in DOMAIN writeq' : \/ writeq'[i].call = wk[w].call
                                     \/ \E j \in DOMAIN writeq : writeq'[i] = writeq[j]
    PROVE  RunInv'
<1>1. \A v \in Workers : wk'[v].call \in {wk[v].call, NoCall}
    BY OthersStay DEF Stays
<1>2. \A i \in DOMAIN tasks : tasks[i] # NoCall
    BY NamesAssumption DEF PlaceInv, Queued
<1>3. OnceQueued'
    BY DEF RunInv, OnceQueued
<1>4. OneRunner'
    BY <1>1, <1>2 DEF RunInv, OneRunner
<1>5. Unstarted'
    BY <1>1, NamesAssumption DEF RunInv, Unstarted
<1> QED
    BY <1>3, <1>4, <1>5 DEF RunInv

LEMMA AnswerKeeps ==
    ASSUME PlaceInv, AnswerInv, NEW w \in Workers, Becomes(w, wk'[w]), dup' = dup,
           Holding(wk'[w]) => Holding(wk[w]) /\ wk'[w].muid = wk[w].muid,
           ~dup => \A v \in Workers : Holding(wk'[v]) /\ wk[v].muid \in DOMAIN responses
                                      => wk[v].muid \in DOMAIN responses',
           Learns(w)
    PROVE  AnswerInv'
<1> SUFFICES ASSUME ~dup PROVE Distinct' /\ HeardStored'
    BY DEF AnswerInv
<1>1. Distinct /\ HeardStored
    BY DEF AnswerInv
<1>2. \A v \in Workers : Holding(wk'[v]) => Holding(wk[v]) /\ wk'[v].muid = wk[v].muid
    BY OthersStay DEF Stays
<1>3. \A n : Heard(n)' => Heard(n) \/ n \in DOMAIN responses'
    <2> SUFFICES ASSUME NEW n, Heard(n)' PROVE Heard(n) \/ n \in DOMAIN responses'
        OBVIOUS
    <2>1. CASE \E x \in ready' : x.what = "call" /\ x.n = n
        BY <2>1 DEF Learns, Heard
    <2>2. ASSUME NEW v \in Workers, Hears(wk'[v], n) PROVE Heard(n) \/ n \in DOMAIN responses'
        <3>1. CASE v = w
            BY <2>2, <3>1 DEF Learns
        <3>2. CASE v # w
            <4>1. Hears(wk[v], n)
                BY <2>2, <3>2, OthersStay DEF Stays
            <4> QED BY <4>1 DEF Heard
        <3> QED BY <3>1, <3>2
    <2> QED BY <2>1, <2>2 DEF Heard
<1>4. Distinct'
    BY <1>1, <1>2 DEF Distinct
<1>5. HeardStored'
    <2> SUFFICES ASSUME NEW v \in Workers, NEW n, n = wk'[v].muid, Holding(wk'[v]), Heard(n)'
                 PROVE  n \in DOMAIN responses'
        BY DEF HeardStored, Heard
    <2>1. Holding(wk[v]) /\ wk[v].muid = n
        BY <1>2
    <2>2. Heard(n) \/ n \in DOMAIN responses'
        BY <1>3
    <2>3. Heard(n) => n \in DOMAIN responses'
        BY <1>1, <2>1 DEF HeardStored
    <2> QED BY <2>2, <2>3
<1> QED
    BY <1>4, <1>5

(* A worker's step that sends nothing: the conditions say where it may put  *)
(* the worker, as the invariant has it.                                     *)
LEMMA SendKeepsOn ==
    ASSUME PlaceInv, SendInv, NEW w \in Workers, Becomes(w, wk'[w]),
           Holding(wk'[w]) => /\ Holding(wk[w]) /\ wk'[w].muid = wk[w].muid
                              /\ wk'[w].call = wk[w].call,
           wk[w].pc # "push", wk'[w].pc # "push",
           ~dup => /\ wk'[w].pc \in {"enroll", "add", "muid"} => accepted[wk'[w].call] = 0
                   /\ wk'[w].pc \in {"lock-check", "return"} => accepted[wk'[w].call] = 1
                   /\ \A i \in DOMAIN tasks' : tasks'[i] \in Calls => accepted[tasks'[i]] = 0
                   /\ Holding(wk[w]) /\ ~Holding(wk'[w])
                        => \A q : Owned(q) => q.muid # wk[w].muid,
           UNCHANGED <<runner, writeq, atServer, accepted, dup, drawn>>,
           \A n, k : Reported(n, k)' => Reported(n, k)
    PROVE  SendInv'
<1> SUFFICES ASSUME ~dup PROVE Unsent' /\ Sent' /\ Truthful' /\ UnderWay'
    BY DEF SendInv
<1>1. Unsent /\ Sent /\ Truthful /\ UnderWay
    BY DEF SendInv
<1>2. \A v \in Workers :
          /\ Holding(wk'[v]) => /\ Holding(wk[v]) /\ wk'[v].call = wk[v].call
                                /\ wk'[v].muid = wk[v].muid
          /\ wk'[v].pc = "push" => wk[v].pc = "push"
          /\ wk'[v].pc \in {"enroll", "add", "muid", "push"} => accepted[wk'[v].call] = 0
          /\ wk'[v].pc \in {"lock-check", "return"} => accepted[wk'[v].call] = 1
    <2> TAKE v \in Workers
    <2>1. CASE v = w
        BY <2>1
    <2>2. CASE v # w
        BY <1>1, <2>2, OthersStay DEF Stays, Unsent, Sent
    <2> QED BY <2>1, <2>2
<1>3. \A v \in Workers : wk[v].pc = "push" => Holding(wk[v]) /\ v # w
    BY DEF Holding, CyclePC
<1>4. Unsent'
    <2>1. ASSUME NEW v \in Workers, NEW n \in drawn, NEW k \in {101, 200},
                 wk'[v].pc = "push", wk'[v].muid = n
          PROVE  ~Reported(n, k)'
        <3>1. v # w /\ wk[v].pc = "push"
            BY <1>2, <2>1
        <3>2. wk[v].muid = n
            BY <2>1, <3>1, OthersStay DEF Stays
        <3> QED BY <1>1, <3>1, <3>2 DEF Unsent
    <2> QED BY <1>1, <1>2, <2>1 DEF Unsent
<1>5. Sent'
    BY <1>1, <1>2 DEF Sent
<1>6. Truthful'
    <2> SUFFICES ASSUME NEW v \in Workers, NEW n \in drawn, Holding(wk'[v]), wk'[v].muid = n
                 PROVE  /\ Reported(n, 200)' => accepted[wk'[v].call] = 1
                        /\ Reported(n, 101)' => accepted[wk'[v].call] = 0
        BY DEF Truthful
    <2>1. Holding(wk[v]) /\ wk[v].muid = n /\ wk'[v].call = wk[v].call
        BY <1>2
    <2> QED BY <1>1, <2>1 DEF Truthful
<1>7. ASSUME NEW q, Owned(q) PROVE Owned(q)'
    <2>1. PICK v \in Workers : /\ Holding(wk[v]) /\ wk[v].pc # "push" /\ wk[v].call = q.call
                               /\ wk[v].muid = q.muid
        BY <1>7 DEF Owned
    <2>2. Holding(wk'[v]) /\ wk'[v].pc # "push" /\ wk'[v].call = q.call /\ wk'[v].muid = q.muid
        <3>1. CASE v = w
            BY <1>2, <1>7, <2>1, <3>1
        <3>2. CASE v # w
            BY <2>1, <3>2, OthersStay DEF Stays
        <3> QED BY <3>1, <3>2
    <2> QED BY <1>7, <2>2 DEF Owned
<1>8. UnderWay'
    <2>1. Unwritten' = Unwritten /\ First' = First
        BY DEF Unwritten, First
    <2>2. \A q \in atServer \cup Unwritten : Owned(q)'
        BY <1>1, <1>7 DEF UnderWay
    <2> QED BY <1>1, <2>1, <2>2 DEF UnderWay
<1> QED
    BY <1>4, <1>5, <1>6, <1>8

LEMMA SendKeeps ==
    ASSUME PlaceInv, SendInv, NEW w \in Workers, Becomes(w, wk'[w]), Plain(wk[w], wk'[w]),
           UNCHANGED <<tasks, runner, writeq, atServer, accepted, dup, drawn>>,
           \A n, k : Reported(n, k)' => Reported(n, k)
    PROVE  SendInv'
<1>1. ASSUME ~dup
      PROVE  /\ wk'[w].pc \in {"enroll", "add", "muid"} => accepted[wk'[w].call] = 0
             /\ wk'[w].pc \notin {"lock-check", "return"}
             /\ \A i \in DOMAIN tasks' : tasks'[i] \in Calls => accepted[tasks'[i]] = 0
             /\ Holding(wk[w]) => Holding(wk'[w])
    <2>1. Unsent
        BY <1>1 DEF SendInv
    <2> QED BY <2>1 DEF Plain, Unsent
<1> QED
    BY <1>1, SendKeepsOn DEF Plain

(* The step of worker w is of no consequence for the packets of the calls. *)
Frame(w) ==
    /\ Becomes(w, wk'[w]) /\ Plain(wk[w], wk'[w]) /\ Learns(w)
    /\ UNCHANGED <<tasks, runner, writeq, atServer, accepted, dup, drawn>>
    /\ \A c \in Calls : stage'[c] = "new" => stage[c] = "new"
    /\ \A n, k : Reported(n, k)' => Reported(n, k)
    /\ DOMAIN responses \subseteq DOMAIN responses'

CallInv == RunInv /\ AnswerInv /\ SendInv

LEMMA FrameKeeps ==
    ASSUME PlaceInv, CallInv, NEW w \in Workers, Frame(w)
    PROVE  CallInv'
<1> USE DEF CallInv, Frame
<1>1. RunInv'
    BY RunKeeps DEF Plain
<1>2. AnswerInv'
    BY AnswerKeeps DEF Plain
<1>3. SendInv'
    BY SendKeeps
<1> QED
    BY <1>1, <1>2, <1>3

-----------------------------------------------------------------------------
(* The steps of no consequence. *)

LEMMA ReportsLess ==
    ASSUME PlaceInv, NEW w \in Workers, Becomes(w, wk'[w]), UNCHANGED responses,
           \A i \in DOMAIN readq' : \E j \in DOMAIN readq : readq'[i] = readq[j],
           \A n, k : Bears(wk'[w], n, k) => Reported(n, k)
    PROVE  \A n, k : Reported(n, k)' => Reported(n, k)
<1> TAKE n, k
<1> HAVE Reported(n, k)'
<1>1. ASSUME NEW v \in Workers, Bears(wk'[v], n, k) PROVE Reported(n, k)
    <2>1. CASE v = w
        BY <1>1, <2>1
    <2>2. CASE v # w
        <3>1. Bears(wk[v], n, k)
            BY <1>1, <2>2, OthersStay DEF Stays
        <3> QED BY <3>1 DEF Reported
    <2> QED BY <2>1, <2>2
<1>2. ASSUME NEW i \in DOMAIN readq', readq'[i].kind = "status", readq'[i].num = n,
             readq'[i].code = k
      PROVE  Reported(n, k)
    BY <1>2 DEF Reported
<1>3. n \in DOMAIN responses' /\ responses'[n] = k => Reported(n, k)
    BY DEF Reported
<1> QED
    BY <1>1, <1>2, <1>3 DEF Reported

LEMMA FrameOf ==
    ASSUME PlaceInv, NEW w \in Workers, NEW r, Becomes(w, r), Plain(wk[w], r), Learns(w),
           r.pc \notin {"free", "answer"}, \A c \in Calls : stage'[c] = "new" => stage[c] = "new",
           UNCHANGED <<tasks, runner, queues, responses, atServer, accepted, dup, drawn>>
    PROVE  Frame(w)
<1>1. wk'[w] = r
    BY DEF Becomes
<1>2. \A n, k : ~Bears(wk'[w], n, k)
    BY <1>1 DEF Bears
<1>3. \A n, k : Reported(n, k)' => Reported(n, k)
    BY <1>1, <1>2, ReportsLess
<1> QED
    BY <1>1, <1>3 DEF Frame

(* Nothing is learnt where only waiters of the peers are set. *)
LEMMA NothingLearnt ==
    ASSUME NEW w \in Workers,
           \A n : Hears(wk'[w], n) => Hears(wk[w], n),
           \A x \in ready' : x.what = "call" => x \in ready
    PROVE  Learns(w)
BY DEF Learns, Heard

LEMMA PlainTo ==
    ASSUME PlaceInv, NEW w \in Workers, NEW pc, OnTo(wk[w], pc), Becomes(w, To(w, pc)),
           wk[w].pc \notin {"push", "muid", "getresp"}
    PROVE  /\ Plain(wk[w], To(w, pc)) /\ wk'[w] = To(w, pc) /\ To(w, pc).pc = pc
           /\ Same(wk[w], To(w, pc)) /\ To(w, pc).pkt = wk[w].pkt
<1> DEFINE a == wk[w]
           r == [a EXCEPT !.pc = pc]
<1>1. GoodWorker(a, drawn) /\ a.then \in {"idle", "glance", "free-waiter", "collect"}
    BY WorkerAt DEF GoodWorker, WorkerRec
<1>2. To(w, pc) = r /\ wk'[w] = To(w, pc)
    BY DEF To, Becomes
<1> HIDE DEF a
<1>3. r.pc = pc /\ Same(a, r) /\ r.pkt = a.pkt
    BY <1>1, OnToKeeps DEF a
<1>4. OnTo(a, pc) /\ a.pc \notin {"push", "muid", "getresp"}
    BY DEF a
<1> HIDE DEF r
<1>5. Holding(r) <=> Holding(a)
    BY <1>1, <1>3, <1>4 DEF Holding, OnTo, WaitPC, CyclePC, Same, Sort
<1>6. pc \notin {"push", "lock-check", "return"}
    BY <1>1, <1>4 DEF OnTo, WaitPC, Sort
<1>7. pc \in {"enroll", "add", "muid"} => a.pc \in {"enroll", "add"}
    BY <1>1, <1>4 DEF OnTo, WaitPC, Sort
<1>8. Plain(a, r)
    BY <1>3, <1>4, <1>5, <1>6, <1>7 DEF Plain, Same
<1> QED
    BY <1>2, <1>3, <1>8 DEF a

LEMMA PlainOutside ==
    ASSUME NEW a, NEW r, ~Holding(a), ~Holding(r), r.call \in {a.call, NoCall},
           r.pc \notin {"lock-check", "return", "enroll", "add", "muid"}
    PROVE  Plain(a, r)
BY DEF Plain, Holding, CyclePC

LEMMA IdleOutside ==
    ASSUME NEW w \in Workers, Becomes(w, Idle), ~Holding(wk[w])
    PROVE  /\ Plain(wk[w], Idle) /\ Idle.pc \notin {"free", "answer"}
           /\ \A n : ~Hears(wk'[w], n)
<1>1. Idle.pc = "idle" /\ Idle.call = NoCall /\ wk'[w] = Idle
    BY IdleIs DEF Becomes
<1>2. ~Holding(Idle)
    BY <1>1 DEF Holding, CyclePC, WaitPC
<1>3. Plain(wk[w], Idle)
    BY <1>1, <1>2, PlainOutside
<1> QED
    BY <1>1, <1>3 DEF Hears

(* A call that ends is not new. *)
LEMMA EndsNotNew ==
    ASSUME PlaceInv, NEW w \in Workers, NEW v, Return(w, v)
    PROVE  \A c \in Calls : stage'[c] = "new" => stage[c] = "new"
BY DEF PlaceInv, Called, Return

(* The steps of a worker that change its pc alone. *)
LEMMA MovesFrame ==
    ASSUME PlaceInv, NEW w \in Workers, NEW from, NEW pc, Goes(w, from, To(w, pc)),
           OnTo(wk[w], pc), from \notin {"push", "muid", "getresp", "free", "answer"},
           pc \notin {"find", "set", "answer", "free"},
           pc = "free-waiter" => Heard(wk[w].muid), ready' \subseteq ready,
           \A c \in Calls : stage'[c] = "new" => stage[c] = "new",
           UNCHANGED <<tasks, runner, queues, responses, atServer, accepted, dup, drawn>>
    PROVE  Frame(w)
<1>1. Becomes(w, To(w, pc)) /\ wk[w].pc = from
    BY GoesTo
<1>2. /\ Plain(wk[w], To(w, pc)) /\ wk'[w] = To(w, pc) /\ To(w, pc).pc = pc
      /\ Same(wk[w], To(w, pc))
    BY <1>1, PlainTo
<1>3. ASSUME NEW n, Hears(wk'[w], n) PROVE Heard(n)
    <2>1. pc \in {"free-waiter", "erase", "getresp"} /\ wk[w].muid = n
        BY <1>2, <1>3 DEF Hears, Same
    <2>2. CASE pc = "free-waiter"
        BY <2>1, <2>2
    <2>3. CASE pc # "free-waiter"
        <3>1. wk[w].then \in {"idle", "glance", "free-waiter", "collect"}
            BY WorkerAt DEF WorkerRec
        <3>2. wk[w].pc \in {"free-waiter", "erase"}
            BY <2>1, <2>3, <3>1 DEF OnTo, WaitPC, Sort
        <3>3. Hears(wk[w], n)
            BY <2>1, <3>2 DEF Hears
        <3> QED BY <3>3 DEF Heard
    <2> QED BY <2>2, <2>3
<1>4. Learns(w)
    BY <1>3 DEF Learns
<1> QED
    BY <1>1, <1>2, <1>4, FrameOf

LEMMA WaitsFrame ==
    ASSUME PlaceInv, NEW w \in Workers, WaitStep(w)
    PROVE  Frame(w)
<1>1. CASE Awake(w)
    <2> DEFINE pc == wk[w].then
    <2>1. /\ Goes(w, "wait", To(w, pc)) /\ wk[w].on \in ready /\ ready' \subseteq ready
          /\ wk[w].pc = "wait"
          /\ UNCHANGED <<tasks, runner, queues, ids, app, maps, users, env, got, stored>>
        BY <1>1 DEF Awake, Goes
    <2>2. OnTo(wk[w], pc)
        BY <2>1 DEF OnTo
    <2>3. GoodWait(wk[w])
        BY <2>1, WorkerAt DEF GoodWorker, WaitPC
    <2>4. pc \in {"glance", "free-waiter", "collect"}
        BY <2>3 DEF GoodWait
    <2>5. ASSUME pc = "free-waiter" PROVE Heard(wk[w].muid)
        <3>1. wk[w].on = Waiter(wk[w].call, wk[w].muid)
            BY <2>3, <2>5 DEF GoodWait
        <3>2. wk[w].on.what = "call" /\ wk[w].on.n = wk[w].muid
            BY <3>1 DEF Waiter
        <3> QED BY <2>1, <3>2 DEF Heard
    <2> HIDE DEF pc
    <2> QED BY <2>1, <2>2, <2>4, <2>5, MovesFrame
<1>2. CASE Doze(w) \/ Sleep(w) \/ SpuriousWake(w)
    <2>1. /\ \E pc \in WaitPC : Goes(w, wk[w].pc, To(w, pc))
          /\ wk[w].pc \in WaitPC
          /\ UNCHANGED <<tasks, runner, queues, ids, app, maps, users, ready, env, got, stored>>
        BY <1>2 DEF Doze, Sleep, SpuriousWake, Goes, WaitPC
    <2>2. PICK pc \in WaitPC : Goes(w, wk[w].pc, To(w, pc))
        BY <2>1
    <2>3. OnTo(wk[w], pc)
        BY <2>1 DEF OnTo
    <2> QED BY <2>1, <2>2, <2>3, MovesFrame DEF WaitPC
<1>3. CASE TimeOut(w)
    <2>1. /\ Becomes(w, Idle) /\ wk[w].pc = "asleep" /\ Return(w, {})
          /\ Op[wk[w].call].kind = "misc"
          /\ UNCHANGED <<tasks, runner, queues, ids, last_c_muids, cmuid, maps, users, ready, env,
                         stored>>
        BY <1>3, GoesTo DEF TimeOut
    <2>2. ~Holding(wk[w])
        <3>1. GoodWait(wk[w])
            BY <2>1, WorkerAt DEF GoodWorker, WaitPC
        <3> QED BY <2>1, <3>1 DEF GoodWait, Holding, CyclePC, SentKinds
    <2>3. Learns(w)
        BY <2>1, <2>2, IdleOutside, NothingLearnt
    <2> QED BY <2>1, <2>2, <2>3, IdleOutside, EndsNotNew, FrameOf
<1>4. CASE Lock(w)
    <2>1. /\ \E pc \in {"store", "check", "get"} :
                Goes(w, wk[w].pc, To(w, pc)) /\ OnTo(wk[w], pc)
          /\ wk[w].pc \in {"lock-store", "lock-check", "lock-get"}
          /\ UNCHANGED <<tasks, runner, queues, ids, app, maps, usr_responses, usr_waiters, ready,
                         env, got, stored>>
        BY <1>4 DEF Lock, Goes, OnTo
    <2>2. PICK pc \in {"store", "check", "get"} : Goes(w, wk[w].pc, To(w, pc)) /\ OnTo(wk[w], pc)
        BY <2>1
    <2> QED BY <2>1, <2>2, MovesFrame
<1> QED
    BY <1>1, <1>2, <1>3, <1>4 DEF WaitStep

LEMMA IdleFrame ==
    ASSUME PlaceInv, NEW w \in Workers, Becomes(w, Idle), ~Holding(wk[w]),
           \A x \in ready' : x.what = "call" => x \in ready \/ Heard(x.n),
           \A c \in Calls : stage'[c] = "new" => stage[c] = "new",
           UNCHANGED <<tasks, runner, queues, responses, atServer, accepted, dup, drawn>>
    PROVE  Frame(w)
<1>1. Learns(w)
    BY IdleOutside DEF Learns
<1> QED
    BY <1>1, IdleOutside, FrameOf

(* A worker outside its request cycle stays outside, and learns nothing.    *)
LEMMA OutsideFrame ==
    ASSUME PlaceInv, NEW w \in Workers, NEW r, Becomes(w, r), ~Holding(wk[w]), ~Holding(r),
           r.call \in {wk[w].call, NoCall},
           r.pc \notin {"lock-check", "return", "enroll", "add", "muid", "free", "answer", "find",
                       "set", "free-waiter", "erase", "getresp"},
           \A x \in ready' : x.what = "call" => x \in ready \/ Heard(x.n),
           \A c \in Calls : stage'[c] = "new" => stage[c] = "new",
           UNCHANGED <<tasks, runner, queues, responses, atServer, accepted, dup, drawn>>
    PROVE  Frame(w)
<1>1. wk'[w] = r
    BY DEF Becomes
<1>2. Plain(wk[w], r)
    BY PlainOutside
<1>3. Learns(w)
    BY <1>1 DEF Learns, Hears
<1> QED
    BY <1>2, <1>3, FrameOf

LEMMA PopsFrame ==
    ASSUME PlaceInv, NEW w \in Workers, Pop(w) \/ PopLast(w)
    PROVE  Frame(w)
<1> DEFINE a == wk[w]
           p == Head(readq)
<1>1. /\ UNCHANGED <<tasks, runner, writeq, dup, drawn, app, maps, users, ready, env, got, stored>>
      /\ readq' \in {readq, Tail(readq)} /\ Len(readq) >= 1
      /\ \E pc \in {"free", Sort(p)} : Goes(w, "pop", WithPkt(a, pc, p))
    <2>1. readq \in Seq(StatusMsg(drawn) \cup UserMsg)
        BY DEF PlaceInv, Queued
    <2> QED BY <2>1, PopIs, PopLastIs
<1>2. PICK pc \in {"free", Sort(p)} : Goes(w, "pop", WithPkt(a, pc, p))
    BY <1>1
<1> DEFINE r == WithPkt(a, pc, p)
<1>3. Becomes(w, r) /\ a.pc = "pop" /\ wk'[w] = r
    BY <1>2, GoesTo DEF Becomes
<1>4. readq # <<>> /\ p = readq[1] /\ 1 \in DOMAIN readq /\ readq \in Seq(StatusMsg(drawn) \cup UserMsg)
    BY <1>1 DEF PlaceInv, Queued
<1>5. p \in StatusMsg(drawn) \cup UserMsg /\ p \in Packet
    BY <1>4, HeadIs
<1>6. pc \in {"free", "answer", "lock-store"} /\ pc \in WorkerPC
    BY DEF Sort, WorkerPC
<1>7. a \in WorkerRec
    BY WorkerAt
<1>8. UNCHANGED <<tasks, runner, writeq, atServer, accepted, dup, drawn, stage, responses, ready>>
    BY <1>1
<1>9. \A i \in DOMAIN readq' : \E j \in DOMAIN readq : readq'[i] = readq[j]
    <2>1. CASE readq' = readq
        BY <2>1
    <2>2. CASE readq' = Tail(readq)
        <3>1. \A i \in DOMAIN readq' : i + 1 \in DOMAIN readq /\ readq'[i] = readq[i + 1]
            BY <1>4, <2>2
        <3> QED BY <3>1
    <2> QED BY <1>1, <2>1, <2>2
<1> HIDE DEF a, p
<1>10. r.pc = pc /\ Same(a, r) /\ r.pkt = p
    BY <1>5, <1>6, <1>7, WithPktIs
<1> HIDE DEF r
<1>11. ~Holding(a) /\ ~Holding(r)
    BY <1>3, <1>6, <1>10 DEF Holding, WaitPC, CyclePC
<1>12. Plain(wk[w], wk'[w])
    BY <1>3, <1>6, <1>10, <1>11, PlainOutside DEF Same, a
<1>13. Learns(w)
    BY <1>3, <1>6, <1>8, <1>10 DEF Learns, Hears
<1>14. \A n, k : Bears(wk'[w], n, k) => Reported(n, k)
    BY <1>3, <1>4, <1>10 DEF Bears, Reported
<1>15. \A n, k : Reported(n, k)' => Reported(n, k)
    BY <1>3, <1>8, <1>9, <1>14, ReportsLess
<1> QED
    BY <1>3, <1>8, <1>12, <1>13, <1>15 DEF Frame

LEMMA FreesFrame ==
    ASSUME PlaceInv, NEW w \in Workers, FreeRead(w)
    PROVE  Frame(w)
<1> DEFINE pc == Sort(wk[w].pkt)
           r == To(w, pc)
<1>1. /\ Goes(w, "free", r) /\ readq' = <<>>
      /\ UNCHANGED <<tasks, runner, writeq, ids, app, maps, users, ready, env, got, stored>>
    BY DEF FreeRead
<1>2. OnTo(wk[w], pc) /\ pc \in {"answer", "lock-store"}
    BY <1>1 DEF OnTo, Goes, Sort
<1> HIDE DEF pc
<1>3. Becomes(w, r) /\ wk[w].pc = "free"
    BY <1>1, GoesTo
<1>4. Plain(wk[w], r) /\ wk'[w] = r /\ r.pc = pc /\ Same(wk[w], r) /\ r.pkt = wk[w].pkt
    BY <1>2, <1>3, PlainTo
<1> HIDE DEF r
<1>5. Learns(w)
    BY <1>1, <1>2, <1>4 DEF Learns, Hears
<1>6. \A n, k : Bears(wk'[w], n, k) => Reported(n, k)
    BY <1>3, <1>4 DEF Bears, Reported
<1>7. \A n, k : Reported(n, k)' => Reported(n, k)
    BY <1>1, <1>3, <1>4, <1>6, ReportsLess
<1> QED
    BY <1>1, <1>3, <1>4, <1>5, <1>7 DEF Frame

LEMMA StoresAnswerFrame ==
    ASSUME PlaceInv, NEW w \in Workers, StoreAnswer(w)
    PROVE  Frame(w)
<1> DEFINE a == wk[w]
           p == a.pkt
           r == To(w, "find")
           f == Put(responses, p.num, p.code)
<1>1. /\ Goes(w, "answer", r) /\ responses' = f
      /\ UNCHANGED <<tasks, runner, queues, ids, app, cnd_responses, users, ready, env, got,
                     stored>>
    BY DEF StoreAnswer
<1>2. Becomes(w, r) /\ a.pc = "answer"
    BY <1>1, GoesTo
<1>3. OnTo(a, "find")
    BY <1>2 DEF OnTo
<1>4. Plain(a, r) /\ wk'[w] = r /\ r.pc = "find" /\ Same(a, r) /\ r.pkt = p
    BY <1>2, <1>3, PlainTo
<1>5. p.kind = "status"
    BY <1>2, WorkerAt DEF GoodWorker, AnswerPC, StatusMsg
<1>6. /\ DOMAIN f = DOMAIN responses \cup {p.num} /\ f[p.num] = p.code
      /\ \A n \in DOMAIN responses \ {p.num} : f[n] = responses[n]
    BY DEF Put
<1> HIDE DEF r, f
<1>7. Learns(w)
    BY <1>1, <1>4, <1>6 DEF Learns, Hears
<1>8. \A n, k : Reported(n, k)' => Reported(n, k)
    <2> TAKE n, k
    <2> HAVE Reported(n, k)'
    <2>1. ASSUME NEW v \in Workers, Bears(wk'[v], n, k) PROVE Reported(n, k)
        <3>1. v # w
            BY <1>4, <2>1 DEF Bears
        <3>2. Bears(wk[v], n, k)
            BY <1>2, <1>4, <2>1, <3>1, OthersStay DEF Stays
        <3> QED BY <3>2 DEF Reported
    <2>2. ASSUME n \in DOMAIN f, f[n] = k PROVE Reported(n, k)
        <3>1. CASE n = p.num
            BY <1>2, <1>5, <1>6, <2>2, <3>1 DEF Bears, Reported
        <3>2. CASE n # p.num
            BY <1>6, <2>2, <3>2 DEF Reported
        <3> QED BY <3>1, <3>2
    <2>3. ASSUME NEW i \in DOMAIN readq, readq[i].kind = "status", readq[i].num = n,
                 readq[i].code = k
          PROVE  Reported(n, k)
        BY <2>3 DEF Reported
    <2> QED BY <1>1, <2>1, <2>2, <2>3 DEF Reported
<1> QED
    BY <1>1, <1>2, <1>4, <1>6, <1>7, <1>8 DEF Frame

LEMMA FindsFrame ==
    ASSUME PlaceInv, NEW w \in Workers, FindWaiter(w)
    PROVE  Frame(w)
<1> DEFINE a == wk[w]
           p == a.pkt
<1>1. /\ a.pc = "find"
      /\ UNCHANGED <<tasks, runner, queues, ids, app, maps, users, ready, env, got, stored>>
    BY DEF FindWaiter, Goes
<1>2. ~Holding(a)
    BY <1>1 DEF Holding, WaitPC, CyclePC
<1>3. CASE p.num \notin DOMAIN cnd_responses
    <2>1. Goes(w, "find", Idle)
        BY <1>3 DEF FindWaiter
    <2>2. Becomes(w, Idle)
        BY <2>1, GoesTo
    <2> QED BY <1>1, <1>2, <2>2, IdleFrame
<1>4. CASE p.num \in DOMAIN cnd_responses
    <2> DEFINE x == cnd_responses[p.num]
               pc == "set"
               r == WithOn(a, pc, x)
    <2>1. Goes(w, "find", r)
        BY <1>4 DEF FindWaiter, WithOn
    <2>2. Becomes(w, r) /\ wk'[w] = r
        BY <2>1, GoesTo DEF Becomes
    <2>3. x \in Waiters
        BY <1>4 DEF PlaceInv, Waited
    <2>4. a \in WorkerRec /\ pc \in WorkerPC /\ pc = "set"
        BY WorkerAt DEF WorkerPC
    <2> HIDE DEF x, pc, a
    <2>5. r.pc = pc /\ Same(a, r) /\ r.pkt = a.pkt
        BY <2>3, <2>4, WithOnIs
    <2> HIDE DEF r
    <2>6. ~Holding(r)
        BY <2>4, <2>5 DEF Holding, WaitPC, CyclePC
    <2>7. Plain(wk[w], r)
        BY <1>2, <2>4, <2>5, <2>6, PlainOutside DEF Same, a
    <2>8. Learns(w)
        <3>1. \A n : Hears(wk'[w], n) => Hears(wk[w], n)
            BY <1>1, <2>2, <2>4, <2>5 DEF Hears, a
        <3> QED BY <1>1, <3>1, NothingLearnt
    <2> QED BY <1>1, <2>2, <2>4, <2>5, <2>7, <2>8, FrameOf
<1> QED
    BY <1>3, <1>4

LEMMA SetsFrame ==
    ASSUME PlaceInv, NEW w \in Workers, SetAnswered(w)
    PROVE  Frame(w)
<1> DEFINE a == wk[w]
           pc == "cast"
<1>1. PICK x \in Targets(w) : Goes(w, "set", WithOn(a, pc, x)) /\ ready' = ready \cup {x}
    BY SetAnsweredIs
<1>2. UNCHANGED <<tasks, runner, queues, ids, app, maps, users, env, got, stored>>
    BY SetAnsweredIs
<1> DEFINE r == WithOn(a, pc, x)
<1>3. Becomes(w, r) /\ a.pc = "set"
    BY <1>1, GoesTo
<1>4. x \in Waiters /\ x.n = a.pkt.num
    BY <1>3, TargetsAre
<1>5. Heard(a.pkt.num)
    BY <1>3 DEF Heard, Hears
<1>6. \A y \in ready' : y.what = "call" => y \in ready \/ Heard(y.n)
    BY <1>1, <1>4, <1>5
<1>7. a \in WorkerRec /\ pc \in WorkerPC /\ pc = "cast"
    BY WorkerAt DEF WorkerPC
<1> HIDE DEF pc, a
<1>8. r.pc = pc /\ Same(a, r)
    BY <1>4, <1>7, WithOnIs
<1> HIDE DEF r
<1>9. ~Holding(a) /\ ~Holding(r)
    BY <1>3, <1>7, <1>8 DEF Holding, WaitPC, CyclePC
<1> QED
    BY <1>2, <1>3, <1>6, <1>7, <1>8, <1>9, OutsideFrame DEF Same, a

(* A worker that comes to its end in freed memory. *)
LEMMA LostFrame ==
    ASSUME PlaceInv, NEW w \in Workers, NEW from \in {"cast", "take"},
           Goes(w, from, To(w, "lost")),
           UNCHANGED <<tasks, runner, queues, responses, ready, stage, atServer, accepted, dup,
                       drawn>>
    PROVE  Frame(w)
<1>1. wk[w].pc = from
    BY DEF Goes
<1>2. OnTo(wk[w], "lost")
    BY <1>1 DEF OnTo
<1> QED
    BY <1>2, MovesFrame

LEMMA CastsFrame ==
    ASSUME PlaceInv, NEW w \in Workers, CastAnswered(w) \/ CastFreed(w)
    PROVE  Frame(w)
<1>1. /\ UNCHANGED <<tasks, runner, queues, ids, app, maps, users, ready, env, got, stored>>
      /\ wk[w].pc = "cast"
    BY DEF CastAnswered, CastFreed, Goes
<1>2. Becomes(w, Idle) \/ Goes(w, "cast", To(w, "lost"))
    <2>1. CASE CastAnswered(w)
        BY <2>1, CastsTo DEF CastAnswered
    <2>2. CASE CastFreed(w)
        BY <2>2, GoesTo DEF CastFreed
    <2> QED BY <2>1, <2>2
<1>3. ~Holding(wk[w])
    BY <1>1 DEF Holding, WaitPC, CyclePC
<1> QED
    BY <1>1, <1>2, <1>3, IdleFrame, LostFrame

(* What a handler does after it has set a peer's waiter, or found none.     *)
LEMMA AfterWakeFrame ==
    ASSUME PlaceInv, NEW w \in Workers, wk[w].pc \in {"wake", "wake-user"},
           Becomes(w, AfterWake(w)), \A x \in ready' : x.what = "call" => x \in ready,
           UNCHANGED <<tasks, runner, queues, responses, stage, atServer, accepted, dup, drawn>>
    PROVE  Frame(w)
<1>1. ~Holding(wk[w])
    BY DEF Holding, WaitPC, CyclePC
<1>2. CASE wk[w].pkt.kind = "request"
    <2> DEFINE r == To(w, "wake-any")
    <2>1. Becomes(w, r) /\ OnTo(wk[w], "wake-any")
        BY <1>2 DEF AfterWake, OnTo
    <2>2. Plain(wk[w], r) /\ wk'[w] = r /\ r.pc = "wake-any"
        BY <2>1, PlainTo
    <2> HIDE DEF r
    <2>3. \A n : Hears(wk'[w], n) => Hears(wk[w], n)
        BY <2>2 DEF Hears
    <2> QED BY <2>1, <2>2, <2>3, NothingLearnt, FrameOf
<1>3. CASE wk[w].pkt.kind # "request"
    BY <1>1, <1>3, IdleFrame DEF AfterWake
<1> QED
    BY <1>2, <1>3

LEMMA WakesFrame ==
    ASSUME PlaceInv, NEW w \in Workers,
           WakeNobody(w) \/ FindUser(w) \/ WakeUser(w) \/ WakeAny(w)
    PROVE  Frame(w)
<1>1. /\ UNCHANGED <<tasks, runner, queues, ids, app, maps, users, env, got, stored>>
      /\ wk[w].pc \in {"wake", "wake-user", "wake-any"}
    BY DEF WakeNobody, FindUser, WakeUser, WakeAny, Goes
<1>2. ~Holding(wk[w])
    BY <1>1 DEF Holding, WaitPC, CyclePC
<1>3. CASE WakeNobody(w)
    <2>1. Becomes(w, AfterWake(w)) /\ wk[w].pc = "wake" /\ ready' = ready
        BY <1>3, GoesTo DEF WakeNobody
    <2> QED BY <1>1, <2>1, AfterWakeFrame
<1>4. CASE FindUser(w)
    <2> DEFINE a == wk[w]
               u == a.pkt.from
               pc == "wake-user"
    <2>1. PICK x \in {ReqWaiter(u), RespWaiter(u)} : Goes(w, "wake", WithOn(a, pc, x))
        BY <1>4, FindUserIs
    <2> DEFINE r == WithOn(a, pc, x)
    <2>2. Becomes(w, r) /\ a.pc = "wake" /\ ready' = ready
        BY <1>4, <2>1, GoesTo, FindUserIs
    <2>3. a.pkt \in UserMsg
        BY <2>2, WorkerAt DEF GoodWorker, StorePC
    <2>4. u \in Uids /\ usr_waiters[u] \in Nat
        BY <2>3 DEF UserMsg, Requests, PlaceInv, Users
    <2>5. x \in Waiters
        BY <2>4 DEF ReqWaiter, RespWaiter, Waiters
    <2>6. a \in WorkerRec /\ pc \in WorkerPC /\ pc = "wake-user"
        BY WorkerAt DEF WorkerPC
    <2> HIDE DEF pc, a
    <2>7. r.pc = pc /\ Same(a, r)
        BY <2>5, <2>6, WithOnIs
    <2> HIDE DEF r
    <2>8. ~Holding(r)
        BY <2>6, <2>7 DEF Holding, WaitPC, CyclePC
    <2> QED BY <1>1, <1>2, <2>2, <2>6, <2>7, <2>8, OutsideFrame DEF Same, a
<1>5. CASE WakeUser(w)
    <2>1. SetWaiter(w, wk[w].on, AfterWake(w)) /\ wk[w].pc = "wake-user"
        BY <1>5 DEF WakeUser
    <2>2. Becomes(w, AfterWake(w)) /\ ready' = ready \cup {wk[w].on}
        BY <2>1, SetsTo
    <2>3. wk[w].on.what # "call"
        BY <2>1, WorkerAt DEF GoodWorker
    <2> QED BY <1>1, <2>1, <2>2, <2>3, AfterWakeFrame
<1>6. CASE WakeAny(w)
    <2>1. SetWaiter(w, AnyWaiter, Idle)
        BY <1>6 DEF WakeAny
    <2>2. Becomes(w, Idle) /\ ready' = ready \cup {AnyWaiter}
        BY <2>1, SetsTo
    <2>3. \A y \in ready' : y.what = "call" => y \in ready
        BY <2>2 DEF AnyWaiter
    <2> QED BY <1>1, <1>2, <2>2, <2>3, IdleFrame
<1> QED
    BY <1>3, <1>4, <1>5, <1>6

LEMMA MessagesFrame ==
    ASSUME PlaceInv, NEW w \in Workers, MessageStep(w)
    PROVE  Frame(w)
<1>1. CASE PopNone(w)
    <2>1. /\ Becomes(w, Idle) /\ wk[w].pc = "pop"
          /\ UNCHANGED <<tasks, runner, queues, ids, app, maps, users, ready, env, got, stored>>
        BY <1>1, GoesTo DEF PopNone
    <2>2. ~Holding(wk[w])
        BY <2>1 DEF Holding, WaitPC, CyclePC
    <2> QED BY <2>1, <2>2, IdleFrame
<1>2. CASE StoreKnown(w) \/ MakeUser(w) \/ StoreNew(w)
    <2>1. /\ \E pc \in {"insert", "wake"} : Goes(w, wk[w].pc, To(w, pc)) /\ OnTo(wk[w], pc)
          /\ wk[w].pc \in {"store", "insert"}
          /\ UNCHANGED <<tasks, runner, queues, ids, app, maps, ready, env, got>>
        BY <1>2 DEF StoreKnown, MakeUser, StoreNew, StoreIn, Goes, OnTo
    <2>2. PICK pc \in {"insert", "wake"} : Goes(w, wk[w].pc, To(w, pc)) /\ OnTo(wk[w], pc)
        BY <2>1
    <2> QED BY <2>1, <2>2, MovesFrame
<1> QED
    BY <1>1, <1>2, PopsFrame, FreesFrame, StoresAnswerFrame, FindsFrame, SetsFrame, CastsFrame,
       WakesFrame DEF MessageStep

LEMMA StepsFrame ==
    ASSUME PlaceInv, NEW w \in Workers,
           \/ Enroll(w) \/ AddWaiters(w) \/ Increment(w) \/ FreeWaiter(w) \/ EraseWaiter(w)
           \/ CheckFound(w) \/ CheckNone(w)
    PROVE  Frame(w)
<1>1. /\ \E pc \in {"muid", "add", "register", "erase", "getresp", "collect", "seek"} :
            Goes(w, wk[w].pc, To(w, pc)) /\ OnTo(wk[w], pc)
      /\ wk[w].pc \in {"enroll", "add", "increment", "free-waiter", "erase", "check"}
    BY DEF Enroll, AddWaiters, Increment, FreeWaiter, EraseWaiter, CheckFound, CheckNone, Goes,
           OnTo
<1>2. UNCHANGED <<tasks, runner, queues, app, env, got, stored, dup, drawn, responses, ready>>
    BY DEF Enroll, AddWaiters, Increment, FreeWaiter, EraseWaiter, CheckFound, CheckNone,
           Unchanged
<1>3. PICK pc \in {"muid", "add", "register", "erase", "getresp", "collect", "seek"} :
          Goes(w, wk[w].pc, To(w, pc)) /\ OnTo(wk[w], pc)
    BY <1>1
<1> QED
    BY <1>1, <1>2, <1>3, MovesFrame

(* The worker reads last_muid; what it has drawn it keeps. *)
LEMMA ReadsFrame ==
    ASSUME PlaceInv, NEW w \in Workers, ReadMuid(w)
    PROVE  Frame(w)
<1> DEFINE a == wk[w]
           n == last_muid
           pc == "increment"
           r == WithSeen(a, pc, n)
<1>1. /\ Goes(w, "read", r)
      /\ UNCHANGED <<tasks, runner, queues, app, env, got, stored, ids, maps, users, ready>>
    BY ReadMuidIs
<1>2. Becomes(w, r) /\ a.pc = "read" /\ wk'[w] = r
    BY <1>1, GoesTo DEF Becomes
<1>3. a \in WorkerRec /\ n \in Nat /\ pc \in WorkerPC /\ pc = "increment"
    BY WorkerAt DEF PlaceInv, Numbers, WorkerPC
<1> HIDE DEF n, pc, a
<1>4. r.pc = pc /\ Same(a, r)
    BY <1>3, WithSeenIs
<1> HIDE DEF r
<1>5. Plain(wk[w], r)
    BY <1>2, <1>3, <1>4 DEF Plain, Holding, WaitPC, CyclePC, Same, a
<1>6. Learns(w)
    <2>1. \A i : Hears(wk'[w], i) => Hears(wk[w], i)
        BY <1>2, <1>3, <1>4 DEF Hears
    <2> QED BY <1>1, <2>1, NothingLearnt
<1> QED
    BY <1>1, <1>2, <1>3, <1>4, <1>5, <1>6, FrameOf

LEMMA RegistersFrame ==
    ASSUME PlaceInv, NEW w \in Workers, Register(w)
    PROVE  Frame(w)
<1> DEFINE a == wk[w]
           x == Waiter(a.call, a.muid)
           then == "free-waiter"
           r == Waiting(a, x, then)
<1>1. /\ Goes(w, "register", r)
      /\ UNCHANGED <<tasks, runner, queues, app, env, got, stored, ids, responses, users, ready>>
    BY RegisterIs
<1>2. Becomes(w, r) /\ a.pc = "register" /\ wk'[w] = r
    BY <1>1, GoesTo DEF Becomes
<1>3. a \in WorkerRec /\ a.call \in Calls
    BY <1>2, WorkerAt, SenderIs DEF SendPC, CyclePC
<1>4. x \in Waiters /\ then \in {"free-waiter", "collect"} /\ then = "free-waiter"
    BY <1>3, WaiterIs
<1> HIDE DEF x, then, a
<1>5. r.pc = "wait" /\ r.call = a.call /\ r.muid = a.muid /\ r.then = then
    BY <1>3, <1>4, WaitingIs
<1> HIDE DEF r
<1>6. Plain(wk[w], r)
    BY <1>2, <1>4, <1>5 DEF Plain, Holding, WaitPC, CyclePC, a
<1>7. Learns(w)
    <2>1. \A n : Hears(wk'[w], n) => Hears(wk[w], n)
        BY <1>2, <1>5 DEF Hears
    <2> QED BY <1>1, <2>1, NothingLearnt
<1> QED
    BY <1>1, <1>2, <1>5, <1>6, <1>7, FrameOf

LEMMA SeeksFrame ==
    ASSUME PlaceInv, NEW w \in Workers, Seek(w)
    PROVE  Frame(w)
<1> DEFINE a == wk[w]
           x == RespWaiter(Peer(w))
           then == "collect"
           r == Waiting(a, x, then)
<1>1. /\ Goes(w, "seek", r)
      /\ UNCHANGED <<tasks, runner, queues, app, env, got, stored, ids, maps, users, ready>>
    BY SeekIs
<1>2. Becomes(w, r) /\ a.pc = "seek"
    BY <1>1, GoesTo
<1>3. a \in WorkerRec /\ Peer(w) \in Uids
    BY <1>2, WorkerAt, PeerIs DEF RequestPC
<1>4. x \in Waiters /\ then \in {"free-waiter", "collect"} /\ then = "collect"
    BY <1>3 DEF RespWaiter, Waiters, PlaceInv, Users
<1> HIDE DEF x, then, a
<1>5. r.pc = "wait" /\ r.call = a.call /\ r.then = then
    BY <1>3, <1>4, WaitingIs
<1> HIDE DEF r
<1>6. ~Holding(a) /\ ~Holding(r)
    BY <1>2, <1>4, <1>5 DEF Holding, WaitPC, CyclePC
<1> QED
    BY <1>1, <1>2, <1>5, <1>6, OutsideFrame DEF a

(* The response of the addressee, found and taken. *)
LEMMA CarriesFrame ==
    ASSUME PlaceInv, NEW w \in Workers, NEW from \in {"collect", "take"},
           NEW pc \in {"take", "leave"}, NEW p \in Packet, Goes(w, from, WithPkt(wk[w], pc, p)),
           UNCHANGED <<tasks, runner, queues, responses, ready, stage, atServer, accepted, dup,
                       drawn>>
    PROVE  Frame(w)
<1> DEFINE a == wk[w]
           r == WithPkt(a, pc, p)
<1>1. Becomes(w, r) /\ a.pc = from
    BY GoesTo
<1>2. a \in WorkerRec /\ pc \in WorkerPC
    BY WorkerAt DEF WorkerPC
<1> HIDE DEF a
<1>3. r.pc = pc /\ Same(a, r)
    BY <1>2, WithPktIs
<1> HIDE DEF r
<1>4. ~Holding(a) /\ ~Holding(r)
    BY <1>1, <1>3 DEF Holding, WaitPC, CyclePC
<1> QED
    BY <1>1, <1>3, <1>4, OutsideFrame DEF Same, a

LEMMA TakesFrame ==
    ASSUME PlaceInv, NEW w \in Workers, Collect(w) \/ TakeResponse(w)
    PROVE  Frame(w)
<1>1. CASE Collect(w)
    <2> DEFINE p == Present(w)
    <2>1. PICK pc \in {"take", "leave"} : Goes(w, "collect", WithPkt(wk[w], pc, p))
        BY <1>1, CollectIs
    <2>2. UNCHANGED <<tasks, runner, queues, app, env, got, stored, ids, maps, users, ready>>
        BY <1>1, CollectIs
    <2>3. wk[w].pc \in RequestPC
        BY <2>1 DEF Goes, RequestPC
    <2>4. p \in Packet
        BY <2>3, PresentIs
    <2> HIDE DEF p
    <2> QED BY <2>1, <2>2, <2>4, CarriesFrame
<1>2. CASE TakeResponse(w)
    <2>1. /\ wk[w].pc = "take"
          /\ UNCHANGED <<tasks, runner, queues, app, env, got, stored, ids, maps, ready>>
          /\ \/ \E p \in {wk[w].pkt, Present(w)} : Goes(w, "take", WithPkt(wk[w], "leave", p))
             \/ Goes(w, "take", To(w, "leave"))
             \/ Goes(w, "take", To(w, "lost"))
        BY <1>2, TakeResponseIs
    <2>2. CASE \E p \in {wk[w].pkt, Present(w)} : Goes(w, "take", WithPkt(wk[w], "leave", p))
        <3>1. PICK p \in {wk[w].pkt, Present(w)} : Goes(w, "take", WithPkt(wk[w], "leave", p))
            BY <2>2
        <3>2. p \in Packet
            BY <2>1, PresentIs, WorkerAt DEF RequestPC
        <3> QED BY <2>1, <3>1, <3>2, CarriesFrame
    <2>3. CASE Goes(w, "take", To(w, "leave"))
        <3>1. OnTo(wk[w], "leave")
            BY <2>1 DEF OnTo
        <3> QED BY <2>1, <2>3, <3>1, MovesFrame
    <2>4. CASE Goes(w, "take", To(w, "lost"))
        BY <2>1, <2>4, LostFrame
    <2> QED BY <2>1, <2>2, <2>3, <2>4
<1> QED
    BY <1>1, <1>2

(* The steps with which a call ends. *)
LEMMA EndsFrame ==
    ASSUME PlaceInv, NEW w \in Workers, NEW v, Goes(w, wk[w].pc, Idle), Return(w, v),
           wk[w].pc \in {"return", "leave", "lookup", "get"},
           UNCHANGED <<tasks, runner, queues, ids, responses, ready, env>>
    PROVE  Frame(w)
<1>1. Becomes(w, Idle)
    BY GoesTo
<1>2. ~Holding(wk[w])
    BY DEF Holding, WaitPC, CyclePC
<1> QED
    BY <1>1, <1>2, EndsNotNew, IdleFrame

LEMMA EndingsFrame ==
    ASSUME PlaceInv, NEW w \in Workers, ReturnSent(w) \/ Leave(w) \/ GatherNobody(w)
    PROVE  Frame(w)
<1>1. /\ Goes(w, wk[w].pc, Idle) /\ wk[w].pc \in {"return", "leave", "lookup"}
      /\ UNCHANGED <<tasks, runner, queues, ids, responses, ready, env>>
    BY LeaveIs DEF ReturnSent, GatherNobody, Goes
<1>2. \E v : Return(w, v)
    BY LeaveIs DEF ReturnSent, GatherNobody
<1> QED
    BY <1>1, <1>2, EndsFrame

LEMMA GathersFrame ==
    ASSUME PlaceInv, NEW w \in Workers, GatherStep(w)
    PROVE  Frame(w)
<1>1. CASE GatherNobody(w)
    BY <1>1, EndingsFrame
<1>2. CASE GatherFrom(w)
    <2> DEFINE a == wk[w]
               x == ReqWaiter(Peer(w))
               pc == "wait"
               r == WithOn(a, pc, x)
    <2>1. /\ Goes(w, "lookup", r)
          /\ UNCHANGED <<tasks, runner, queues, app, env, got, stored, ids, maps, users, ready>>
        BY <1>2, GatherFromIs
    <2>2. Becomes(w, r) /\ a.pc = "lookup" /\ wk'[w] = r
        BY <2>1, GoesTo DEF Becomes
    <2>3. a \in WorkerRec /\ Peer(w) \in Uids /\ a.then = "glance"
        BY <2>2, WorkerAt, GathererIs DEF GatherPC
    <2>4. x \in Waiters /\ pc \in WorkerPC /\ pc = "wait"
        BY <2>3 DEF ReqWaiter, Waiters, PlaceInv, Users, WorkerPC
    <2> HIDE DEF x, pc, a
    <2>5. r.pc = pc /\ Same(a, r)
        BY <2>3, <2>4, WithOnIs
    <2> HIDE DEF r
    <2>6. ~Holding(a) /\ ~Holding(r)
        BY <2>2, <2>3, <2>4, <2>5 DEF Holding, WaitPC, CyclePC, Same
    <2>7. Plain(wk[w], r)
        BY <2>4, <2>5, <2>6, PlainOutside DEF a, Same
    <2>8. Learns(w)
        <3>1. \A n : Hears(wk'[w], n) => Hears(wk[w], n)
            BY <2>2, <2>4, <2>5 DEF Hears
        <3> QED BY <2>1, <3>1, NothingLearnt
    <2> QED BY <2>1, <2>2, <2>4, <2>5, <2>7, <2>8, FrameOf
<1>3. ASSUME NEW t \in SUBSET Uids, NEW from \in {"glance", "get"},
             Goes(w, from, WithTodo(wk[w], "lock-get", t)),
             UNCHANGED <<tasks, runner, queues, stage, env, ids, maps, ready>>
      PROVE  Frame(w)
    <2> DEFINE a == wk[w]
               pc == "lock-get"
               r == WithTodo(a, pc, t)
    <2>1. Becomes(w, r) /\ a.pc = from /\ wk'[w] = r
        BY <1>3, GoesTo DEF Becomes
    <2>2. a \in WorkerRec /\ pc \in WorkerPC /\ pc = "lock-get"
        BY WorkerAt DEF WorkerPC
    <2> HIDE DEF pc, a
    <2>3. r.pc = pc /\ Same(a, r)
        BY <2>2, WithTodoIs
    <2> HIDE DEF r
    <2>4. ~Holding(a) /\ ~Holding(r)
        BY <2>1, <2>2, <2>3 DEF Holding, WaitPC, CyclePC
    <2>5. Plain(wk[w], r)
        BY <2>2, <2>3, <2>4, PlainOutside DEF a, Same
    <2>6. Learns(w)
        <3>1. \A n : Hears(wk'[w], n) => Hears(wk[w], n)
            BY <2>1, <2>2, <2>3 DEF Hears
        <3> QED BY <1>3, <3>1, NothingLearnt
    <2> QED BY <1>3, <2>1, <2>2, <2>3, <2>5, <2>6, FrameOf
<1>4. CASE Glance(w)
    <2>1. PICK t \in {{Peer(w)}, DOMAIN usr_responses} :
             /\ Goes(w, "glance", WithTodo(wk[w], "lock-get", t))
             /\ t = DOMAIN usr_responses \/ Op[wk[w].call].kind = "gather"
        BY <1>4, GlanceIs
    <2>2. wk[w].pc = "glance"
        BY <2>1 DEF Goes
    <2>3. t \in SUBSET Uids
        BY <2>1, <2>2, GathererIs DEF GatherPC, PlaceInv, Users
    <2>4. UNCHANGED <<tasks, runner, queues, app, env, got, stored, ids, maps, users, ready>>
        BY <1>4, GlanceIs
    <2> QED BY <1>3, <2>1, <2>3, <2>4
<1>5. ASSUME NEW u \in Uids, GetFrom(w, u) PROVE Frame(w)
    <2>1. /\ Goes(w, wk[w].pc, Idle) /\ wk[w].pc = "get" /\ \E v : Return(w, v)
          /\ UNCHANGED <<tasks, runner, queues, ids, responses, ready, env>>
        BY <1>5, GetFromIs DEF Goes
    <2> QED BY <2>1, EndsFrame
<1>6. ASSUME NEW u \in Uids, GetNone(w, u) PROVE Frame(w)
    <2> DEFINE t == wk[w].todo \ {u}
    <2>1. UNCHANGED <<tasks, runner, queues, ids, maps, ready, env>>
        BY <1>6, GetNoneIs
    <2>2. CASE Goes(w, "get", Idle) /\ Return(w, {})
        <3>1. Goes(w, wk[w].pc, Idle) /\ wk[w].pc = "get"
            BY <2>2 DEF Goes
        <3> QED BY <2>1, <2>2, <3>1, EndsFrame
    <2>3. CASE Goes(w, "get", WithTodo(wk[w], "lock-get", t)) /\ UNCHANGED <<stage, got>>
        <3>1. t \in SUBSET Uids
            BY WorkerAt
        <3> QED BY <1>3, <2>1, <2>3, <3>1
    <2> QED BY <1>6, <2>2, <2>3, GetNoneIs
<1> QED
    BY <1>1, <1>2, <1>4, <1>5, <1>6 DEF GatherStep

-----------------------------------------------------------------------------
(* The steps by which a call begins, sends its packet and ends its cycle.   *)

LEMMA ReportedDrawn ==
    ASSUME PlaceInv, NEW n, NEW k, Reported(n, k)
    PROVE  n \in drawn
<1>1. \A D, p : p \in StatusMsg(D) \cup UserMsg /\ p.kind = "status" => p.num \in D
    BY DEF StatusMsg, UserMsg, Requests
<1>2. ASSUME NEW i \in DOMAIN readq, readq[i].kind = "status", readq[i].num = n
      PROVE  n \in drawn
    <2>1. readq[i] \in StatusMsg(drawn) \cup UserMsg
        BY DEF PlaceInv, Queued
    <2> QED BY <1>1, <1>2, <2>1
<1>3. ASSUME NEW w \in Workers, Bears(wk[w], n, k) PROVE n \in drawn
    <2>1. wk[w].pkt \in StatusMsg(drawn) \cup UserMsg
        BY <1>3, WorkerAt DEF GoodWorker, Bears, AnswerPC
    <2> QED BY <1>1, <1>3, <2>1 DEF Bears
<1>4. n \in DOMAIN responses => n \in drawn
    BY DEF PlaceInv, Answers
<1> QED
    BY <1>2, <1>3, <1>4 DEF Reported

LEMMA HeardDrawn ==
    ASSUME PlaceInv, NEW n, Heard(n)
    PROVE  n \in drawn
<1>1. ASSUME NEW w \in Workers, Hears(wk[w], n) PROVE n \in drawn
    <2>1. GoodWorker(wk[w], drawn)
        BY WorkerAt
    <2>2. CASE wk[w].pc \in {"find", "set"} /\ wk[w].pkt.num = n
        BY <2>1, <2>2 DEF GoodWorker, AnswerPC, StatusMsg
    <2>3. CASE wk[w].pc \in {"free-waiter", "erase", "getresp"} /\ wk[w].muid = n
        BY <2>1, <2>3 DEF GoodWorker, Holding, CyclePC
    <2> QED BY <1>1, <2>2, <2>3 DEF Hears
<1> QED
    BY <1>1 DEF Heard, PlaceInv, Set

LEMMA HoldingDrawn ==
    ASSUME PlaceInv, NEW w \in Workers, Holding(wk[w])
    PROVE  wk[w].muid \in drawn /\ wk[w].call \in Calls
<1>1. GoodWorker(wk[w], drawn)
    BY WorkerAt
<1>2. wk[w].pc \notin {"idle", "lost"} \cup MessagePC
    BY DEF Holding, WaitPC, CyclePC, MessagePC, AnswerPC, StorePC
<1> QED
    BY <1>1, <1>2 DEF GoodWorker

(* How a worker begins. *)
LEMMA TakeIs ==
    ASSUME PlaceInv, NEW w \in Workers, Take(w)
    PROVE  /\ tasks # <<>> /\ tasks' = Tail(tasks) /\ wk[w].pc = "idle"
           /\ UNCHANGED <<runner, queues, ids, app, maps, users, ready, env, got, stored>>
           /\ Becomes(w, wk'[w]) /\ wk'[w].pc \in {"pop", "enroll", "muid", "lookup", "wait"}
           /\ ~Holding(wk'[w])
           /\ \/ Head(tasks) = OnMessage /\ wk'[w].call = NoCall /\ wk'[w].pc = "pop"
              \/ Head(tasks) \in Calls /\ wk'[w].call = Head(tasks)
<1>1. /\ tasks # <<>> /\ tasks' = Tail(tasks) /\ wk[w].pc = "idle"
      /\ UNCHANGED <<runner, queues, ids, app, maps, users, ready, env, got, stored>>
    BY DEF Take, Goes
<1>2. Head(tasks) \in Calls \cup {OnMessage}
    BY <1>1 DEF PlaceInv, Queued
<1>3. CASE Head(tasks) = OnMessage
    <2>1. Goes(w, "idle", To(w, "pop"))
        BY <1>3 DEF Take
    <2>2. Becomes(w, To(w, "pop")) /\ wk'[w] = To(w, "pop")
        BY <2>1, GoesTo DEF Becomes
    <2>3. wk[w] = Idle
        BY <1>1, WorkerAt DEF GoodWorker
    <2>4. "pop" \in WorkerPC
        BY DEF WorkerPC
    <2>5. wk'[w].pc = "pop" /\ wk'[w].call = NoCall
        BY <2>2, <2>3, <2>4, ToIs, IdleIs DEF To, Same
    <2>6. ~Holding(wk'[w])
        BY <2>5 DEF Holding, WaitPC, CyclePC
    <2> QED BY <1>1, <1>3, <2>2, <2>5, <2>6
<1>4. CASE Head(tasks) # OnMessage
    <2> DEFINE c == Head(tasks)
               pc == FirstStep(c)
               s == Began(pc, c)
    <2>1. c \in Calls
        BY <1>2, <1>4
    <2>2. Goes(w, "idle", s)
        BY <1>4 DEF Take, Began
    <2>3. Becomes(w, s) /\ wk'[w] = s
        BY <2>2, GoesTo DEF Becomes
    <2>4. pc \in {"enroll", "muid", "lookup", "wait"}
        <3>1. Op[c].kind \in Kinds
            BY <2>1, OpAssumption
        <3> QED BY <3>1 DEF Kinds, FirstStep
    <2> HIDE DEF pc, c
    <2>5. pc \in WorkerPC
        BY <2>4 DEF WorkerPC
    <2>6. s.pc = pc /\ s.call = c /\ s.then = "glance"
        BY <2>1, <2>5, BeganIs
    <2> HIDE DEF s
    <2>7. ~Holding(s)
        BY <2>4, <2>6 DEF Holding, WaitPC, CyclePC
    <2> QED BY <1>1, <2>1, <2>3, <2>4, <2>6, <2>7 DEF c
<1> QED
    BY <1>3, <1>4

LEMMA TakesCall ==
    ASSUME PlaceInv, CallInv, NEW w \in Workers, Take(w)
    PROVE  CallInv'
<1> DEFINE t == Head(tasks)
<1>1. /\ tasks # <<>> /\ tasks' = Tail(tasks) /\ wk[w].pc = "idle"
      /\ UNCHANGED <<runner, queues, ids, app, maps, users, ready, env, got, stored>>
      /\ Becomes(w, wk'[w]) /\ wk'[w].pc \in {"pop", "enroll", "muid", "lookup", "wait"}
      /\ ~Holding(wk'[w])
      /\ \/ t = OnMessage /\ wk'[w].call = NoCall /\ wk'[w].pc = "pop"
         \/ t \in Calls /\ wk'[w].call = t
    BY TakeIs
<1>2. /\ tasks \in Seq(Calls \cup {OnMessage}) /\ 1 \in DOMAIN tasks /\ tasks[1] = t
      /\ \A i \in DOMAIN tasks' : /\ i + 1 \in DOMAIN tasks /\ tasks'[i] = tasks[i + 1]
                                  /\ i \in Nat \ {0}
    BY <1>1 DEF PlaceInv, Queued
<1>3. \A v \in Workers \ {w} : wk'[v].call = wk[v].call
    BY <1>1, OthersStay DEF Stays
<1>4. RunInv'
    <2> USE DEF CallInv, RunInv
    <2>1. OnceQueued'
        BY <1>2 DEF OnceQueued
    <2>2. \A i \in DOMAIN tasks' : tasks'[i] # wk'[w].call
        <3> SUFFICES ASSUME NEW i \in DOMAIN tasks', tasks'[i] = wk'[w].call PROVE FALSE
            OBVIOUS
        <3>1. tasks[i + 1] \in Calls \cup {OnMessage} /\ tasks'[i] # NoCall
            BY <1>2, NamesAssumption
        <3>2. tasks[i + 1] = t /\ t \in Calls
            BY <1>1, <1>2, <3>1
        <3>3. i + 1 = 1
            BY <1>2, <3>2, NamesAssumption DEF OnceQueued
        <3> QED BY <1>2, <3>3
    <2>3. \A v \in Workers \ {w} : wk'[v].call # wk'[w].call \/ wk'[w].call = NoCall
        BY <1>1, <1>2, <1>3 DEF OneRunner
    <2>4. OneRunner'
        BY <1>2, <1>3, <2>2, <2>3 DEF OneRunner
    <2>5. Unstarted'
        BY <1>1, <1>2, <1>3, NamesAssumption DEF Unstarted
    <2> QED BY <2>1, <2>4, <2>5
<1>5. Learns(w)
    BY <1>1 DEF Learns, Hears
<1>6. AnswerInv'
    BY <1>1, <1>5, AnswerKeeps DEF CallInv
<1>7. \A n, k : Reported(n, k)' => Reported(n, k)
    BY <1>1, ReportsLess DEF Bears
<1>8. ~Holding(wk[w])
    BY <1>1 DEF Holding, WaitPC, CyclePC
<1>9. ASSUME ~dup
      PROVE  /\ wk'[w].pc \in {"enroll", "add", "muid"} => accepted[wk'[w].call] = 0
             /\ \A i \in DOMAIN tasks' : tasks'[i] \in Calls => accepted[tasks'[i]] = 0
    BY <1>1, <1>2, <1>9 DEF CallInv, SendInv, Unsent
<1>10. SendInv'
    BY <1>1, <1>7, <1>8, <1>9, SendKeepsOn DEF CallInv
<1> QED
    BY <1>4, <1>6, <1>10 DEF CallInv

(* A muid that nobody has been given yet is known to nobody. *)
LEMMA DrawsCall ==
    ASSUME PlaceInv, CallInv, NEW w \in Workers, DrawMuid(w)
    PROVE  CallInv'
<1> DEFINE a == wk[w]
           m == last_muid
           pc == "push"
           r == WithMuid(a, pc, m)
<1>1. /\ Goes(w, "muid", r) /\ dup' = (dup \/ m \in drawn) /\ drawn' = drawn \cup {m}
      /\ UNCHANGED <<tasks, runner, queues, app, env, got, stored, maps, users, ready>>
    BY DrawMuidIs
<1>2. Becomes(w, r) /\ a.pc = "muid" /\ wk'[w] = r
    BY <1>1, GoesTo DEF Becomes
<1>3. a \in WorkerRec /\ m \in Nat /\ pc \in WorkerPC /\ pc = "push"
    BY WorkerAt DEF PlaceInv, Numbers, WorkerPC
<1> HIDE DEF m, pc, a
<1>4. r.pc = pc /\ r.call = a.call /\ r.muid = m
    BY <1>3, WithMuidIs
<1> HIDE DEF r
<1>5. /\ wk'[w].pc = "push" /\ wk'[w].call = wk[w].call /\ wk'[w].muid = m
      /\ wk[w].pc = "muid" /\ ~Holding(wk[w])
    BY <1>2, <1>3, <1>4 DEF a, Holding, WaitPC, CyclePC
<1>6. RunInv'
    BY <1>1, <1>2, <1>5, RunKeeps DEF CallInv
<1>7. ASSUME ~dup' PROVE ~dup /\ m \notin drawn
    <2>1. ~(dup \/ m \in drawn)
        BY <1>1, <1>7, Zenon
    <2> QED BY <2>1
<1>8. \A v \in Workers \ {w} : Stays(v)
    BY <1>2, OthersStay DEF a
<1>9. \A n : Heard(n)' => Heard(n)
    <2> SUFFICES ASSUME NEW n, Heard(n)' PROVE Heard(n)
        OBVIOUS
    <2>1. ASSUME NEW v \in Workers, Hears(wk'[v], n) PROVE Heard(n)
        <3>1. v # w
            BY <1>5, <2>1 DEF Hears
        <3> QED BY <1>8, <2>1, <3>1 DEF Stays, Heard
    <2> QED BY <1>1, <2>1 DEF Heard
<1>10. \A n, k : Reported(n, k)' => Reported(n, k)
    BY <1>1, <1>2, <1>5, ReportsLess DEF Bears
<1>11. AnswerInv'
    <2> SUFFICES ASSUME ~dup' PROVE Distinct' /\ HeardStored'
        BY DEF AnswerInv
    <2>1. Distinct /\ HeardStored /\ m \notin drawn
        BY <1>7 DEF CallInv, AnswerInv
    <2>2. \A v \in Workers \ {w} : Holding(wk'[v]) => /\ Holding(wk[v]) /\ wk'[v].muid = wk[v].muid
                                                      /\ wk'[v].muid # m
        BY <1>8, <2>1, HoldingDrawn DEF Stays
    <2>3. Distinct'
        BY <1>5, <2>1, <2>2 DEF Distinct
    <2>4. HeardStored'
        <3> SUFFICES ASSUME NEW v \in Workers, NEW n, n = wk'[v].muid, Holding(wk'[v]), Heard(n)'
                     PROVE  n \in DOMAIN responses'
            BY DEF HeardStored, Heard
        <3>1. Heard(n) /\ n \in drawn
            BY <1>9, HeardDrawn
        <3>2. v # w
            BY <1>5, <2>1, <3>1
        <3>3. Holding(wk[v]) /\ wk[v].muid = n
            BY <2>2, <3>2
        <3> QED BY <1>1, <2>1, <3>1, <3>3 DEF HeardStored
    <2> QED BY <2>3, <2>4
<1>12. SendInv'
    <2> SUFFICES ASSUME ~dup' PROVE Unsent' /\ Sent' /\ Truthful' /\ UnderWay'
        BY DEF SendInv
    <2>1. Unsent /\ Sent /\ Truthful /\ UnderWay /\ m \notin drawn
        BY <1>7 DEF CallInv, SendInv
    <2>2. \A n, k : n \notin drawn => ~Reported(n, k)'
        BY <1>10, ReportedDrawn
    <2>3. \A v \in Workers : accepted[wk'[v].call] = accepted[wk[v].call]
        BY <1>5, <1>8 DEF Stays
    <2>4. Unsent'
        <3>1. ASSUME NEW v \in Workers, NEW n \in drawn', NEW k \in {101, 200},
                     wk'[v].pc = "push", wk'[v].muid = n
              PROVE  ~Reported(n, k)'
            <4>1. CASE v = w
                <5>1. n = m
                    BY <1>5, <3>1, <4>1
                <5> QED BY <2>1, <2>2, <5>1
            <4>2. CASE v # w
                <5>1. wk[v].pc = "push" /\ wk[v].muid = n
                    BY <1>8, <3>1, <4>2 DEF Stays
                <5>2. n \in drawn
                    BY <5>1, HoldingDrawn DEF Holding, CyclePC
                <5> QED BY <1>10, <2>1, <5>1, <5>2 DEF Unsent
            <4> QED BY <4>1, <4>2
        <3>2. \A v \in Workers : wk'[v].pc \in {"enroll", "add", "muid", "push"}
                                 => accepted'[wk'[v].call] = 0
            BY <1>1, <1>5, <1>8, <2>1, <2>3 DEF Unsent, Stays
        <3> QED BY <1>1, <2>1, <3>1, <3>2 DEF Unsent
    <2>5. Sent'
        BY <1>1, <1>5, <1>8, <2>1, <2>3 DEF Sent, Stays
    <2>6. Truthful'
        <3> SUFFICES ASSUME NEW v \in Workers, NEW n \in drawn', Holding(wk'[v]), wk'[v].muid = n
                     PROVE  /\ Reported(n, 200)' => accepted'[wk'[v].call] = 1
                            /\ Reported(n, 101)' => accepted'[wk'[v].call] = 0
            BY DEF Truthful
        <3>1. CASE v = w
            <4>1. n = m
                BY <1>5, <3>1
            <4> QED BY <2>1, <2>2, <4>1
        <3>2. CASE v # w
            <4>1. Holding(wk[v]) /\ wk[v].muid = n
                BY <1>8, <3>2 DEF Stays
            <4>2. n \in drawn
                BY <4>1, HoldingDrawn
            <4> QED BY <1>1, <1>10, <2>1, <2>3, <4>1, <4>2 DEF Truthful
        <3> QED BY <3>1, <3>2
    <2>7. ASSUME NEW q, Owned(q) PROVE Owned(q)'
        <3>1. PICK v \in Workers : /\ Holding(wk[v]) /\ wk[v].pc # "push" /\ wk[v].call = q.call
                                   /\ wk[v].muid = q.muid
            BY <2>7 DEF Owned
        <3>2. v # w
            BY <1>5, <3>1
        <3>3. Holding(wk'[v]) /\ wk'[v].pc # "push" /\ wk'[v].call = q.call /\ wk'[v].muid = q.muid
            BY <1>8, <3>1, <3>2 DEF Stays
        <3> QED BY <1>1, <1>10, <2>7, <3>3 DEF Owned
    <2>8. UnderWay'
        <3>1. Unwritten' = Unwritten /\ First' = First /\ atServer' = atServer
              /\ writeq' = writeq
            BY <1>1 DEF Unwritten, First
        <3>2. \A q \in atServer \cup Unwritten : Owned(q)'
            BY <2>1, <2>7 DEF UnderWay
        <3> QED BY <2>1, <3>1, <3>2 DEF UnderWay
    <2> QED BY <2>4, <2>5, <2>6, <2>8
<1> QED
    BY <1>6, <1>11, <1>12 DEF CallInv

(* The packet is queued: its call waits for the answer, and no other packet *)
(* under way has its muid.                                                  *)
LEMMA SendsCall ==
    ASSUME PlaceInv, CallInv, NEW w \in Workers, PushOut(w)
    PROVE  CallInv'
<1> DEFINE p == [muid |-> wk[w].muid, call |-> wk[w].call]
<1>1. /\ Goes(w, "push", To(w, "read")) /\ writeq' = Append(writeq, p)
      /\ UNCHANGED <<tasks, runner, readq, ids, app, maps, users, ready, env, got, stored>>
    BY DEF PushOut
<1>2. Becomes(w, wk'[w]) /\ wk[w].pc = "push" /\ wk'[w] = To(w, "read")
    BY <1>1, GoesTo DEF Becomes
<1>3. wk'[w].pc = "read" /\ wk'[w].call = wk[w].call /\ wk'[w].muid = wk[w].muid
    <2>1. wk[w] \in WorkerRec /\ "read" \in WorkerPC
        BY WorkerAt DEF WorkerPC
    <2> QED BY <1>2, <2>1, ToIs DEF To, Same
<1>4. Holding(wk[w]) /\ Holding(wk'[w]) /\ wk[w].muid \in drawn /\ wk[w].call \in Calls
    BY <1>2, <1>3, HoldingDrawn DEF Holding, CyclePC
<1>5. p.call = wk[w].call /\ p.muid = wk[w].muid
    OBVIOUS
<1> HIDE DEF p
<1>6. /\ Len(writeq) \in Nat /\ Len(writeq') = Len(writeq) + 1 /\ writeq'[Len(writeq) + 1] = p
      /\ \A i \in 1..Len(writeq) : writeq'[i] = writeq[i]
      /\ DOMAIN writeq' = 1..(Len(writeq) + 1) /\ DOMAIN writeq = 1..Len(writeq)
    <2>1. writeq \in Seq(Sendings(drawn))
        BY DEF PlaceInv, Queued
    <2> HIDE DEF queues
    <2> QED BY <1>1, <2>1
<1>7. RunInv'
    <2>1. \A i \in DOMAIN writeq' : \/ writeq'[i].call = wk[w].call
                                    \/ \E j \in DOMAIN writeq : writeq'[i] = writeq[j]
        BY <1>5, <1>6
    <2> QED BY <1>1, <1>2, <1>3, <2>1, RunKeeps DEF CallInv
<1>8. \A v \in Workers \ {w} : Stays(v)
    BY <1>2, OthersStay
<1>9. AnswerInv'
    <2>1. Learns(w)
        BY <1>1, <1>3 DEF Learns, Hears
    <2> QED BY <1>1, <1>2, <1>3, <1>4, <2>1, AnswerKeeps DEF CallInv
<1>10. \A n, k : Reported(n, k)' => Reported(n, k)
    BY <1>1, <1>2, <1>3, ReportsLess DEF Bears
<1>11. SendInv'
    <2> SUFFICES ASSUME ~dup PROVE Unsent' /\ Sent' /\ Truthful' /\ UnderWay'
        BY <1>1 DEF SendInv
    <2>1. Unsent /\ Sent /\ Truthful /\ UnderWay /\ Distinct
        BY DEF CallInv, SendInv, AnswerInv
    <2>2. \A v \in Workers :
              /\ Holding(wk'[v]) => /\ Holding(wk[v]) /\ wk'[v].muid = wk[v].muid
              /\ wk'[v].call = wk[v].call
              /\ wk'[v].pc = "push" => wk[v].pc = "push" /\ wk'[v].muid = wk[v].muid
              /\ wk'[v].pc \in {"enroll", "add", "muid", "push"}
                    => wk[v].pc \in {"enroll", "add", "muid", "push"}
              /\ wk'[v].pc \in {"lock-check", "return"} => wk[v].pc \in {"lock-check", "return"}
        BY <1>3, <1>4, <1>8 DEF Stays
    <2>3. Unsent' /\ Sent' /\ Truthful'
        BY <1>1, <1>10, <2>1, <2>2 DEF Unsent, Sent, Truthful
    <2>4. ASSUME NEW q, Owned(q) PROVE Owned(q)' /\ q # p
        <3>1. PICK v \in Workers : /\ Holding(wk[v]) /\ wk[v].pc # "push" /\ wk[v].call = q.call
                                   /\ wk[v].muid = q.muid
            BY <2>4 DEF Owned
        <3>2. v # w
            BY <1>2, <3>1
        <3>3. Holding(wk'[v]) /\ wk'[v].pc # "push" /\ wk'[v].call = q.call /\ wk'[v].muid = q.muid
            BY <1>8, <3>1, <3>2 DEF Stays
        <3>4. q.muid # wk[w].muid
            BY <1>4, <2>1, <3>1, <3>2 DEF Distinct
        <3> QED BY <1>1, <1>5, <1>10, <2>4, <3>3, <3>4 DEF Owned
    <2>5. ASSUME NEW q, q = p PROVE Owned(q)'
        <3>1. accepted[q.call] = 0
            BY <1>2, <1>5, <2>1, <2>5 DEF Unsent
        <3>2. ~Reported(q.muid, 101) /\ ~Reported(q.muid, 200)
            BY <1>2, <1>4, <1>5, <2>1, <2>5 DEF Unsent
        <3>3. /\ Holding(wk'[w]) /\ wk'[w].pc # "push" /\ wk'[w].call = q.call
              /\ wk'[w].muid = q.muid
            BY <1>3, <1>4, <1>5, <2>5
        <3> QED BY <1>1, <1>10, <3>1, <3>2, <3>3 DEF Owned
    <2>6. First' = First /\ First \in {1, 2} /\ atServer' = atServer
        BY <1>1 DEF First
    <2>7. \A q \in Unwritten : Owned(q) /\ q # p /\ q \notin atServer /\ Owned(q)'
        BY <2>1, <2>4 DEF UnderWay
    <2>8. \A q \in atServer : Owned(q) /\ q # p /\ Owned(q)'
        BY <2>1, <2>4 DEF UnderWay
    <2>9. \A i \in First..Len(writeq) : writeq[i] \in Unwritten
        BY DEF Unwritten
    <2>10. \A i \in First..Len(writeq') : \/ i \in First..Len(writeq) /\ writeq'[i] = writeq[i]
                                          \/ i = Len(writeq) + 1 /\ writeq'[i] = p
        BY <1>6, <2>6
    <2>11. \A q \in Unwritten' : q \in Unwritten \/ q = p
        BY <2>6, <2>9, <2>10 DEF Unwritten
    <2>12. \A i, j \in First..Len(writeq') : writeq'[i] = writeq'[j] => i = j
        BY <2>1, <2>7, <2>9, <2>10 DEF UnderWay
    <2>13. \A q \in Unwritten' : Owned(q)' /\ q \notin atServer'
        BY <2>5, <2>6, <2>7, <2>8, <2>11
    <2>14. UnderWay'
        BY <2>6, <2>8, <2>12, <2>13 DEF UnderWay
    <2> QED BY <2>3, <2>14
<1> QED
    BY <1>7, <1>9, <1>11 DEF CallInv

(* The answer is taken away: it is there, and says what the server did.     *)
LEMMA AnsweredCall ==
    ASSUME PlaceInv, CallInv, NEW w \in Workers, Retry(w) \/ Proceed(w)
    PROVE  CallInv'
<1> DEFINE m == wk[w].muid
<1>1. /\ wk[w].pc = "getresp"
      /\ \/ Again(w) /\ TakeAnswer(w, "muid")
         \/ ~Again(w) /\ TakeAnswer(w, "lock-check")
         \/ ~Again(w) /\ TakeAnswer(w, "return")
    BY DEF Retry, Proceed
<1>2. PICK pc \in {"muid", "lock-check", "return"} : /\ TakeAnswer(w, pc)
                                                     /\ pc = "muid" <=> Again(w)
    BY <1>1
<1>3. /\ Goes(w, "getresp", To(w, pc)) /\ responses' = Without(responses, m)
      /\ UNCHANGED <<tasks, runner, queues, app, env, got, stored, ids, cnd_responses, users,
                     ready>>
    BY <1>2 DEF TakeAnswer, Unchanged
<1>4. Becomes(w, wk'[w]) /\ wk'[w] = To(w, pc)
    BY <1>3, GoesTo DEF Becomes
<1>5. wk'[w].pc = pc /\ wk'[w].call = wk[w].call
    <2>1. wk[w] \in WorkerRec /\ pc \in WorkerPC
        BY <1>2, WorkerAt DEF WorkerPC
    <2> QED BY <1>4, <2>1, ToIs DEF To, Same
<1>6. /\ wk'[w].pc \in {"muid", "lock-check", "return"} /\ ~Holding(wk'[w]) /\ Holding(wk[w])
      /\ m \in drawn /\ wk[w].call \in Calls
    <2>1. pc \in {"muid", "lock-check", "return"}
        BY <1>2
    <2> QED BY <1>1, <1>5, <2>1, HoldingDrawn DEF Holding, WaitPC, CyclePC
<1>7. DOMAIN responses' = DOMAIN responses \ {m}
      /\ \A n \in DOMAIN responses' : responses'[n] = responses[n]
    BY <1>3 DEF Without
<1>8. RunInv'
    BY <1>3, <1>4, <1>5, RunKeeps DEF CallInv
<1>9. Learns(w)
    BY <1>3, <1>6 DEF Learns, Hears
<1>10. ASSUME ~dup, NEW v \in Workers, Holding(wk'[v]), wk[v].muid \in DOMAIN responses
       PROVE  wk[v].muid \in DOMAIN responses'
    <2>1. v # w /\ Holding(wk[v])
        BY <1>4, <1>6, <1>10, OthersStay DEF Stays
    <2>2. wk[v].muid # m
        BY <1>6, <1>10, <2>1 DEF CallInv, AnswerInv, Distinct
    <2> QED BY <1>7, <1>10, <2>2
<1>11. AnswerInv'
    BY <1>3, <1>4, <1>6, <1>9, <1>10, AnswerKeeps DEF CallInv
<1>12. \A n, k : Reported(n, k)' => Reported(n, k)
    <2> SUFFICES ASSUME NEW n, NEW k, Reported(n, k)' PROVE Reported(n, k)
        OBVIOUS
    <2>1. ASSUME NEW v \in Workers, Bears(wk'[v], n, k) PROVE Bears(wk[v], n, k)
        <3>1. v # w
            BY <1>6, <2>1 DEF Bears
        <3> QED BY <1>4, <2>1, <3>1, OthersStay DEF Stays
    <2> QED BY <1>3, <1>7, <2>1 DEF Reported
<1>13. ASSUME ~dup
       PROVE  /\ wk'[w].pc = "muid" => accepted[wk[w].call] = 0
              /\ wk'[w].pc \in {"lock-check", "return"} => accepted[wk[w].call] = 1
              /\ \A i \in DOMAIN tasks' : tasks'[i] \in Calls => accepted[tasks'[i]] = 0
              /\ \A q : Owned(q) => q.muid # m
    <2>1. Unsent /\ Truthful /\ HeardStored
        BY <1>13 DEF CallInv, SendInv, AnswerInv
    <2>2. \E v \in Workers : Hears(wk[v], m)
        BY <1>1 DEF Hears
    <2>3. m \in DOMAIN responses
        BY <1>6, <2>1, <2>2 DEF HeardStored, Heard
    <2>4. responses[m] \in {101, 200}
        BY <2>3 DEF PlaceInv, Answers
    <2>5. Code(w) = responses[m]
        BY <2>3 DEF Code, Answered
    <2>6. Again(w) <=> responses[m] = 101
        BY <2>4, <2>5 DEF Again
    <2>7. Reported(m, responses[m])
        BY <2>3 DEF Reported
    <2>8. \A n \in drawn : m = n => /\ Reported(n, 200) => accepted[wk[w].call] = 1
                                    /\ Reported(n, 101) => accepted[wk[w].call] = 0
        BY <1>6, <2>1 DEF Truthful
    <2>9. /\ responses[m] = 200 => accepted[wk[w].call] = 1
          /\ responses[m] = 101 => accepted[wk[w].call] = 0
        BY <1>6, <2>7, <2>8
    <2>10. \A q : Owned(q) => q.muid # m
        BY <2>4, <2>7 DEF Owned
    <2> QED BY <1>2, <1>3, <1>5, <2>1, <2>4, <2>6, <2>9, <2>10 DEF Unsent
<1>14. SendInv'
    BY <1>1, <1>3, <1>4, <1>5, <1>6, <1>12, <1>13, SendKeepsOn DEF CallInv
<1> QED
    BY <1>8, <1>11, <1>14 DEF CallInv

-----------------------------------------------------------------------------
(* The steps of the thread of run_client, with the server and the peers.    *)

(* The server answers a packet: one call waits for that answer, it is       *)
(* neither sent nor about to be sent another time.                          *)
LEMMA AnswersCall ==
    ASSUME PlaceInv, CallInv, NEW m \in atServer, NEW code \in {101, 200}, Answer(m, code)
    PROVE  CallInv'
<1> DEFINE c == m.call
           n == m.muid
           p == StatusFor(n, code)
<1>1. /\ runner = "poll" /\ runner' = "create" /\ readq' = Append(readq, p)
      /\ UNCHANGED <<tasks, wk, writeq, ids, app, maps, users, ready, got, stored>>
      /\ atServer' = atServer \ {m} /\ UNCHANGED <<asked, responded>>
      /\ accepted' = [accepted EXCEPT ![c] = IF code = 200 THEN @ + 1 ELSE @]
    BY AnswerIs DEF Receive, RunnerGoes
<1>2. /\ m \in Sendings(drawn) /\ n \in drawn /\ c \in Calls /\ accepted \in [Calls -> Nat]
      /\ drawn \subseteq Nat
    BY DEF PlaceInv, Queued, Called, Numbers, Sendings
<1> HIDE DEF n, c
<1>3. p \in StatusMsg(drawn) /\ p.num = n /\ p.code = code /\ p.kind = "status"
    <2>1. n \in Nat
        BY <1>2
    <2>2. p \in Packet /\ p.num = n /\ p.code = code /\ p.kind = "status"
        BY ONLY <2>1, code \in {101, 200}, StatusForIs
    <2> HIDE DEF p
    <2> QED BY <1>2, <2>2 DEF StatusMsg
<1> HIDE DEF p
<1>4. /\ accepted'[c] = IF code = 200 THEN accepted[c] + 1 ELSE accepted[c]
      /\ \A d \in Calls \ {c} : accepted'[d] = accepted[d]
    BY <1>1, <1>2
<1>5. ASSUME NEW i, NEW k, Reported(i, k)' PROVE Reported(i, k) \/ (i = n /\ k = code)
    <2>1. ASSUME NEW j \in DOMAIN readq', readq'[j].kind = "status", readq'[j].num = i,
                 readq'[j].code = k
          PROVE  Reported(i, k) \/ (i = n /\ k = code)
        <3>1. readq \in Seq(StatusMsg(drawn) \cup UserMsg)
            BY DEF PlaceInv, Queued
        <3>2. readq'[j] = p \/ (j \in DOMAIN readq /\ readq'[j] = readq[j])
            BY <1>1, <1>3, <3>1
        <3> QED BY <1>3, <2>1, <3>2 DEF Reported
    <2> QED BY <1>1, <1>5, <2>1 DEF Reported
<1>6. RunInv'
    <2>1. OnceQueued' /\ OneRunner'
        BY <1>1 DEF CallInv, RunInv, OnceQueued, OneRunner
    <2>2. \A d \in Calls : stage[d] = "new" => d # c
        BY DEF CallInv, RunInv, Unstarted, c
    <2>3. Unstarted'
        BY <1>1, <1>4, <2>2 DEF CallInv, RunInv, Unstarted
    <2> QED BY <2>1, <2>3 DEF RunInv
<1>7. AnswerInv'
    BY <1>1 DEF CallInv, AnswerInv, Distinct, HeardStored, Heard
<1>8. SendInv'
    <2> SUFFICES ASSUME ~dup PROVE Unsent' /\ Sent' /\ Truthful' /\ UnderWay'
        BY <1>1 DEF SendInv
    <2>1. Unsent /\ Sent /\ Truthful /\ UnderWay /\ Distinct /\ OneRunner
        BY DEF CallInv, SendInv, AnswerInv, RunInv
    <2>2. /\ accepted[c] = 0 /\ ~Reported(n, 101) /\ ~Reported(n, 200)
          /\ \E w \in Workers : Holding(wk[w]) /\ wk[w].pc # "push" /\ wk[w].call = c
                                /\ wk[w].muid = n
        BY <2>1 DEF UnderWay, Owned, c, n
    <2>3. PICK w \in Workers : /\ Holding(wk[w]) /\ wk[w].pc # "push" /\ wk[w].call = c
                               /\ wk[w].muid = n
        BY <2>2
    <2>4. \A v \in Workers \ {w} : wk[v].call # c /\ (Holding(wk[v]) => wk[v].muid # n)
        BY <1>2, <2>1, <2>3, NamesAssumption DEF OneRunner, Distinct
    <2>5. wk[w].pc \notin {"enroll", "add", "muid", "push", "lock-check", "return"}
        BY <2>3 DEF Holding, WaitPC, CyclePC
    <2>6. \A i \in DOMAIN tasks : tasks[i] # c
        BY <2>1, <2>3 DEF OneRunner
    <2>7. \A v \in Workers : wk[v].pc \in {"enroll", "add", "muid", "push", "lock-check", "return"}
                             => v # w /\ wk[v].call \in Calls \ {c}
        <3> TAKE v \in Workers
        <3> HAVE wk[v].pc \in {"enroll", "add", "muid", "push", "lock-check", "return"}
        <3>1. wk[v].call \in Calls
            BY WorkerAt DEF GoodWorker, MessagePC, AnswerPC, StorePC
        <3> QED BY <2>4, <2>5, <3>1
    <2>8. Unsent'
        <3>1. \A i \in DOMAIN tasks' : tasks'[i] \in Calls => accepted'[tasks'[i]] = 0
            BY <1>1, <1>4, <2>1, <2>6 DEF Unsent
        <3>2. \A v \in Workers : wk'[v].pc \in {"enroll", "add", "muid", "push"}
                                 => accepted'[wk'[v].call] = 0
            BY <1>1, <1>4, <2>1, <2>7 DEF Unsent
        <3>3. ASSUME NEW v \in Workers, NEW i \in drawn, NEW k \in {101, 200},
                     wk[v].pc = "push", wk[v].muid = i
              PROVE  ~Reported(i, k)'
            <4>1. Holding(wk[v]) /\ v # w
                BY <2>3, <3>3 DEF Holding, CyclePC
            <4>2. i # n
                BY <2>4, <3>3, <4>1
            <4> QED BY <1>5, <2>1, <3>3, <4>2 DEF Unsent
        <3> QED BY <1>1, <3>1, <3>2, <3>3 DEF Unsent
    <2>9. Sent'
        <3>1. \A d \in Calls : accepted'[d] <= 1
            BY <1>4, <2>1, <2>2 DEF Sent
        <3>2. \A v \in Workers : wk'[v].pc \in {"lock-check", "return"}
                                 => accepted'[wk'[v].call] = 1
            BY <1>1, <1>4, <2>1, <2>7 DEF Sent
        <3> QED BY <3>1, <3>2 DEF Sent
    <2>10. Truthful'
        <3> SUFFICES ASSUME NEW v \in Workers, NEW i \in drawn, Holding(wk[v]), wk[v].muid = i
                     PROVE  /\ Reported(i, 200)' => accepted'[wk[v].call] = 1
                            /\ Reported(i, 101)' => accepted'[wk[v].call] = 0
            BY <1>1 DEF Truthful
        <3>1. CASE v = w
            <4>1. i = n /\ wk[v].call = c
                BY <2>3, <3>1
            <4> QED BY <1>4, <1>5, <2>2, <4>1
        <3>2. CASE v # w
            <4>1. i # n /\ wk[v].call # c /\ wk[v].call \in Calls
                BY <2>4, <3>2, HoldingDrawn
            <4> QED BY <1>4, <1>5, <2>1, <4>1 DEF Truthful
        <3> QED BY <3>1, <3>2
    <2>11. ASSUME NEW q \in Sendings(drawn), Owned(q), q # m PROVE Owned(q)'
        <3>1. PICK v \in Workers : /\ Holding(wk[v]) /\ wk[v].pc # "push" /\ wk[v].call = q.call
                                   /\ wk[v].muid = q.muid
            BY <2>11 DEF Owned
        <3>2. q.call # c \/ q.muid # n
            BY <1>2, <2>11 DEF Sendings, c, n
        <3>3. v # w
            BY <2>3, <3>1, <3>2
        <3>4. q.muid # n /\ q.call # c /\ q.call \in Calls
            BY <2>4, <3>1, <3>3 DEF Sendings
        <3> QED BY <1>1, <1>4, <1>5, <2>11, <3>1, <3>4 DEF Owned
    <2>12. UnderWay'
        <3>1. Unwritten' = Unwritten /\ First' = First /\ writeq' = writeq
            BY <1>1 DEF Unwritten, First
        <3>2. \A q \in Unwritten : q \in Sendings(drawn)
            BY DEF PlaceInv, Queued, Unwritten, First
        <3>3. \A q \in atServer : q \in Sendings(drawn)
            BY DEF PlaceInv, Queued
        <3>4. \A q \in Unwritten : Owned(q)' /\ q \notin atServer'
            BY <1>1, <2>1, <2>11, <3>2 DEF UnderWay
        <3>5. \A q \in atServer' : Owned(q)'
            BY <1>1, <2>1, <2>11, <3>3 DEF UnderWay
        <3> QED BY <2>1, <3>1, <3>4, <3>5 DEF UnderWay
    <2> QED BY <2>8, <2>9, <2>10, <2>12
<1> QED
    BY <1>6, <1>7, <1>8 DEF CallInv

(* What comes in from a peer is no answer. *)
LEMMA PeersCall ==
    ASSUME PlaceInv, CallInv, NEW p \in UserMsg, Receive(p), UNCHANGED <<atServer, accepted>>
    PROVE  CallInv'
<1>1. /\ runner = "poll" /\ runner' = "create" /\ readq' = Append(readq, p)
      /\ UNCHANGED <<tasks, wk, writeq, ids, app, maps, users, ready, got, stored>>
    BY DEF Receive, RunnerGoes
<1>2. p.kind # "status"
    BY DEF UserMsg, Requests
<1>3. ASSUME NEW n, NEW k, Reported(n, k)' PROVE Reported(n, k)
    <2>1. ASSUME NEW j \in DOMAIN readq', readq'[j].kind = "status", readq'[j].num = n,
                 readq'[j].code = k
          PROVE  Reported(n, k)
        <3>1. readq \in Seq(StatusMsg(drawn) \cup UserMsg)
            BY DEF PlaceInv, Queued
        <3>2. readq'[j] = p \/ (j \in DOMAIN readq /\ readq'[j] = readq[j])
            BY <1>1, <3>1
        <3> QED BY <1>2, <2>1, <3>2 DEF Reported
    <2> QED BY <1>1, <1>3, <2>1 DEF Reported
<1>4. RunInv'
    BY <1>1 DEF CallInv, RunInv, OnceQueued, OneRunner, Unstarted
<1>5. AnswerInv'
    BY <1>1 DEF CallInv, AnswerInv, Distinct, HeardStored, Heard
<1>6. SendInv'
    <2> SUFFICES ASSUME ~dup PROVE Unsent' /\ Sent' /\ Truthful' /\ UnderWay'
        BY <1>1 DEF SendInv
    <2>1. Unsent /\ Sent /\ Truthful /\ UnderWay
        BY DEF CallInv, SendInv
    <2>2. Unsent' /\ Sent' /\ Truthful'
        BY <1>1, <1>3, <2>1 DEF Unsent, Sent, Truthful
    <2>3. ASSUME NEW q, Owned(q) PROVE Owned(q)'
        BY <1>1, <1>3, <2>3 DEF Owned
    <2>4. UnderWay'
        <3>1. Unwritten' = Unwritten /\ First' = First /\ writeq' = writeq
            BY <1>1 DEF Unwritten, First
        <3> QED BY <2>1, <2>3, <3>1 DEF UnderWay
    <2> QED BY <2>2, <2>4
<1> QED
    BY <1>4, <1>5, <1>6 DEF CallInv

LEMMA ComesCall ==
    ASSUME PlaceInv, CallInv, Incoming
    PROVE  CallInv'
<1>1. ASSUME NEW m \in atServer, NEW code \in {101, 200}, Answer(m, code) PROVE CallInv'
    BY <1>1, AnswersCall
<1>2. ASSUME NEW u \in Uids, Ask(u) PROVE CallInv'
    <2> DEFINE n == asked[u] + 1
               p == Gathered(u, n)
    <2>1. asked[u] < MaxAsks /\ Receive(p) /\ UNCHANGED <<atServer, accepted>>
        BY <1>2, AskIs
    <2>2. n \in 1..MaxAsks
        BY <2>1, BoundsAssumption DEF PlaceInv, Called
    <2> HIDE DEF n
    <2>3. p \in UserMsg
        BY <2>2, AskedIs DEF UserMsg
    <2> QED BY <2>1, <2>3, PeersCall
<1>3. ASSUME NEW c \in Calls, Respond(c) PROVE CallInv'
    <2> DEFINE p == ResponseTo(Op[c].to, c)
    <2>1. Op[c].kind = "request" /\ Receive(p) /\ UNCHANGED <<atServer, accepted>>
        BY <1>3, RespondIs
    <2>2. Op[c].to \in Uids
        BY <2>1, OpAssumption
    <2>3. p \in UserMsg
        BY <2>2, ResponseToIs
    <2> HIDE DEF p
    <2> QED BY <2>1, <2>3, PeersCall
<1> QED
    BY <1>1, <1>2, <1>3 DEF Incoming

LEMMA CreatesCall ==
    ASSUME PlaceInv, CallInv, CreateTask
    PROVE  CallInv'
<1>1. /\ runner = "create" /\ runner' = "poll" /\ tasks' = Append(tasks, OnMessage)
      /\ UNCHANGED <<wk, queues, ids, app, maps, users, ready, env, got, stored>>
    BY DEF CreateTask, RunnerGoes
<1>2. \A i \in DOMAIN tasks' : \/ tasks'[i] = OnMessage
                               \/ i \in DOMAIN tasks /\ tasks'[i] = tasks[i]
    <2>1. tasks \in Seq(Calls \cup {OnMessage})
        BY DEF PlaceInv, Queued
    <2> QED BY <1>1, <2>1
<1>3. \A w \in Workers : wk[w].call # OnMessage
    BY WorkerAt, NamesAssumption
<1>4. RunInv'
    <2>1. OnceQueued' /\ OneRunner'
        BY <1>1, <1>2, <1>3 DEF CallInv, RunInv, OnceQueued, OneRunner
    <2>2. Unstarted'
        BY <1>1, <1>2, NamesAssumption DEF CallInv, RunInv, Unstarted
    <2> QED BY <2>1, <2>2 DEF RunInv
<1>5. AnswerInv'
    BY <1>1 DEF CallInv, AnswerInv, Distinct, HeardStored, Heard
<1>6. SendInv'
    <2> SUFFICES ASSUME ~dup PROVE Unsent' /\ Sent' /\ Truthful' /\ UnderWay'
        BY <1>1 DEF SendInv
    <2>1. Unsent /\ Sent /\ Truthful /\ UnderWay
        BY DEF CallInv, SendInv
    <2>2. \A n, k : Reported(n, k)' => Reported(n, k)
        BY <1>1 DEF Reported
    <2>3. Unsent' /\ Sent' /\ Truthful'
        BY <1>1, <1>2, <2>1, <2>2, NamesAssumption DEF Unsent, Sent, Truthful
    <2>4. ASSUME NEW q, Owned(q) PROVE Owned(q)'
        BY <1>1, <2>2, <2>4 DEF Owned
    <2>5. UnderWay'
        <3>1. Unwritten' = Unwritten /\ First' = First /\ writeq' = writeq
            BY <1>1 DEF Unwritten, First
        <3> QED BY <1>1, <2>1, <2>4, <3>1 DEF UnderWay
    <2> QED BY <2>3, <2>5
<1> QED
    BY <1>4, <1>5, <1>6 DEF CallInv

(* A packet moves from writeq to the server, once: what pop_block frees     *)
(* unwritten is gone.                                                       *)
LEMMA WritesCall ==
    ASSUME PlaceInv, CallInv, Write \/ WriteLast \/ FreeWritten
    PROVE  CallInv'
<1>1. UNCHANGED <<tasks, wk, readq, ids, app, maps, users, ready, accepted, got, stored>>
    BY DEF Write, WriteLast, FreeWritten
<1>2. writeq \in Seq(Sendings(drawn)) /\ Len(writeq) \in Nat /\ DOMAIN writeq = 1..Len(writeq)
    BY DEF PlaceInv, Queued
<1>3. \/ /\ First = 1 /\ First' = 1 /\ Len(writeq) > 1 /\ writeq' = Tail(writeq)
         /\ atServer' = atServer \cup {writeq[1]}
      \/ /\ First = 1 /\ First' = 2 /\ Len(writeq) = 1 /\ writeq' = writeq
         /\ atServer' = atServer \cup {writeq[1]}
      \/ /\ First' = 1 /\ writeq' = <<>> /\ atServer' = atServer
    <2>1. Len(writeq) >= 1 => Head(writeq) = writeq[1]
        BY <1>2
    <2> QED BY <2>1 DEF Write, WriteLast, FreeWritten, RunnerGoes, First
<1>4. \A i \in First'..Len(writeq') :
          \E j \in First..Len(writeq) : /\ writeq'[i] = writeq[j]
                                        /\ j > 1 \/ atServer' = atServer
    <2>1. CASE /\ First = 1 /\ First' = 1 /\ Len(writeq) > 1 /\ writeq' = Tail(writeq)
        <3> SUFFICES ASSUME NEW i \in 1..Len(writeq')
                     PROVE  i + 1 \in 1..Len(writeq) /\ i + 1 > 1 /\ writeq'[i] = writeq[i + 1]
            BY <2>1
        <3> QED BY <1>2, <2>1
    <2>2. CASE First' = 2 /\ Len(writeq') = 1
        BY <2>2
    <2>3. CASE First' = 1 /\ writeq' = <<>>
        BY <2>3
    <2> QED BY <1>3, <2>1, <2>2, <2>3
<1>5. ASSUME UnderWay
      PROVE  \A i, j \in First'..Len(writeq') : writeq'[i] = writeq'[j] => i = j
    <2>1. CASE /\ First = 1 /\ First' = 1 /\ Len(writeq) > 1 /\ writeq' = Tail(writeq)
        <3> SUFFICES ASSUME NEW i \in 1..Len(writeq'), NEW j \in 1..Len(writeq'),
                            writeq'[i] = writeq'[j]
                     PROVE  i = j
            BY <2>1
        <3>1. /\ i + 1 \in 1..Len(writeq) /\ writeq'[i] = writeq[i + 1]
              /\ j + 1 \in 1..Len(writeq) /\ writeq'[j] = writeq[j + 1]
            BY <1>2, <2>1
        <3>2. i + 1 = j + 1
            BY <1>5, <2>1, <3>1 DEF UnderWay
        <3> QED BY <3>2
    <2>2. CASE First' = 2 /\ Len(writeq') = 1
        BY <2>2
    <2>3. CASE First' = 1 /\ writeq' = <<>>
        BY <2>3
    <2> QED BY <1>3, <2>1, <2>2, <2>3
<1>6. /\ \A q \in Unwritten' : q \in Unwritten
      /\ \A q \in atServer' : q \in atServer \cup Unwritten
    <2>1. First \in {1, 2}
        BY DEF First
    <2>2. atServer' = atServer \/ writeq[1] \in Unwritten
        BY <1>2, <1>3 DEF Unwritten
    <2> QED BY <1>3, <1>4, <2>2 DEF Unwritten
<1>7. RunInv'
    <2>1. OnceQueued' /\ OneRunner'
        BY <1>1 DEF CallInv, RunInv, OnceQueued, OneRunner
    <2>2. \A i \in DOMAIN writeq' : \E j \in DOMAIN writeq : writeq'[i] = writeq[j]
        <3>1. CASE Len(writeq) > 1 /\ writeq' = Tail(writeq)
            <4> SUFFICES ASSUME NEW i \in DOMAIN writeq'
                         PROVE  i + 1 \in DOMAIN writeq /\ writeq'[i] = writeq[i + 1]
                OBVIOUS
            <4> QED BY <1>2, <3>1
        <3>2. CASE writeq' = writeq \/ writeq' = <<>>
            BY <3>2
        <3> QED BY <1>3, <3>1, <3>2
    <2>3. \A q \in atServer' : q \in atServer \/ \E j \in DOMAIN writeq : q = writeq[j]
        BY <1>2, <1>3
    <2>4. Unstarted'
        BY <1>1, <2>2, <2>3 DEF CallInv, RunInv, Unstarted
    <2> QED BY <2>1, <2>4 DEF RunInv
<1>8. AnswerInv'
    BY <1>1 DEF CallInv, AnswerInv, Distinct, HeardStored, Heard
<1>9. SendInv'
    <2> SUFFICES ASSUME ~dup PROVE Unsent' /\ Sent' /\ Truthful' /\ UnderWay'
        BY <1>1 DEF SendInv
    <2>1. Unsent /\ Sent /\ Truthful /\ UnderWay
        BY DEF CallInv, SendInv
    <2>2. \A n, k : Reported(n, k)' => Reported(n, k)
        BY <1>1 DEF Reported
    <2>3. Unsent' /\ Sent' /\ Truthful'
        BY <1>1, <2>1, <2>2 DEF Unsent, Sent, Truthful
    <2>4. ASSUME NEW q, Owned(q) PROVE Owned(q)'
        BY <1>1, <2>2, <2>4 DEF Owned
    <2>5. \A q \in Unwritten' : q \notin atServer'
        <3> SUFFICES ASSUME NEW i \in First'..Len(writeq'), writeq'[i] \in atServer' PROVE FALSE
            BY DEF Unwritten
        <3>1. PICK j \in First..Len(writeq) : /\ writeq'[i] = writeq[j]
                                              /\ j > 1 \/ atServer' = atServer
            BY <1>4
        <3>2. writeq[j] \notin atServer
            BY <2>1, <3>1 DEF UnderWay, Unwritten
        <3>3. j > 1 /\ First = 1 /\ writeq[j] = writeq[1] /\ Len(writeq) >= 1
            BY <1>3, <3>1, <3>2
        <3>4. 1 \in First..Len(writeq)
            BY <1>2, <3>3
        <3>5. j = 1
            BY <2>1, <3>1, <3>3, <3>4 DEF UnderWay
        <3> QED BY <3>3, <3>5
    <2>6. UnderWay'
        BY <1>5, <1>6, <2>1, <2>4, <2>5 DEF UnderWay
    <2> QED BY <2>3, <2>6
<1> QED
    BY <1>7, <1>8, <1>9 DEF CallInv

-----------------------------------------------------------------------------
(* The application makes a call: it has done nothing before. *)
LEMMA AppsCall ==
    ASSUME PlaceInv, CallInv, AppStep
    PROVE  CallInv'
<1>1. PICK c \in Calls : Request(c) \/ RequestRefused(c) \/ Start(c)
    BY DEF AppStep
<1>2. /\ UNCHANGED <<wk, runner, queues, ids, maps, users, ready, env, got, stored>>
      /\ stage[c] = "new" /\ (tasks' = tasks \/ tasks' = Append(tasks, c))
      /\ \A d \in Calls : stage'[d] = "new" => stage[d] = "new" /\ d # c
    <2>1. stage \in [Calls -> {"new", "running", "done"}]
        BY DEF PlaceInv, Called
    <2> QED BY <1>1, <2>1 DEF Request, RequestRefused, Start, Schedule
<1>3. \A i \in DOMAIN tasks' : \/ i \in DOMAIN tasks /\ tasks'[i] = tasks[i]
                               \/ i = Len(tasks) + 1 /\ tasks'[i] = c
    <2>1. tasks \in Seq(Calls \cup {OnMessage})
        BY DEF PlaceInv, Queued
    <2> QED BY <1>2, <2>1
<1>4. /\ accepted[c] = 0 /\ (\A i \in DOMAIN tasks : tasks[i] # c)
      /\ \A w \in Workers : wk[w].call # c
    BY <1>2 DEF CallInv, RunInv, Unstarted
<1>5. RunInv'
    <2>1. OnceQueued' /\ OneRunner'
        BY <1>2, <1>3, <1>4 DEF CallInv, RunInv, OnceQueued, OneRunner
    <2>2. Unstarted'
        BY <1>2, <1>3 DEF CallInv, RunInv, Unstarted
    <2> QED BY <2>1, <2>2 DEF RunInv
<1>6. AnswerInv'
    BY <1>2 DEF CallInv, AnswerInv, Distinct, HeardStored, Heard
<1>7. SendInv'
    <2> SUFFICES ASSUME ~dup PROVE Unsent' /\ Sent' /\ Truthful' /\ UnderWay'
        BY <1>2 DEF SendInv
    <2>1. Unsent /\ Sent /\ Truthful /\ UnderWay
        BY DEF CallInv, SendInv
    <2>2. \A n, k : Reported(n, k)' => Reported(n, k)
        BY <1>2 DEF Reported
    <2>3. Unsent' /\ Sent' /\ Truthful'
        BY <1>2, <1>3, <1>4, <2>1, <2>2 DEF Unsent, Sent, Truthful
    <2>4. ASSUME NEW q, Owned(q) PROVE Owned(q)'
        BY <1>2, <2>2, <2>4 DEF Owned
    <2>5. UnderWay'
        <3>1. Unwritten' = Unwritten /\ First' = First /\ writeq' = writeq
            BY <1>2 DEF Unwritten, First
        <3> QED BY <1>2, <2>1, <2>4, <3>1 DEF UnderWay
    <2> QED BY <2>3, <2>5
<1> QED
    BY <1>5, <1>6, <1>7 DEF CallInv

-----------------------------------------------------------------------------
LEMMA CallInit == Init => CallInv
<1> SUFFICES ASSUME Init PROVE CallInv
    OBVIOUS
<1>1. \A w \in Workers : wk[w].pc = "idle" /\ wk[w].call = NoCall
    BY IdleIs DEF Init
<1>2. RunInv
    BY <1>1, NamesAssumption DEF Init, RunInv, OnceQueued, OneRunner, Unstarted
<1>3. AnswerInv
    BY <1>1 DEF Init, AnswerInv, Distinct, HeardStored, Holding, WaitPC, CyclePC
<1>4. \A n, k : ~Reported(n, k)
    BY <1>1 DEF Init, Reported, Bears
<1>5. Unsent /\ Sent /\ Truthful
    BY <1>1, <1>4 DEF Init, Unsent, Sent, Truthful
<1>6. UnderWay
    <2>1. First..Len(writeq) = {} /\ atServer = {}
        BY DEF Init, First
    <2> QED BY <2>1 DEF UnderWay, Unwritten
<1> QED
    BY <1>2, <1>3, <1>5, <1>6 DEF CallInv, SendInv

LEMMA CallStep == PlaceInv /\ CallInv /\ [Next]_vars => CallInv'
<1> SUFFICES ASSUME PlaceInv, CallInv, [Next]_vars PROVE CallInv'
    OBVIOUS
<1>1. CASE AppStep
    BY <1>1, AppsCall
<1>2. CASE RunnerStep
    BY <1>2, ComesCall, CreatesCall, WritesCall DEF RunnerStep
<1>3. ASSUME NEW w \in Workers, WorkerStep(w) PROVE CallInv'
    <2>1. CASE Take(w) \/ DrawMuid(w) \/ PushOut(w) \/ Retry(w) \/ Proceed(w)
        BY <2>1, TakesCall, DrawsCall, SendsCall, AnsweredCall
    <2>2. CASE ~(Take(w) \/ DrawMuid(w) \/ PushOut(w) \/ Retry(w) \/ Proceed(w))
        <3>1. Frame(w)
            BY <1>3, <2>2, WaitsFrame, MessagesFrame, GathersFrame, StepsFrame, ReadsFrame,
               RegistersFrame, SeeksFrame, TakesFrame, EndingsFrame DEF WorkerStep, RequestStep
        <3> QED BY <3>1, FrameKeeps
    <2> QED BY <2>1, <2>2
<1>4. CASE UNCHANGED vars
    <2>1. UNCHANGED <<tasks, wk, runner, readq, writeq, responses, ready, atServer, accepted,
                      stage, dup, drawn>>
        BY <1>4 DEF vars
    <2>2. RunInv' /\ AnswerInv'
        BY <2>1 DEF CallInv, RunInv, OnceQueued, OneRunner, Unstarted, AnswerInv, Distinct,
                    HeardStored, Heard
    <2>3. \A n, k : Reported(n, k)' <=> Reported(n, k)
        BY <2>1 DEF Reported
    <2>4. SendInv'
        BY <2>1, <2>3 DEF CallInv, SendInv, Unsent, Sent, Truthful, UnderWay, Owned, Unwritten,
                          First
    <2> QED BY <2>2, <2>4 DEF CallInv
<1> QED
    BY <1>1, <1>2, <1>3, <1>4 DEF Next

LEMMA CallInvariant == Spec => []CallInv
BY PlaceInvariant, CallInit, CallStep, PTL DEF Spec

(* __dcn_on_message stores an answer before it sets the waiter, and nobody  *)
(* but the call it belongs to takes it away: when wait_response returns,    *)
(* dcn_getresp finds it, however often waiters are woken for nothing.       *)
THEOREM WokenCallFindsItsAnswer == Spec => []AnswerFound
<1>1. PlaceInv /\ CallInv => AnswerFound
    <2> SUFFICES ASSUME PlaceInv, CallInv, ~dup, NEW w \in Workers, wk[w].pc = "getresp"
                 PROVE  Answered(w)
        BY DEF AnswerFound
    <2>1. Holding(wk[w]) /\ Heard(wk[w].muid)
        BY DEF Holding, CyclePC, Heard, Hears
    <2> QED BY <2>1 DEF CallInv, AnswerInv, HeardStored, Answered
<1> QED
    BY <1>1, PlaceInvariant, CallInvariant, PTL

(* A packet is sent again only after a 101, so the server accepts it once;  *)
(* and the cycle of __async_req and __async_ping ends only with the 200.    *)
THEOREM PacketIsAcceptedOnce == Spec => []SentOnce
<1>1. CallInv => SentOnce
    BY DEF CallInv, SendInv, Sent, SentOnce
<1> QED
    BY <1>1, CallInvariant, PTL
=============================================================================
