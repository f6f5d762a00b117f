---------------------------- MODULE RouterProofs ----------------------------
(***************************************************************************)
(* Proofs about Router for any routers, links, workers, servers, users and *)
(* broadcasts.                                                             *)
(***************************************************************************)
EXTENDS Router, FiniteSetTheorems, SequenceTheorems, TLAPS

USE DEF net

RunnerPC == {"start", "pinging", "loop", "gathering", "forward", "sending"}
WorkerPC == {"idle", "blocked", "collect"}

(* What one step of Next is, named action by action. *)
LEMMA NextCases ==
    ASSUME Next
    PROVE  \/ \E l \in Links : \/ Ping(l) \/ AskForAny(l) \/ ForwardEnd(l)
                               \/ Receive(l) \/ ServerHandle(l)
                               \/ \E t \in Links : Forward(l, t)
           \/ \E w \in Workers :
                 \/ StartCall(w) \/ HandleMessage(w)
                 \/ \E c \in wk[w].call :
                       \/ FinishCall(w, c) \/ WakeGather(w, c) \/ ReturnNull(w, c)
                       \/ \E i \in DOMAIN requests[c.on] : ReturnRequest(w, c, i)
           \/ \E b \in Broadcasts : \E k \in Kinds[b] : Broadcast(b, k)
BY DEF Next, SystemStep, RunnerStep, NetStep, WorkerStep, CallStep

-----------------------------------------------------------------------------
(* Packets.  A broadcast carries the uid of its first sender wherever it    *)
(* is, a status answer and what a link sends the call they belong to.       *)

GoodPacket == {p \in Packet :
                 /\ p.kind = "status" => p.ref \in Links
                 /\ p.kind \in CastKinds => /\ p.id \in Broadcasts
                                            /\ Orig(p) = Origin[p.id]}
OutPacket   == {p \in GoodPacket : p.ref \in Links}
GoodCall    == {c \in Call : IF c.kind = "gather" THEN c.on = c.by ELSE c.pkt \in OutPacket}
GoodMessage == {m \in Message : m.pkt \in GoodPacket}
Task        == GoodCall \cup GoodMessage

(* A thread that sends a broadcast on holds one. *)
PacketInv ==
    /\ runner \in [Links -> [pc : RunnerPC, pkt : GoodPacket, todo : SUBSET Links]]
    /\ \A l \in Links : /\ runner[l].todo \subseteq LinksOf(RouterOf[l])
                        /\ runner[l].pc \in {"forward", "sending"}
                              => runner[l].pkt.kind = "sig_broadcast"
    /\ tasks \in [Routers -> Seq(Task)]
    /\ wk \in [Workers -> [pc : WorkerPC, call : SUBSET GoodCall]]
    /\ answered \subseteq Links /\ anyReady \subseteq Links
    /\ requests \in [Links -> Seq(GoodPacket)]
    /\ up \in [Links -> Seq(OutPacket)] /\ down \in [Links -> Seq(GoodPacket)]
    /\ known \subseteq Links /\ sent \in [Broadcasts -> CastKinds \cup {"no"}]
    /\ heard \in [Users -> SUBSET GoodPacket] /\ echoed \in BOOLEAN

(* Calls.  A thread waits for the calls it has made, wherever they are.     *)
Awaits(c) == /\ c.kind = "ping" => runner[c.by].pc = "pinging"
             /\ c.kind = "gather" => runner[c.by].pc = "gathering"
             /\ c.kind = "request" => runner[c.by].pc = "sending"

Awaited ==
    /\ \A w \in Workers : \A c \in wk[w].call :
          Awaits(c) /\ RouterOf[c.by] = LoopOf[w]
    /\ \A r \in Routers : \A i \in DOMAIN tasks[r] :
          tasks[r][i].kind \in CallKinds =>
              Awaits(tasks[r][i]) /\ RouterOf[tasks[r][i].by] = r

(* A blocked worker has exactly one call, and no two calls that wait or are *)
(* run are of one thread.                                                   *)
OneCallEach ==
    /\ \A w \in Workers : /\ wk[w].pc = "blocked" => wk[w].call # {}
                          /\ wk[w].pc = "idle" => wk[w].call = {}
                          /\ \A c, d \in wk[w].call : c = d
    /\ \A w, x \in Workers : \A c \in wk[w].call, d \in wk[x].call :
          w # x => c.by # d.by
    /\ \A w \in Workers, r \in Routers : \A i \in DOMAIN tasks[r], c \in wk[w].call :
          tasks[r][i].kind \in CallKinds => tasks[r][i].by # c.by
    /\ \A r \in Routers : \A i, j \in DOMAIN tasks[r] :
          /\ tasks[r][i].kind \in CallKinds /\ tasks[r][j].kind \in CallKinds
          /\ i # j
          => tasks[r][i].by # tasks[r][j].by

CallInv == Awaited /\ OneCallEach

-----------------------------------------------------------------------------
(* What is made of good packets and calls is good. *)

LEMMA NewPackets ==
    ASSUME NEW l \in Links
    PROVE  /\ NoPacket \in GoodPacket
           /\ [NoPacket EXCEPT !.from = l, !.ref = l] \in OutPacket
           /\ [NoPacket EXCEPT !.kind = "status", !.ref = l] \in GoodPacket
<1> DEFINE out == [NoPacket EXCEPT !.from = l, !.ref = l]
           answer == [NoPacket EXCEPT !.kind = "status", !.ref = l]
<1>1. NoPacket \in Packet /\ NoPacket.kind = "ping"
    BY DEF NoPacket, Packet, Parties
<1>2. out \in Packet /\ out.kind = "ping" /\ out.ref = l
    BY DEF NoPacket, Packet, Parties
<1>3. answer \in Packet /\ answer.kind = "status" /\ answer.ref = l
    BY DEF NoPacket, Packet, Parties
<1> HIDE DEF out, answer
<1>4. out \in OutPacket /\ answer \in GoodPacket
    BY <1>2, <1>3 DEF GoodPacket, OutPacket, CastKinds
<1>5. NoPacket \in GoodPacket
    BY <1>1 DEF GoodPacket, CastKinds
<1> QED
    BY <1>4, <1>5 DEF out, answer

(* The first sender stays in the packet that a router sends on. *)
LEMMA SentOn ==
    ASSUME PacketInv, NEW l \in Links, NEW t \in Links,
           runner[l].pc = "forward"
    PROVE  Forwarded(l, t) \in OutPacket
<1> DEFINE p == runner[l].pkt
           f == Forwarded(l, t)
<1>1. p \in GoodPacket /\ p.kind = "sig_broadcast"
    BY DEF PacketInv
<1>2. p \in Packet /\ p.id \in Broadcasts /\ Orig(p) = Origin[p.id]
    BY <1>1 DEF GoodPacket, CastKinds
<1>3. Orig(p) \in Users /\ Orig(p) # Nobody
    BY <1>2, TopologyAssumption DEF Parties
<1>4. /\ f.kind = "sig_broadcast" /\ f.id = p.id /\ f.from = t
      /\ f.trav = Orig(p) /\ f.ref = l
    BY <1>1, <1>2 DEF Forwarded, Packet
<1>5. f \in Packet
    BY <1>2, <1>3 DEF Forwarded, Packet, Parties
<1>6. Orig(f) = Orig(p)
    BY <1>3, <1>4 DEF Orig
<1> HIDE DEF p, f
<1>7. f \in GoodPacket
    BY <1>2, <1>4, <1>5, <1>6 DEF GoodPacket
<1> QED
    BY <1>4, <1>7 DEF OutPacket, f

(* A worker takes a call or a message from its loop. *)
LEMMA TakenTask ==
    ASSUME PacketInv, NEW w \in Workers, TakesTask(w)
    PROVE  /\ LoopOf[w] \in Routers /\ Oldest(w) \in Task
           /\ Oldest(w).kind \in CallKinds => Oldest(w) \in GoodCall
           /\ Oldest(w).kind = "message" => Oldest(w) \in GoodMessage
           /\ tasks' \in [Routers -> Seq(Task)]
<1>1. LoopOf[w] \in Routers
    BY TopologyAssumption
<1>2. tasks[LoopOf[w]] \in Seq(Task) /\ tasks[LoopOf[w]] # <<>>
    BY <1>1 DEF PacketInv, TakesTask
<1>3. Oldest(w) \in Task /\ Tail(tasks[LoopOf[w]]) \in Seq(Task)
    BY <1>2, HeadTailProperties DEF Oldest
<1>4. \A m \in GoodMessage : m.kind = "message"
    BY DEF GoodMessage, Message
<1>5. \A c \in GoodCall : c.kind \in CallKinds
    BY DEF GoodCall, Call
<1>6. "message" \notin CallKinds
    BY DEF CallKinds
<1>7. tasks' \in [Routers -> Seq(Task)]
    BY <1>3 DEF TakesTask, PacketInv
<1> QED
    BY <1>1, <1>3, <1>4, <1>5, <1>6, <1>7 DEF Task

LEMMA CreatedTask ==
    ASSUME PacketInv, NEW c \in GoodCall, Create(c)
    PROVE  tasks' \in [Routers -> Seq(Task)]
<1>1. RouterOf[c.by] \in Routers
    BY TopologyAssumption DEF GoodCall, Call
<1>2. Append(tasks[RouterOf[c.by]], c) \in Seq(Task)
    BY <1>1, AppendProperties DEF PacketInv, Task
<1> QED
    BY <1>2 DEF Create, PacketInv

LEMMA RemovedAt ==
    ASSUME NEW S, NEW s \in Seq(S), NEW i \in DOMAIN s
    PROVE  RemoveAt(s, i) \in Seq(S)
<1>1. i \in Nat /\ Len(s) \in Nat
    BY LenProperties
<1>2. SubSeq(s, 1, i - 1) \in Seq(S) /\ SubSeq(s, i + 1, Len(s)) \in Seq(S)
    BY <1>1, ElementOfSeq, LenProperties, SubSeqProperties
<1> QED
    BY <1>2, ConcatProperties DEF RemoveAt

-----------------------------------------------------------------------------
LEMMA PacketInit == Init => PacketInv
<1> SUFFICES ASSUME Init PROVE PacketInv
    OBVIOUS
<1>1. \A S : <<>> \in Seq(S)
    BY EmptySeq
<1>2. NoPacket \in GoodPacket
    BY DEF NoPacket, Packet, Parties, GoodPacket, CastKinds
<1>3. runner \in [Links -> [pc : RunnerPC, pkt : GoodPacket, todo : SUBSET Links]]
    BY <1>2 DEF Init, RunnerPC
<1>4. \A l \in Links : runner[l].pc = "start" /\ runner[l].todo = {}
    BY DEF Init
<1>5. wk \in [Workers -> [pc : WorkerPC, call : SUBSET GoodCall]]
    BY DEF Init, WorkerPC, Idle
<1>6. /\ tasks \in [Routers -> Seq(Task)]
      /\ requests \in [Links -> Seq(GoodPacket)]
      /\ up \in [Links -> Seq(OutPacket)] /\ down \in [Links -> Seq(GoodPacket)]
    BY <1>1 DEF Init
<1>7. /\ answered \subseteq Links /\ anyReady \subseteq Links /\ known \subseteq Links
      /\ sent \in [Broadcasts -> CastKinds \cup {"no"}]
      /\ heard \in [Users -> SUBSET GoodPacket] /\ echoed \in BOOLEAN
    BY DEF Init
<1> QED
    BY <1>3, <1>4, <1>5, <1>6, <1>7 DEF PacketInv

(* A step of a thread changes that thread and creates at most one call. *)
LEMMA RunnerStays ==
    ASSUME PacketInv, NEW l \in Links,
           NEW rec \in [pc : RunnerPC, pkt : GoodPacket, todo : SUBSET Links],
           rec.todo \subseteq LinksOf(RouterOf[l]),
           rec.pc \in {"forward", "sending"} => rec.pkt.kind = "sig_broadcast",
           runner' = [runner EXCEPT ![l] = rec],
           tasks' \in [Routers -> Seq(Task)],
           wk' \in [Workers -> [pc : WorkerPC, call : SUBSET GoodCall]],
           answered' \subseteq Links, anyReady' \subseteq Links,
           requests' \in [Links -> Seq(GoodPacket)],
           UNCHANGED net
    PROVE  PacketInv'
<1>1. runner' \in [Links -> [pc : RunnerPC, pkt : GoodPacket, todo : SUBSET Links]]
    BY DEF PacketInv
<1>2. ASSUME NEW k \in Links
      PROVE  /\ runner'[k].todo \subseteq LinksOf(RouterOf[k])
             /\ runner'[k].pc \in {"forward", "sending"}
                    => runner'[k].pkt.kind = "sig_broadcast"
    <2>1. CASE k = l BY <2>1 DEF PacketInv
    <2>2. CASE k # l BY <2>2 DEF PacketInv
    <2> QED BY <2>1, <2>2
<1> QED
    BY <1>1, <1>2 DEF PacketInv

LEMMA RunnerPackets ==
    ASSUME PacketInv, NEW l \in Links,
           \/ Ping(l) \/ AskForAny(l) \/ ForwardEnd(l)
           \/ \E t \in Links : Forward(l, t)
    PROVE  PacketInv'
<1> DEFINE R == [pc : RunnerPC, pkt : GoodPacket, todo : SUBSET Links]
<1>1. /\ runner[l] \in R /\ runner[l].todo \subseteq LinksOf(RouterOf[l])
      /\ runner[l].pc \in {"forward", "sending"} => runner[l].pkt.kind = "sig_broadcast"
    BY DEF PacketInv
<1>2. CASE Ping(l)
    <2> DEFINE c == NewCall("ping", l, l, [NoPacket EXCEPT !.from = l, !.ref = l])
    <2>1. c \in GoodCall
        <3>1. [NoPacket EXCEPT !.from = l, !.ref = l] \in OutPacket
            BY NewPackets
        <3> HIDE DEF NoPacket
        <3> QED BY <3>1 DEF NewCall, GoodCall, Call, CallKinds, OutPacket, GoodPacket
    <2> HIDE DEF c
    <2>2. tasks' \in [Routers -> Seq(Task)]
        BY <1>2, <2>1, CreatedTask DEF Ping, c
    <2>3. [runner[l] EXCEPT !.pc = "pinging"] \in R
        BY <1>1 DEF RunnerPC
    <2> QED
        BY <1>1, <1>2, <2>2, <2>3, RunnerStays DEF Ping, RunnerGoes, PacketInv
<1>3. CASE AskForAny(l)
    <2> DEFINE c == NewCall("gather", l, l, NoPacket)
    <2>1. c \in GoodCall
        BY NewPackets DEF NewCall, GoodCall, Call, CallKinds, GoodPacket
    <2> HIDE DEF c
    <2>2. tasks' \in [Routers -> Seq(Task)]
        BY <1>3, <2>1, CreatedTask DEF AskForAny, c
    <2>3. [runner[l] EXCEPT !.pc = "gathering"] \in R
        BY <1>1 DEF RunnerPC
    <2> QED
        BY <1>1, <1>3, <2>2, <2>3, RunnerStays DEF AskForAny, RunnerGoes, PacketInv
<1>4. CASE ForwardEnd(l)
    <2>1. [runner[l] EXCEPT !.pc = "loop", !.pkt = NoPacket] \in R
        BY <1>1, NewPackets DEF RunnerPC
    <2>2. /\ [runner[l] EXCEPT !.pc = "loop", !.pkt = NoPacket].pc = "loop"
          /\ [runner[l] EXCEPT !.pc = "loop", !.pkt = NoPacket].todo = runner[l].todo
        BY <1>1
    <2> QED
        BY <1>1, <1>4, <2>1, <2>2, RunnerStays DEF ForwardEnd, RunnerGoes, PacketInv
<1>5. ASSUME NEW t \in Links, Forward(l, t) PROVE PacketInv'
    <2> DEFINE c == NewCall("request", l, t, Forwarded(l, t))
               rec == [runner[l] EXCEPT !.pc = "sending", !.todo = @ \ {t}]
    <2>1. Forwarded(l, t) \in OutPacket
        BY <1>5, SentOn DEF Forward, RunnerGoes
    <2>2. c \in GoodCall
        BY <2>1 DEF NewCall, GoodCall, Call, CallKinds, OutPacket, GoodPacket
    <2>3. rec \in R /\ rec.todo \subseteq runner[l].todo /\ rec.pkt = runner[l].pkt
        BY <1>1 DEF RunnerPC
    <2>4. runner[l].pkt.kind = "sig_broadcast"
        BY <1>1, <1>5 DEF Forward, RunnerGoes
    <2>5. runner' = [runner EXCEPT ![l] = rec]
        BY <1>5 DEF Forward, RunnerGoes
    <2> HIDE DEF c, rec
    <2>6. tasks' \in [Routers -> Seq(Task)]
        BY <1>5, <2>2, CreatedTask DEF Forward, c
    <2> QED
        BY <1>1, <1>5, <2>3, <2>4, <2>5, <2>6, RunnerStays DEF Forward, PacketInv
<1> QED
    BY <1>2, <1>3, <1>4, <1>5

LEMMA WorkerPackets ==
    ASSUME PacketInv, Awaited, NEW w \in Workers,
           \/ StartCall(w) \/ HandleMessage(w)
           \/ \E c \in wk[w].call :
                 \/ FinishCall(w, c) \/ WakeGather(w, c) \/ ReturnNull(w, c)
                 \/ \E i \in DOMAIN requests[c.on] : ReturnRequest(w, c, i)
    PROVE  PacketInv'
<1> DEFINE R == [pc : RunnerPC, pkt : GoodPacket, todo : SUBSET Links]
           W == [pc : WorkerPC, call : SUBSET GoodCall]
<1>0. /\ Idle \in W /\ wk[w] \in W
      /\ \A c \in wk[w].call : c \in GoodCall /\ c.by \in Links /\ c.on \in Links
    BY DEF Idle, WorkerPC, PacketInv, GoodCall, Call
<1>1. CASE StartCall(w)
    <2> DEFINE c == Oldest(w)
    <2>1. c \in GoodCall /\ tasks' \in [Routers -> Seq(Task)]
        BY <1>1, TakenTask DEF StartCall
    <2>2. c.kind # "gather" => up[c.on] \in Seq(OutPacket) /\ c.pkt \in OutPacket
        BY <2>1 DEF GoodCall, Call, PacketInv
    <2>3. c.kind # "gather" => Append(up[c.on], c.pkt) \in Seq(OutPacket)
        BY <2>2, AppendProperties
    <2>4. up' \in [Links -> Seq(OutPacket)]
        BY <1>1, <2>3 DEF StartCall, PacketInv
    <2>5. wk' \in [Workers -> W]
        BY <1>1, <2>1 DEF StartCall, PacketInv, WorkerPC
    <2> QED
        BY <1>1, <2>1, <2>4, <2>5 DEF StartCall, PacketInv
<1>2. CASE HandleMessage(w)
    <2> DEFINE p == Oldest(w).pkt
               l == Oldest(w).on
    <2>1. Oldest(w) \in GoodMessage /\ tasks' \in [Routers -> Seq(Task)]
        BY <1>2, TakenTask DEF HandleMessage
    <2>2. l \in Links /\ p \in GoodPacket
        BY <2>1 DEF GoodMessage, Message
    <2>3. p.kind = "status" => p.ref \in Links
        BY <2>2 DEF GoodPacket
    <2>4. Append(requests[l], p) \in Seq(GoodPacket)
        BY <2>2, AppendProperties DEF PacketInv
    <2>5. /\ answered' \subseteq Links /\ anyReady' \subseteq Links
          /\ requests' \in [Links -> Seq(GoodPacket)]
        <3>1. /\ answered \subseteq Links /\ anyReady \subseteq Links
              /\ requests \in [Links -> Seq(GoodPacket)]
            BY DEF PacketInv
        <3>2. \/ /\ p.kind = "status" /\ answered' = answered \cup {p.ref}
                 /\ UNCHANGED <<anyReady, requests>>
              \/ /\ requests' = [requests EXCEPT ![l] = Append(@, p)]
                 /\ anyReady' = anyReady \cup {l} /\ answered' = answered
            BY <1>2 DEF HandleMessage, Answers
        <3> HIDE DEF l, p
        <3> QED BY ONLY <2>2, <2>3, <2>4, <3>1, <3>2
    <2> QED
        BY <1>2, <2>1, <2>5 DEF HandleMessage, PacketInv
<1>3. ASSUME NEW c \in wk[w].call, FinishCall(w, c) PROVE PacketInv'
    <2> DEFINE rec == [runner[c.by] EXCEPT !.pc = IF c.kind = "ping" THEN "loop" ELSE "forward"]
    <2>1. c.kind = "ping" \/ runner[c.by].pc = "sending"
        BY <1>0, <1>3 DEF FinishCall, GoodCall, Call, CallKinds, Awaited, Awaits
    <2>2. runner[c.by] \in R /\ runner[c.by].todo \subseteq LinksOf(RouterOf[c.by])
        BY <1>0 DEF PacketInv
    <2>3. rec \in R /\ rec.todo = runner[c.by].todo /\ rec.pkt = runner[c.by].pkt
        BY <2>2 DEF RunnerPC
    <2>4. rec.pc \in {"forward", "sending"} => rec.pkt.kind = "sig_broadcast"
        BY <1>0, <2>1, <2>2 DEF PacketInv
    <2>5. runner' = [runner EXCEPT ![c.by] = rec]
        BY <1>0, <1>3 DEF FinishCall
    <2> HIDE DEF rec
    <2>6. wk' \in [Workers -> W] /\ answered' \subseteq Links
        BY <1>0, <1>3 DEF FinishCall, PacketInv
    <2>7. /\ tasks' \in [Routers -> Seq(Task)] /\ anyReady' \subseteq Links
          /\ requests' \in [Links -> Seq(GoodPacket)] /\ UNCHANGED net
        BY <1>3 DEF FinishCall, PacketInv
    <2> QED
        BY <1>0, <2>2, <2>3, <2>4, <2>5, <2>6, <2>7, RunnerStays
<1>4. ASSUME NEW c \in wk[w].call, WakeGather(w, c) PROVE PacketInv'
    BY <1>0, <1>4 DEF WakeGather, PacketInv, WorkerPC
<1>5. ASSUME NEW c \in wk[w].call, ReturnNull(w, c) PROVE PacketInv'
    <2> DEFINE rec == [runner[c.by] EXCEPT !.pc = "loop"]
    <2>1. runner[c.by] \in R /\ runner[c.by].todo \subseteq LinksOf(RouterOf[c.by])
        BY <1>0 DEF PacketInv
    <2>2. rec \in R /\ rec.todo = runner[c.by].todo /\ rec.pc = "loop"
        BY <2>1 DEF RunnerPC
    <2>3. runner' = [runner EXCEPT ![c.by] = rec]
        BY <1>0, <1>5 DEF ReturnNull
    <2> HIDE DEF rec
    <2>4. wk' \in [Workers -> W]
        BY <1>0, <1>5 DEF ReturnNull, PacketInv
    <2>5. /\ tasks' \in [Routers -> Seq(Task)] /\ answered' \subseteq Links
          /\ anyReady' \subseteq Links /\ requests' \in [Links -> Seq(GoodPacket)]
          /\ UNCHANGED net
        BY <1>5 DEF ReturnNull, PacketInv
    <2>6. c.by \in Links /\ ~(rec.pc \in {"forward", "sending"})
        BY <1>0, <2>2
    <2> QED
        BY <2>1, <2>2, <2>3, <2>4, <2>5, <2>6, RunnerStays
<1>6. ASSUME NEW c \in wk[w].call, NEW i \in DOMAIN requests[c.on],
             ReturnRequest(w, c, i)
      PROVE  PacketInv'
    <2> DEFINE p == requests[c.on][i]
               fwd == [pc |-> "forward", pkt |-> p, todo |-> Others(c.by)]
               back == [runner[c.by] EXCEPT !.pc = "loop"]
               rec == IF p.kind = "sig_broadcast" THEN fwd ELSE back
    <2>1. requests[c.on] \in Seq(GoodPacket)
        BY <1>0 DEF PacketInv
    <2>2. p \in GoodPacket /\ RemoveAt(requests[c.on], i) \in Seq(GoodPacket)
        BY <2>1, RemovedAt, ElementOfSeq, LenProperties
    <2>3. runner[c.by] \in R /\ runner[c.by].todo \subseteq LinksOf(RouterOf[c.by])
        BY <1>0 DEF PacketInv
    <2>4. back \in R /\ back.todo = runner[c.by].todo /\ back.pc = "loop"
        BY <2>3 DEF RunnerPC
    <2>5. fwd \in R /\ fwd.todo \subseteq LinksOf(RouterOf[c.by]) /\ fwd.pkt = p
        BY <1>0, <2>2 DEF RunnerPC, Others, LinksOf
    <2>6. runner' = [runner EXCEPT ![c.by] = rec]
        BY <1>0, <1>6 DEF ReturnRequest
    <2>7. /\ rec \in R /\ rec.todo \subseteq LinksOf(RouterOf[c.by])
          /\ rec.pc \in {"forward", "sending"} => rec.pkt.kind = "sig_broadcast"
        <3> HIDE DEF p, fwd, back
        <3> QED BY <2>3, <2>4, <2>5
    <2> HIDE DEF rec
    <2>8. wk' \in [Workers -> W] /\ requests' \in [Links -> Seq(GoodPacket)]
        BY <1>0, <1>6, <2>2 DEF ReturnRequest, PacketInv
    <2>9. /\ tasks' \in [Routers -> Seq(Task)] /\ answered' \subseteq Links
          /\ anyReady' \subseteq Links /\ UNCHANGED net
        BY <1>6 DEF ReturnRequest, PacketInv
    <2> QED
        BY <1>0, <2>6, <2>7, <2>8, <2>9, RunnerStays
<1> QED
    BY <1>1, <1>2, <1>3, <1>4, <1>5, <1>6

(* A copy of a broadcast says who has sent it, as the packet itself does. *)
LEMMA CopiedPacket ==
    ASSUME NEW p \in GoodPacket, p.kind \in CastKinds
    PROVE  [p EXCEPT !.ref = Nobody] \in GoodPacket
<1> DEFINE f == [p EXCEPT !.ref = Nobody]
<1>1. p \in Packet /\ p.id \in Broadcasts /\ Orig(p) = Origin[p.id]
    BY DEF GoodPacket
<1>2. /\ f \in Packet /\ f.kind = p.kind /\ f.id = p.id
      /\ f.from = p.from /\ f.trav = p.trav
    BY <1>1 DEF Packet
<1> HIDE DEF f
<1>3. f.kind # "status" /\ Orig(f) = Orig(p)
    BY <1>2 DEF CastKinds, Orig
<1>4. f \in GoodPacket
    BY <1>1, <1>2, <1>3 DEF GoodPacket
<1> QED
    BY <1>4 DEF f

LEMMA CastPacket ==
    ASSUME PacketInv, NEW p \in GoodPacket, NEW x
    PROVE  /\ \A k : Copies(p, x, k) \in Seq(GoodPacket)
           /\ Hear(p, x) => /\ heard' \in [Users -> SUBSET GoodPacket]
                            /\ echoed' \in BOOLEAN
<1>1. \A k : Copies(p, x, k) \in Seq(GoodPacket)
    BY CopiedPacket, EmptySeq DEF Copies
<1>2. ASSUME Hear(p, x) PROVE heard' \in [Users -> SUBSET GoodPacket]
    <2>1. \A u \in Hearers(p, x) : p.kind \in CastKinds
        BY DEF Hearers
    <2>2. \A u \in Users : heard[u] \in SUBSET GoodPacket
        BY DEF PacketInv
    <2>3. \A u \in Users : u \in Hearers(p, x)
              => heard[u] \cup {[p EXCEPT !.ref = Nobody]} \in SUBSET GoodPacket
        BY <2>1, <2>2, CopiedPacket
    <2> QED
        BY <1>2, <2>2, <2>3 DEF Hear
<1>3. ASSUME Hear(p, x) PROVE echoed' \in BOOLEAN
    BY <1>3 DEF Hear
<1> QED
    BY <1>1, <1>2, <1>3

LEMMA NetPackets ==
    ASSUME PacketInv,
           \/ \E l \in Links : Receive(l) \/ ServerHandle(l)
           \/ \E b \in Broadcasts : \E k \in Kinds[b] : Broadcast(b, k)
    PROVE  PacketInv'
<1>1. ASSUME NEW l \in Links, Receive(l) PROVE PacketInv'
    <2> DEFINE m == [kind |-> "message", on |-> l, pkt |-> Head(down[l])]
    <2>1. down[l] \in Seq(GoodPacket) /\ down[l] # <<>> /\ RouterOf[l] \in Routers
        BY <1>1, TopologyAssumption DEF Receive, PacketInv
    <2>2. Head(down[l]) \in GoodPacket /\ Tail(down[l]) \in Seq(GoodPacket)
        BY <2>1, HeadTailProperties
    <2>3. m \in Task
        BY <2>2 DEF Task, GoodMessage, Message, GoodPacket
    <2>4. Append(tasks[RouterOf[l]], m) \in Seq(Task)
        BY <2>1, <2>3, AppendProperties DEF PacketInv
    <2> QED
        BY <1>1, <2>2, <2>4 DEF Receive, PacketInv
<1>2. ASSUME NEW l \in Links, ServerHandle(l) PROVE PacketInv'
    <2> DEFINE p == Head(up[l])
               answer == [NoPacket EXCEPT !.kind = "status", !.ref = p.ref]
               sentTo(k) == IF k = l THEN <<answer>> ELSE Copies(p, l, k)
    <2>1. up[l] \in Seq(OutPacket) /\ up[l] # <<>>
        BY <1>2 DEF ServerHandle, PacketInv
    <2>2. p \in OutPacket /\ Tail(up[l]) \in Seq(OutPacket)
        BY <2>1, HeadTailProperties
    <2>3. p \in GoodPacket /\ answer \in GoodPacket
        BY <2>2, NewPackets DEF OutPacket
    <2>4. /\ Hear(p, l) /\ up' = [up EXCEPT ![l] = Tail(@)]
          /\ down' = [k \in Links |-> down[k] \o sentTo(k)]
          /\ known' = known \cup {l}
          /\ UNCHANGED <<runner, tasks, wk, answered, anyReady, requests, sent>>
        BY <1>2 DEF ServerHandle
    <2> HIDE DEF p, answer
    <2>5. \A k : sentTo(k) \in Seq(GoodPacket)
        <3>1. <<answer>> \in Seq(GoodPacket)
            BY <2>3
        <3> QED BY <2>3, <3>1, CastPacket
    <2> HIDE DEF sentTo
    <2>6. ASSUME NEW k \in Links PROVE down[k] \o sentTo(k) \in Seq(GoodPacket)
        BY <2>5, ConcatProperties DEF PacketInv
    <2>7. down' \in [Links -> Seq(GoodPacket)]
        BY <2>4, <2>6
    <2>8. up' \in [Links -> Seq(OutPacket)]
        BY <2>2, <2>4 DEF PacketInv
    <2> QED
        BY <2>3, <2>4, <2>7, <2>8, CastPacket DEF PacketInv
<1>3. ASSUME NEW b \in Broadcasts, NEW kind \in Kinds[b], Broadcast(b, kind)
      PROVE  PacketInv'
    <2> DEFINE x == Sender[b]
               p == [NoPacket EXCEPT !.kind = kind, !.id = b, !.from = x,
                       !.trav = IF Origin[b] = x THEN Nobody ELSE Origin[b]]
    <2>1. /\ x \in Users /\ Origin[b] \in Users /\ Nobody \notin Users
          /\ kind \in CastKinds
        BY TopologyAssumption, KindsAssumption DEF Parties
    <2>2. /\ p.kind = kind /\ p.id = b /\ p.from = x
          /\ p.trav = (IF Origin[b] = x THEN Nobody ELSE Origin[b])
        BY DEF NoPacket
    <2>3. p \in Packet
        BY <2>1 DEF NoPacket, Packet, Parties
    <2>4. /\ Hear(p, x) /\ down' = [k \in Links |-> down[k] \o Copies(p, x, k)]
          /\ sent' = [sent EXCEPT ![b] = kind]
          /\ UNCHANGED <<runner, tasks, wk, answered, anyReady, requests, up, known>>
        BY <1>3 DEF Broadcast
    <2> HIDE DEF p, x
    <2>5. p \in GoodPacket
        BY <2>1, <2>2, <2>3 DEF GoodPacket, Orig, CastKinds
    <2>6. ASSUME NEW k \in Links PROVE down[k] \o Copies(p, x, k) \in Seq(GoodPacket)
        BY <2>5, CastPacket, ConcatProperties DEF PacketInv
    <2>7. down' \in [Links -> Seq(GoodPacket)]
        BY <2>4, <2>6
    <2> QED
        BY <2>1, <2>4, <2>5, <2>7, CastPacket DEF PacketInv
<1> QED
    BY <1>1, <1>2, <1>3

-----------------------------------------------------------------------------
(* Calls.  Where the tasks of a loop are after one is added or taken. *)

LEMMA AddedTask ==
    ASSUME PacketInv, NEW r \in Routers, NEW m \in Task,
           tasks' = [tasks EXCEPT ![r] = Append(@, m)]
    PROVE  \A s \in Routers : \A i \in DOMAIN tasks'[s] :
              \/ i \in DOMAIN tasks[s] /\ tasks'[s][i] = tasks[s][i]
              \/ /\ s = r /\ i = Len(tasks[r]) + 1 /\ i \notin DOMAIN tasks[r]
                 /\ tasks'[s][i] = m
<1>1. tasks[r] \in Seq(Task)
    BY DEF PacketInv
<1>2. tasks'[r] = Append(tasks[r], m)
    BY DEF PacketInv
<1>3. \A s \in Routers : s # r => tasks'[s] = tasks[s]
    BY DEF PacketInv
<1>4. /\ DOMAIN tasks[r] = 1..Len(tasks[r]) /\ Len(tasks[r]) \in Nat
      /\ DOMAIN Append(tasks[r], m) = 1..Len(tasks[r]) + 1
    BY <1>1, AppendProperties, LenProperties
<1>5. \A i \in 1..Len(tasks[r]) : Append(tasks[r], m)[i] = tasks[r][i]
    BY <1>1, AppendProperties
<1>6. Append(tasks[r], m)[Len(tasks[r]) + 1] = m
    BY <1>1, AppendProperties
<1> QED
    BY <1>2, <1>3, <1>4, <1>5, <1>6

LEMMA RemovedTask ==
    ASSUME PacketInv, NEW w \in Workers, TakesTask(w)
    PROVE  /\ 1 \in DOMAIN tasks[LoopOf[w]] /\ Oldest(w) = tasks[LoopOf[w]][1]
           /\ \A s \in Routers \ {LoopOf[w]} : tasks'[s] = tasks[s]
           /\ \A i \in DOMAIN tasks'[LoopOf[w]] :
                 /\ i \in Nat /\ i + 1 # 1 /\ i + 1 \in DOMAIN tasks[LoopOf[w]]
                 /\ tasks'[LoopOf[w]][i] = tasks[LoopOf[w]][i + 1]
<1> DEFINE q == tasks[LoopOf[w]]
<1>1. LoopOf[w] \in Routers
    BY TopologyAssumption
<1>2. q \in Seq(Task) /\ q # <<>>
    BY <1>1 DEF PacketInv, TakesTask
<1>3. tasks'[LoopOf[w]] = Tail(q)
    BY <1>1 DEF PacketInv, TakesTask
<1>4. \A s \in Routers \ {LoopOf[w]} : tasks'[s] = tasks[s]
    BY <1>1 DEF PacketInv, TakesTask
<1>5. Len(q) \in Nat \ {0} /\ DOMAIN q = 1..Len(q)
    BY <1>2, EmptySeq, LenProperties
<1>6. /\ DOMAIN Tail(q) = 1..Len(q) - 1
      /\ \A i \in 1..Len(q) - 1 : Tail(q)[i] = q[i + 1]
    BY <1>2, HeadTailProperties, LenProperties
<1>7. Oldest(w) = q[1]
    BY <1>2, <1>5 DEF Oldest
<1> HIDE DEF q
<1>8. ASSUME NEW i \in DOMAIN Tail(q)
      PROVE  i \in Nat /\ i + 1 # 1 /\ i + 1 \in DOMAIN q /\ Tail(q)[i] = q[i + 1]
    BY <1>5, <1>6
<1>9. 1 \in DOMAIN q
    BY <1>5
<1> QED
    BY <1>3, <1>4, <1>7, <1>8, <1>9 DEF q

LEMMA CallTypes ==
    ASSUME PacketInv
    PROVE  /\ \A w \in Workers : \A c \in wk[w].call : c \in GoodCall
           /\ \A r \in Routers : \A i \in DOMAIN tasks[r] :
                 tasks[r][i].kind \in CallKinds => tasks[r][i] \in GoodCall
           /\ \A c \in GoodCall : c.by \in Links /\ c.on \in Links /\ c.kind \in CallKinds
<1>1. \A w \in Workers : \A c \in wk[w].call : c \in GoodCall
    BY DEF PacketInv
<1>2. ASSUME NEW r \in Routers, NEW i \in DOMAIN tasks[r], tasks[r][i].kind \in CallKinds
      PROVE  tasks[r][i] \in GoodCall
    <2>1. tasks[r][i] \in Task
        BY ElementOfSeq, LenProperties DEF PacketInv
    <2>2. tasks[r][i].kind # "message"
        BY <1>2 DEF CallKinds
    <2> QED
        BY <2>1, <2>2 DEF Task, GoodMessage, Message
<1> QED
    BY <1>1, <1>2 DEF GoodCall, Call

(* A thread that is not in a call has none, waiting or run. *)
LEMMA NoCallOf ==
    ASSUME PacketInv, Awaited, NEW l \in Links,
           runner[l].pc \in {"start", "loop", "forward"}
    PROVE  /\ \A w \in Workers : \A c \in wk[w].call : c.by # l
           /\ \A r \in Routers : \A i \in DOMAIN tasks[r] :
                 tasks[r][i].kind \in CallKinds => tasks[r][i].by # l
<1>1. ASSUME NEW c \in GoodCall, Awaits(c) PROVE c.by # l
    BY <1>1, CallTypes DEF Awaits, CallKinds
<1> QED
    BY <1>1, CallTypes DEF Awaited

(* A call that a thread starts is the only one it has. *)
LEMMA CreatedCall ==
    ASSUME PacketInv, CallInv, NEW l \in Links, NEW rec, NEW c \in GoodCall, c.by = l,
           runner[l].pc \in {"start", "loop", "forward"},
           c.kind = "ping" => rec.pc = "pinging",
           c.kind = "gather" => rec.pc = "gathering",
           c.kind = "request" => rec.pc = "sending",
           runner' = [runner EXCEPT ![l] = rec], Create(c), wk' = wk
    PROVE  CallInv'
<1>1. RouterOf[l] \in Routers /\ c \in Task
    BY TopologyAssumption DEF Task
<1>2. tasks' = [tasks EXCEPT ![RouterOf[l]] = Append(@, c)]
    BY DEF Create
<1>3. \A s \in Routers : \A i \in DOMAIN tasks'[s] :
              \/ i \in DOMAIN tasks[s] /\ tasks'[s][i] = tasks[s][i]
              \/ /\ s = RouterOf[l] /\ i = Len(tasks[RouterOf[l]]) + 1
                 /\ i \notin DOMAIN tasks[RouterOf[l]] /\ tasks'[s][i] = c
    BY <1>1, <1>2, AddedTask
<1>4. runner'[l] = rec /\ \A k \in Links : k # l => runner'[k] = runner[k]
    BY DEF PacketInv
<1>5. ASSUME NEW d \in GoodCall, Awaits(d), d.by # l
      PROVE  runner'[d.by] = runner[d.by]
    BY <1>4, <1>5, CallTypes
<1>6. ASSUME NEW w \in Workers, NEW d \in wk'[w].call
      PROVE  Awaits(d)' /\ RouterOf[d.by] = LoopOf[w]
    <2>1. Awaits(d) /\ d.by # l /\ d \in GoodCall /\ RouterOf[d.by] = LoopOf[w]
        BY CallTypes, NoCallOf DEF CallInv, Awaited
    <2> QED
        BY <1>5, <2>1 DEF Awaits
<1>7. ASSUME NEW r \in Routers, NEW i \in DOMAIN tasks'[r],
             tasks'[r][i].kind \in CallKinds
      PROVE  Awaits(tasks[r][i])' /\ RouterOf[tasks'[r][i].by] = r
    <2>1. CASE i \in DOMAIN tasks[r] /\ tasks'[r][i] = tasks[r][i]
        <3> DEFINE d == tasks[r][i]
        <3>1. Awaits(d) /\ d.by # l /\ d \in GoodCall /\ RouterOf[d.by] = r
            BY <1>7, <2>1, CallTypes, NoCallOf DEF CallInv, Awaited
        <3>2. runner'[d.by] = runner[d.by]
            BY <1>5, <3>1
        <3> QED
            BY <2>1, <3>1, <3>2 DEF Awaits
    <2>2. CASE r = RouterOf[l] /\ tasks'[r][i] = c
        BY <1>4, <2>2 DEF Awaits
    <2> QED BY <1>3, <2>1, <2>2
<1>8. Awaited'
    BY <1>6, <1>7 DEF Awaited
<1>9. OneCallEach'
    <2>1. ASSUME NEW w \in Workers, NEW r \in Routers, NEW i \in DOMAIN tasks'[r],
                 NEW d \in wk'[w].call, tasks'[r][i].kind \in CallKinds
          PROVE  tasks'[r][i].by # d.by
        BY <1>3, <2>1, NoCallOf DEF CallInv, OneCallEach
    <2>2. ASSUME NEW r \in Routers, NEW i \in DOMAIN tasks'[r], NEW j \in DOMAIN tasks'[r],
                 tasks'[r][i].kind \in CallKinds, tasks'[r][j].kind \in CallKinds, i # j
          PROVE  tasks'[r][i].by # tasks'[r][j].by
        BY <1>3, <2>2, NoCallOf DEF CallInv, OneCallEach
    <2> QED BY <2>1, <2>2 DEF CallInv, OneCallEach
<1> QED
    BY <1>8, <1>9 DEF CallInv

(* A worker starts the oldest call, or handles the oldest message. *)
LEMMA StartedTask ==
    ASSUME PacketInv, CallInv, NEW w \in Workers, StartCall(w) \/ HandleMessage(w)
    PROVE  CallInv'
<1> DEFINE r == LoopOf[w]
<1>1. /\ TakesTask(w) /\ runner' = runner
      /\ \/ Oldest(w).kind \in CallKinds
             /\ wk' = [wk EXCEPT ![w] = [pc |-> "blocked", call |-> {Oldest(w)}]]
         \/ wk' = wk
    BY DEF StartCall, HandleMessage
<1>2. r \in Routers /\ wk[w].pc = "idle" /\ wk[w].call = {}
    BY <1>1, TopologyAssumption DEF TakesTask, CallInv, OneCallEach
<1>3. /\ 1 \in DOMAIN tasks[r] /\ Oldest(w) = tasks[r][1]
      /\ \A s \in Routers \ {r} : tasks'[s] = tasks[s]
      /\ \A i \in DOMAIN tasks'[r] : /\ i \in Nat /\ i + 1 # 1 /\ i + 1 \in DOMAIN tasks[r]
                                     /\ tasks'[r][i] = tasks[r][i + 1]
    BY <1>1, RemovedTask
<1> DEFINE at(s, i) == IF s = r THEN i + 1 ELSE i
<1>4. \A s \in Routers : \A i \in DOMAIN tasks'[s] :
          at(s, i) \in DOMAIN tasks[s] /\ tasks'[s][i] = tasks[s][at(s, i)]
    BY <1>3
<1>5. \A s \in Routers : \A i, j \in DOMAIN tasks'[s] : i # j => at(s, i) # at(s, j)
    BY <1>3
<1>6. \A x \in Workers : \A c \in wk'[x].call :
          \/ c \in wk[x].call
          \/ x = w /\ c = tasks[r][1] /\ c.kind \in CallKinds
    BY <1>1, <1>3 DEF PacketInv
<1>7. Awaited'
    <2>1. ASSUME NEW x \in Workers, NEW c \in wk'[x].call
          PROVE  Awaits(c)' /\ RouterOf[c.by] = LoopOf[x]
        BY <1>1, <1>2, <1>3, <1>6 DEF CallInv, Awaited, Awaits
    <2>2. ASSUME NEW s \in Routers, NEW i \in DOMAIN tasks'[s],
                 tasks'[s][i].kind \in CallKinds
          PROVE  Awaits(tasks[s][i])' /\ RouterOf[tasks'[s][i].by] = s
        BY <1>1, <1>4, <2>2 DEF CallInv, Awaited, Awaits
    <2> QED BY <2>1, <2>2 DEF Awaited
<1>8. OneCallEach'
    <2>1. ASSUME NEW x \in Workers
          PROVE  /\ wk'[x].pc = "blocked" => wk'[x].call # {}
                 /\ wk'[x].pc = "idle" => wk'[x].call = {}
                 /\ \A c, d \in wk'[x].call : c = d
        <3>1. CASE wk'[x] = wk[x]
            BY <3>1 DEF CallInv, OneCallEach
        <3>2. CASE wk'[x] = [pc |-> "blocked", call |-> {Oldest(w)}]
            BY <3>2
        <3> QED BY <1>1, <3>1, <3>2 DEF PacketInv
    <2>2. ASSUME NEW x \in Workers, NEW y \in Workers,
                 NEW c \in wk'[x].call, NEW d \in wk'[y].call, x # y
          PROVE  c.by # d.by
        BY <1>2, <1>3, <1>6, <2>2 DEF CallInv, OneCallEach
    <2>3. ASSUME NEW x \in Workers, NEW s \in Routers, NEW i \in DOMAIN tasks'[s],
                 NEW c \in wk'[x].call, tasks'[s][i].kind \in CallKinds
          PROVE  tasks'[s][i].by # c.by
        <3>1. CASE c \in wk[x].call
            BY <1>4, <2>3, <3>1 DEF CallInv, OneCallEach
        <3>2. CASE c = tasks[r][1] /\ c.kind \in CallKinds
            <4>1. CASE s = r
                BY <1>2, <1>3, <2>3, <3>2, <4>1 DEF CallInv, OneCallEach
            <4>2. CASE s # r
                BY <1>2, <1>3, <2>3, <3>2, <4>2 DEF CallInv, Awaited
            <4> QED BY <4>1, <4>2
        <3> QED BY <1>6, <3>1, <3>2
    <2>4. ASSUME NEW s \in Routers, NEW i \in DOMAIN tasks'[s], NEW j \in DOMAIN tasks'[s],
                 tasks'[s][i].kind \in CallKinds, tasks'[s][j].kind \in CallKinds, i # j
          PROVE  tasks'[s][i].by # tasks'[s][j].by
        BY <1>4, <1>5, <2>4 DEF CallInv, OneCallEach
    <2> QED BY <2>1, <2>2, <2>3, <2>4 DEF OneCallEach
<1> QED
    BY <1>7, <1>8 DEF CallInv

(* A call that returns leaves its thread without any. *)
LEMMA ReturnedCall ==
    ASSUME PacketInv, CallInv, NEW w \in Workers, NEW c \in wk[w].call, NEW rec,
           runner' = [runner EXCEPT ![c.by] = rec],
           wk' = [wk EXCEPT ![w] = Idle], tasks' = tasks
    PROVE  CallInv'
<1>1. c \in GoodCall /\ c.by \in Links
    BY CallTypes
<1>2. /\ \A x \in Workers : x # w => wk'[x] = wk[x]
      /\ wk'[w].pc = "idle" /\ wk'[w].call = {}
    BY DEF PacketInv, Idle
<1>3. \A k \in Links : k # c.by => runner'[k] = runner[k]
    BY DEF PacketInv
<1>4. ASSUME NEW x \in Workers, NEW d \in wk'[x].call
      PROVE  Awaits(d)' /\ RouterOf[d.by] = LoopOf[x]
    <2>1. d \in wk[x].call /\ x # w
        BY <1>2
    <2>2. d.by \in Links /\ d.by # c.by
        BY <2>1, CallTypes DEF CallInv, OneCallEach
    <2> QED
        BY <1>3, <2>1, <2>2 DEF CallInv, Awaited, Awaits
<1>5. ASSUME NEW r \in Routers, NEW i \in DOMAIN tasks[r], tasks[r][i].kind \in CallKinds
      PROVE  Awaits(tasks[r][i])' /\ RouterOf[tasks[r][i].by] = r
    <2>1. tasks[r][i].by \in Links /\ tasks[r][i].by # c.by
        BY <1>5, CallTypes DEF CallInv, OneCallEach
    <2> QED
        BY <1>3, <1>5, <2>1 DEF CallInv, Awaited, Awaits
<1>6. Awaited'
    BY <1>4, <1>5 DEF Awaited
<1>7. OneCallEach'
    BY <1>2 DEF CallInv, OneCallEach
<1> QED
    BY <1>6, <1>7 DEF CallInv

LEMMA RunnerCalls ==
    ASSUME PacketInv, CallInv, NEW l \in Links,
           \/ Ping(l) \/ AskForAny(l) \/ ForwardEnd(l)
           \/ \E t \in Links : Forward(l, t)
    PROVE  CallInv'
<1>0. runner[l] \in [pc : RunnerPC, pkt : GoodPacket, todo : SUBSET Links]
    BY DEF PacketInv
<1>1. CASE Ping(l)
    <2> DEFINE p == [NoPacket EXCEPT !.from = l, !.ref = l]
               c == NewCall("ping", l, l, p)
               rec == [runner[l] EXCEPT !.pc = "pinging"]
    <2>1. p \in OutPacket
        BY NewPackets
    <2>2. /\ runner' = [runner EXCEPT ![l] = rec] /\ Create(c) /\ wk' = wk
          /\ runner[l].pc = "start" /\ rec.pc = "pinging"
        BY <1>0, <1>1 DEF Ping, RunnerGoes
    <2> HIDE DEF p, rec
    <2>3. c \in GoodCall /\ c.by = l /\ c.kind = "ping"
        BY <2>1 DEF NewCall, GoodCall, Call, CallKinds, OutPacket, GoodPacket
    <2> HIDE DEF c
    <2> QED
        BY <2>2, <2>3, CreatedCall
<1>2. CASE AskForAny(l)
    <2> DEFINE c == NewCall("gather", l, l, NoPacket)
               rec == [runner[l] EXCEPT !.pc = "gathering"]
    <2>1. /\ runner' = [runner EXCEPT ![l] = rec] /\ Create(c) /\ wk' = wk
          /\ runner[l].pc = "loop" /\ rec.pc = "gathering"
        BY <1>0, <1>2 DEF AskForAny, RunnerGoes
    <2> HIDE DEF rec
    <2>2. c \in GoodCall /\ c.by = l /\ c.kind = "gather"
        BY NewPackets DEF NewCall, GoodCall, Call, CallKinds, GoodPacket
    <2> HIDE DEF c
    <2> QED
        BY <2>1, <2>2, CreatedCall
<1>3. CASE ForwardEnd(l)
    <2>1. /\ \A k \in Links : k # l => runner'[k] = runner[k]
          /\ tasks' = tasks /\ wk' = wk /\ runner[l].pc = "forward"
        BY <1>3 DEF ForwardEnd, RunnerGoes, PacketInv
    <2>2. Awaited'
        BY <2>1, NoCallOf, CallTypes DEF CallInv, Awaited, Awaits
    <2>3. OneCallEach'
        BY <2>1 DEF CallInv, OneCallEach
    <2> QED BY <2>2, <2>3 DEF CallInv
<1>4. ASSUME NEW t \in Links, Forward(l, t) PROVE CallInv'
    <2> DEFINE c == NewCall("request", l, t, Forwarded(l, t))
               rec == [runner[l] EXCEPT !.pc = "sending", !.todo = @ \ {t}]
    <2>1. Forwarded(l, t) \in OutPacket
        BY <1>4, SentOn DEF Forward, RunnerGoes
    <2>2. /\ runner' = [runner EXCEPT ![l] = rec] /\ Create(c) /\ wk' = wk
          /\ runner[l].pc = "forward" /\ rec.pc = "sending"
        BY <1>0, <1>4 DEF Forward, RunnerGoes
    <2> HIDE DEF rec
    <2>3. c \in GoodCall /\ c.by = l /\ c.kind = "request"
        BY <2>1 DEF NewCall, GoodCall, Call, CallKinds, OutPacket, GoodPacket
    <2> HIDE DEF c
    <2> QED
        BY <2>2, <2>3, CreatedCall
<1> QED
    BY <1>1, <1>2, <1>3, <1>4

LEMMA WorkerCalls ==
    ASSUME PacketInv, CallInv, NEW w \in Workers,
           \/ StartCall(w) \/ HandleMessage(w)
           \/ \E c \in wk[w].call :
                 \/ FinishCall(w, c) \/ WakeGather(w, c) \/ ReturnNull(w, c)
                 \/ \E i \in DOMAIN requests[c.on] : ReturnRequest(w, c, i)
    PROVE  CallInv'
<1>1. ASSUME NEW c \in wk[w].call, FinishCall(w, c) PROVE CallInv'
    <2>1. PICK rec : runner' = [runner EXCEPT ![c.by] = rec]
        BY <1>1 DEF FinishCall
    <2> QED
        BY <1>1, <2>1, ReturnedCall DEF FinishCall
<1>2. ASSUME NEW c \in wk[w].call, ReturnNull(w, c) PROVE CallInv'
    <2>1. PICK rec : runner' = [runner EXCEPT ![c.by] = rec]
        BY <1>2 DEF ReturnNull
    <2> QED
        BY <1>2, <2>1, ReturnedCall DEF ReturnNull
<1>3. ASSUME NEW c \in wk[w].call, NEW i \in DOMAIN requests[c.on],
             ReturnRequest(w, c, i)
      PROVE  CallInv'
    <2>1. PICK rec : runner' = [runner EXCEPT ![c.by] = rec]
        BY <1>3 DEF ReturnRequest
    <2>2. wk' = [wk EXCEPT ![w] = Idle] /\ tasks' = tasks
        BY <1>3 DEF ReturnRequest
    <2> QED
        BY <2>1, <2>2, ReturnedCall
<1>4. ASSUME NEW c \in wk[w].call, WakeGather(w, c) PROVE CallInv'
    <2>1. /\ runner' = runner /\ tasks' = tasks
          /\ \A x \in Workers : x # w => wk'[x] = wk[x]
          /\ wk'[w].call = wk[w].call /\ wk'[w].pc = "collect"
        BY <1>4 DEF WakeGather, PacketInv
    <2>2. \A x \in Workers : wk'[x].call = wk[x].call
        BY <2>1
    <2>3. Awaited'
        BY <2>1, <2>2 DEF CallInv, Awaited, Awaits
    <2>4. OneCallEach'
        BY <2>1, <2>2 DEF CallInv, OneCallEach
    <2> QED BY <2>3, <2>4 DEF CallInv
<1> QED
    BY <1>1, <1>2, <1>3, <1>4, StartedTask

LEMMA NetCalls ==
    ASSUME PacketInv, CallInv,
           \/ \E l \in Links : Receive(l) \/ ServerHandle(l)
           \/ \E b \in Broadcasts : \E k \in Kinds[b] : Broadcast(b, k)
    PROVE  CallInv'
<1>1. ASSUME NEW l \in Links, Receive(l) PROVE CallInv'
    <2> DEFINE m == [kind |-> "message", on |-> l, pkt |-> Head(down[l])]
               r == RouterOf[l]
    <2>1. down[l] \in Seq(GoodPacket) /\ down[l] # <<>> /\ r \in Routers
        BY <1>1, TopologyAssumption DEF Receive, PacketInv
    <2>2. Head(down[l]) \in GoodPacket
        BY <2>1, HeadTailProperties
    <2>3. m \in Task /\ m.kind \notin CallKinds
        BY <2>2 DEF Task, GoodMessage, Message, GoodPacket, CallKinds
    <2>4. /\ tasks' = [tasks EXCEPT ![r] = Append(@, m)]
          /\ runner' = runner /\ wk' = wk
        BY <1>1 DEF Receive
    <2> HIDE DEF m
    <2>5. \A s \in Routers : \A i \in DOMAIN tasks'[s] :
              tasks'[s][i].kind \in CallKinds
                  => i \in DOMAIN tasks[s] /\ tasks'[s][i] = tasks[s][i]
        BY <2>1, <2>3, <2>4, AddedTask
    <2>6. Awaited'
        BY <2>4, <2>5 DEF CallInv, Awaited, Awaits
    <2>7. ASSUME NEW w \in Workers, NEW s \in Routers, NEW i \in DOMAIN tasks'[s],
                 NEW c \in wk'[w].call, tasks'[s][i].kind \in CallKinds
          PROVE  tasks'[s][i].by # c.by
        BY <2>4, <2>5, <2>7 DEF CallInv, OneCallEach
    <2>8. ASSUME NEW s \in Routers, NEW i \in DOMAIN tasks'[s], NEW j \in DOMAIN tasks'[s],
                 tasks'[s][i].kind \in CallKinds, tasks'[s][j].kind \in CallKinds, i # j
          PROVE  tasks'[s][i].by # tasks'[s][j].by
        BY <2>4, <2>5, <2>8 DEF CallInv, OneCallEach
    <2>9. OneCallEach'
        BY <2>4, <2>7, <2>8 DEF CallInv, OneCallEach
    <2> QED BY <2>6, <2>9 DEF CallInv
<1>2. ASSUME UNCHANGED <<runner, tasks, wk>> PROVE CallInv'
    BY <1>2 DEF CallInv, Awaited, Awaits, OneCallEach
<1> QED
    BY <1>1, <1>2 DEF ServerHandle, Broadcast

LEMMA CallInit == Init => CallInv
<1> SUFFICES ASSUME Init PROVE CallInv
    OBVIOUS
<1>1. \A w \in Workers : wk[w].pc = "idle" /\ wk[w].call = {}
    BY DEF Init, Idle
<1>2. \A r \in Routers : DOMAIN tasks[r] = {}
    BY EmptySeq, LenProperties DEF Init
<1> QED
    BY <1>1, <1>2 DEF CallInv, Awaited, OneCallEach

LEMMA RouterInit == Init => PacketInv /\ CallInv
BY PacketInit, CallInit

LEMMA RouterStep == PacketInv /\ CallInv /\ [Next]_vars => (PacketInv /\ CallInv)'
<1> SUFFICES ASSUME PacketInv, CallInv, [Next]_vars PROVE PacketInv' /\ CallInv'
    OBVIOUS
<1>1. CASE UNCHANGED vars
    BY <1>1 DEF vars, PacketInv, CallInv, Awaited, Awaits, OneCallEach
<1>2. ASSUME NEW l \in Links,
             Ping(l) \/ AskForAny(l) \/ ForwardEnd(l) \/ \E t \in Links : Forward(l, t)
      PROVE  PacketInv' /\ CallInv'
    BY <1>2, RunnerPackets, RunnerCalls
<1>3. ASSUME NEW w \in Workers,
             \/ StartCall(w) \/ HandleMessage(w)
             \/ \E c \in wk[w].call :
                   \/ FinishCall(w, c) \/ WakeGather(w, c) \/ ReturnNull(w, c)
                   \/ \E i \in DOMAIN requests[c.on] : ReturnRequest(w, c, i)
      PROVE  PacketInv' /\ CallInv'
    BY <1>3, WorkerPackets, WorkerCalls DEF CallInv
<1>4. ASSUME \/ \E l \in Links : Receive(l) \/ ServerHandle(l)
             \/ \E b \in Broadcasts : \E k \in Kinds[b] : Broadcast(b, k)
      PROVE  PacketInv' /\ CallInv'
    BY <1>4, NetPackets, NetCalls
<1> QED
    BY <1>1, <1>2, <1>3, <1>4, NextCases

-----------------------------------------------------------------------------
LEMMA TypesFollow == PacketInv => TypeOK
<1> SUFFICES ASSUME PacketInv PROVE TypeOK
    OBVIOUS
<1>1. /\ GoodPacket \subseteq Packet /\ OutPacket \subseteq Packet
      /\ GoodCall \subseteq Call /\ Task \subseteq Call \cup Message
    BY DEF GoodPacket, OutPacket, GoodCall, GoodMessage, Task
<1>2. /\ \A s \in Seq(Task) : s \in Seq(Call \cup Message)
      /\ \A s \in Seq(GoodPacket) : s \in Seq(Packet)
      /\ \A s \in Seq(OutPacket) : s \in Seq(Packet)
    BY <1>1, SeqMonotonic
<1>3. \A l \in Links : runner[l].pc \in RunnerPC /\ runner[l].pkt \in Packet
    BY <1>1 DEF PacketInv
<1>4. /\ tasks \in [Routers -> Seq(Call \cup Message)]
      /\ requests \in [Links -> Seq(Packet)]
      /\ up \in [Links -> Seq(Packet)] /\ down \in [Links -> Seq(Packet)]
    BY <1>2 DEF PacketInv
<1>5. heard \in [Users -> SUBSET Packet]
    BY <1>1 DEF PacketInv
<1>6. wk \in [Workers -> [pc : {"idle", "blocked", "collect"}, call : SUBSET Call]]
    BY <1>1 DEF PacketInv, WorkerPC
<1> QED
    BY <1>3, <1>4, <1>5, <1>6 DEF PacketInv, TypeOK, RunnerPC

(* For any routers, servers and workers: every variable of a router's       *)
(* threads, loops and links keeps its type; a status answer always belongs  *)
(* to a call.                                                               *)
THEOREM RouterTypes == Spec => []TypeOK
BY RouterInit, RouterStep, TypesFollow, PTL DEF Spec

LEMMA OriginFollows == PacketInv => OriginKept
<1> SUFFICES ASSUME PacketInv, NEW p \in Casts, p.kind \in CastKinds
             PROVE  Orig(p) = Origin[p.id]
    BY DEF OriginKept
<1>1. ASSUME NEW l \in Links, NEW i \in DOMAIN up[l] PROVE up[l][i] \in GoodPacket
    <2>1. up[l][i] \in OutPacket
        BY ElementOfSeq, LenProperties DEF PacketInv
    <2> QED BY <2>1 DEF OutPacket
<1>2. ASSUME NEW l \in Links, NEW i \in DOMAIN down[l] PROVE down[l][i] \in GoodPacket
    BY ElementOfSeq, LenProperties DEF PacketInv
<1>3. \A u \in Users : heard[u] \subseteq GoodPacket
    BY DEF PacketInv
<1>4. p \in GoodPacket
    BY <1>1, <1>2, <1>3 DEF Casts
<1> QED
    BY <1>4 DEF GoodPacket

(* A broadcast carries the uid of the user that sent it first, over any     *)
(* number of routers and servers, linked in any way: request() sets         *)
(* trav_fuid from what the packet says, never from the link it came on.     *)
THEOREM OriginIsKept == Spec => []OriginKept
BY RouterInit, RouterStep, OriginFollows, PTL DEF Spec

LEMMA WorkerFollows == PacketInv /\ CallInv => WorkerLeft
<1> SUFFICES ASSUME PacketInv, CallInv, NEW r \in Routers,
                    \A w \in WorkersOf(r) : wk[w].pc = "blocked"
             PROVE  FALSE
    BY DEF WorkerLeft
<1> DEFINE caller == [w \in WorkersOf(r) |-> (CHOOSE c \in wk[w].call : TRUE).by]
<1>1. ASSUME NEW w \in WorkersOf(r)
      PROVE  \E c \in wk[w].call : caller[w] = c.by /\ c.by \in LinksOf(r)
    <2>1. w \in Workers /\ LoopOf[w] = r /\ wk[w].call # {}
        BY DEF WorkersOf, CallInv, OneCallEach
    <2>2. PICK c \in wk[w].call : caller[w] = c.by
        BY <2>1
    <2>3. c.by \in Links /\ RouterOf[c.by] = r
        BY <2>1, CallTypes DEF CallInv, Awaited
    <2> QED
        BY <2>2, <2>3 DEF LinksOf
<1>2. caller \in [WorkersOf(r) -> LinksOf(r)]
    BY <1>1
<1>3. \A w, x \in WorkersOf(r) : w # x => caller[w] # caller[x]
    BY <1>1 DEF WorkersOf, CallInv, OneCallEach
<1>4. IsFiniteSet(WorkersOf(r)) /\ IsFiniteSet(LinksOf(r))
    BY EnoughWorkers, FS_Subset DEF WorkersOf, LinksOf
<1>5. Cardinality(LinksOf(r)) < Cardinality(WorkersOf(r))
    BY <1>4, EnoughWorkers, FS_CardinalityType
<1> HIDE DEF caller
<1> QED
    BY <1>2, <1>3, <1>4, <1>5, FS_PigeonHole

(* Every event loop with more workers than links keeps one that is not      *)
(* blocked in a call, whatever the threads of the links ask of each other's *)
(* sessions: a thread has one call at a time, and two workers never run     *)
(* calls of one thread.                                                     *)
THEOREM SomeWorkerLeft == Spec => []WorkerLeft
BY RouterInit, RouterStep, WorkerFollows, PTL DEF Spec

-----------------------------------------------------------------------------
(* The graph of the links.  What a link leads to, on either side of it.     *)

AheadIn(l)  == Reach(Of(l), Links \ {l})    \* for what comes in on l
AheadOut(l) == Reach(At(l), Links \ {l})    \* for what goes out on l

LEMMA NodeTypes == /\ \A l \in Links : At(l) \in Node /\ Of(l) \in Node
                   /\ \A u \in Users : At(u) \in Node
                   /\ \A n, L : Reach(n, L) \subseteq Node
BY TopologyAssumption DEF Node, At, Of, Parties, Reach

(* Reach(n, L) is the smallest closed set that n is in. *)
LEMMA ReachIsClosed ==
    ASSUME NEW n, NEW L \in SUBSET Links
    PROVE  Closed(Reach(n, L), L)
<1> SUFFICES ASSUME NEW l \in L
             PROVE  At(l) \in Reach(n, L) <=> Of(l) \in Reach(n, L)
    BY DEF Closed
<1>1. At(l) \in Node /\ Of(l) \in Node
    BY NodeTypes
<1>2. \A N : Closed(N, L) => (At(l) \in N <=> Of(l) \in N)
    BY DEF Closed
<1> QED
    BY <1>1, <1>2 DEF Reach

LEMMA ReachHas == ASSUME NEW n \in Node, NEW L PROVE n \in Reach(n, L)
BY DEF Reach

LEMMA ReachIsLeast ==
    ASSUME NEW n, NEW L, NEW N \in SUBSET Node, n \in N, Closed(N, L)
    PROVE  Reach(n, L) \subseteq N
BY DEF Reach

(* A link whose router is not led back to its server is not part of a cycle *)
(* the other way round either.                                              *)
LEMMA Bridge ==
    ASSUME LinkedAsTree, NEW l \in Links
    PROVE  At(l) \notin AheadIn(l) /\ Of(l) \notin AheadOut(l)
<1> DEFINE L == Links \ {l}
           R == Reach(Of(l), L)
           N == Node \ R
<1>1. At(l) \notin R
    BY DEF LinkedAsTree
<1>2. Of(l) \in R /\ At(l) \in N
    BY <1>1, NodeTypes, ReachHas
<1>3. Closed(R, L)
    BY ReachIsClosed
<1> HIDE DEF R
<1>4. Closed(N, L)
    BY <1>3, NodeTypes DEF Closed
<1>5. Reach(At(l), L) \subseteq N
    BY <1>2, <1>4, ReachIsLeast
<1> QED
    BY <1>1, <1>2, <1>5 DEF R, AheadIn, AheadOut

(* At a node n with the links j, to z, and k, to y: k leads to a part of    *)
(* what is there to be reached for what comes in on j, and to nothing that  *)
(* j leads to.                                                              *)
Joins(l, n, m) == \/ n = At(l) /\ m = Of(l)
                  \/ n = Of(l) /\ m = At(l)

LEMMA Branch ==
    ASSUME LinkedAsTree, NEW j \in Links, NEW k \in Links, j # k,
           NEW n, NEW y, NEW z, Joins(j, n, z), Joins(k, n, y)
    PROVE  /\ n \notin Reach(y, Links \ {k})
           /\ Reach(y, Links \ {k}) \subseteq Reach(n, Links \ {j})
           /\ Reach(y, Links \ {k}) \cap Reach(z, Links \ {j}) = {}
<1> DEFINE J == Links \ {j}
           K == Links \ {k}
           Y == Reach(y, K)
           A == Reach(n, J)
           Z == Reach(z, J)
<1>1. n \notin Y /\ n \notin Z
    BY Bridge DEF Joins, AheadIn, AheadOut
<1>2. n \in Node /\ y \in Node /\ y \in Y /\ n \in A
    BY NodeTypes, ReachHas DEF Joins
<1>3. Closed(Y, K) /\ Closed(A, J) /\ Closed(Z, J)
    BY ReachIsClosed
<1>4. Y \subseteq Node
    BY NodeTypes
<1>5. ASSUME NEW N \in SUBSET Node, y \in N, Closed(N, K) PROVE Y \subseteq N
    BY <1>5, ReachIsLeast
<1> HIDE DEF Y, A, Z
<1>6. At(j) \notin Y /\ Of(j) \notin Y
    BY <1>1, <1>3 DEF Closed, Joins
<1>7. y \in A /\ y \notin Z
    BY <1>1, <1>2, <1>3 DEF Closed, Joins
<1>8. Closed(Y \cap A, K) /\ Closed(Y \ Z, K)
    <2> SUFFICES ASSUME NEW l \in K
                 PROVE  /\ At(l) \in Y \cap A <=> Of(l) \in Y \cap A
                        /\ At(l) \in Y \ Z <=> Of(l) \in Y \ Z
        BY DEF Closed
    <2>1. CASE l = j
        BY <1>6, <2>1
    <2>2. CASE l # j
        <3>1. l \in J BY <2>2
        <3> QED BY <1>3, <3>1 DEF Closed
    <2> QED BY <2>1, <2>2
<1>9. Y \subseteq Y \cap A /\ Y \subseteq Y \ Z
    BY <1>2, <1>4, <1>5, <1>7, <1>8
<1> QED
    BY <1>1, <1>9 DEF Y, A, Z

(* What comes in on a link can reach no more than all links together lead   *)
(* its server to.                                                           *)
LEMMA ReachGrows ==
    ASSUME NEW l \in Links
    PROVE  AheadIn(l) \subseteq Reach(At(l), Links)
<1> DEFINE R == Reach(At(l), Links)
<1>1. Closed(R, Links) /\ At(l) \in R /\ R \subseteq Node
    BY NodeTypes, ReachHas, ReachIsClosed
<1> HIDE DEF R
<1>2. Closed(R, Links \ {l}) /\ Of(l) \in R
    BY <1>1 DEF Closed
<1>3. Reach(Of(l), Links \ {l}) \subseteq R
    BY <1>1, <1>2, ReachIsLeast
<1> QED
    BY <1>3 DEF R, AheadIn

(* The two places where a broadcast branches: the thread of a link sends it *)
(* to the other links of its router, a server to the other links it has.    *)
LEMMA RouterBranches ==
    ASSUME LinkedAsTree, NEW l \in Links, NEW t \in Links, t # l,
           RouterOf[t] = RouterOf[l]
    PROVE  AheadOut(t) \subseteq AheadIn(l) /\ AheadOut(t) \cap AheadOut(l) = {}
<1>1. Joins(l, Of(l), At(l)) /\ Joins(t, Of(l), At(t))
    BY DEF Joins, Of
<1> QED
    BY <1>1, Branch DEF AheadIn, AheadOut

LEMMA ServerBranches ==
    ASSUME LinkedAsTree, NEW l \in Links, NEW t \in Links, t # l,
           ServerOf[t] = ServerOf[l]
    PROVE  /\ AheadIn(t) \subseteq AheadOut(l) /\ AheadIn(t) \cap AheadIn(l) = {}
           /\ At(l) \notin AheadIn(t)
<1>1. Joins(l, At(l), Of(l)) /\ Joins(t, At(l), Of(t))
    BY DEF Joins, At
<1> QED
    BY <1>1, Branch DEF AheadIn, AheadOut

-----------------------------------------------------------------------------
(* Where a broadcast still is on its way.  A token is a packet in a queue,  *)
(* a call that will send one, or a link its thread will still send it to;   *)
(* ahead: the nodes it can still reach from there.                          *)

Token == [kind : {"down", "stored", "task", "todo", "up"}, at : Links \cup Routers,
          nr : Nat \cup Links, id : Broadcasts, ahead : SUBSET Node]

Carries(p, b) == p.kind \in CastKinds /\ p.id = b

AheadOf(m) == IF m.kind = "message" THEN AheadIn(m.on) ELSE AheadOut(m.on)

IsDown(t)   == /\ t.kind = "down" /\ t.at \in Links /\ t.nr \in DOMAIN down[t.at]
               /\ Carries(down[t.at][t.nr], t.id) /\ t.ahead = AheadIn(t.at)
IsStored(t) == /\ t.kind = "stored" /\ t.at \in Links /\ t.nr \in DOMAIN requests[t.at]
               /\ Carries(requests[t.at][t.nr], t.id) /\ t.ahead = AheadIn(t.at)
IsTask(t)   == /\ t.kind = "task" /\ t.at \in Routers /\ t.nr \in DOMAIN tasks[t.at]
               /\ tasks[t.at][t.nr].kind # "gather"
               /\ Carries(tasks[t.at][t.nr].pkt, t.id)
               /\ t.ahead = AheadOf(tasks[t.at][t.nr])
IsTodo(t)   == /\ t.kind = "todo" /\ t.at \in Links /\ t.nr \in runner[t.at].todo
               /\ Carries(runner[t.at].pkt, t.id) /\ t.ahead = AheadOut(t.nr)
IsUp(t)     == /\ t.kind = "up" /\ t.at \in Links /\ t.nr \in DOMAIN up[t.at]
               /\ Carries(up[t.at][t.nr], t.id) /\ t.ahead = AheadOut(t.at)

Tokens == {t \in Token : IsDown(t) \/ IsStored(t) \/ IsTask(t) \/ IsTodo(t) \/ IsUp(t)}

Elsewhere(t, s) == t.kind # s.kind \/ t.at # s.at \/ t.nr # s.nr

(* No two copies of a broadcast can still reach the same node. *)
Apart(T) == \A t, s \in T : Elsewhere(t, s) /\ t.id = s.id => t.ahead \cap s.ahead = {}

(* A user of a server that a copy can still reach has not sent it and not   *)
(* received it.                                                             *)
Unaware(u, b) == u \notin {Origin[b], Sender[b]} /\ \A q \in heard[u] : q.id # b
Fresh == \A t \in Tokens, u \in Users : At(u) \in t.ahead => Unaware(u, t.id)

(* Nothing is on its way before it has been sent. *)
Unsent == \A b \in Broadcasts : sent[b] = "no" =>
             /\ \A t \in Tokens : t.id # b
             /\ \A u \in Users : \A q \in heard[u] : q.id # b

(* A worker that looks for a request runs the call that asks for one.       *)
Collects == \A w \in Workers : \A c \in wk[w].call :
               wk[w].pc = "collect" => c.kind = "gather"

EchoInv == Apart(Tokens) /\ Fresh /\ Unsent /\ Collects /\ ~echoed

-----------------------------------------------------------------------------
(* How tokens move.  A token stays, one place further to the front of its   *)
(* queue if another is taken from before it there ...                       *)
Stays(t, s, kind, x, n) ==
    /\ s.kind = t.kind /\ s.at = t.at /\ s.id = t.id /\ s.ahead = t.ahead
    /\ s.nr = IF t.kind = kind /\ t.at = x /\ t.nr >= n THEN t.nr + 1 ELSE t.nr

(* ... or it is new, and comes from the one that is taken.                  *)
From(t, s) == t.id = s.id /\ t.ahead \subseteq s.ahead

FromQueue(T, T2, A, kind, x, n) ==
    /\ \A t \in T2 : t \in A \/ \E s \in T : Stays(t, s, kind, x, n)
    /\ \A t \in T2 \cap A : \E s \in T : /\ s.kind = kind /\ s.at = x /\ s.nr = n
                                       /\ From(t, s)
    /\ \A t, s \in T2 \cap A : Elsewhere(t, s) => t.ahead \cap s.ahead = {}
    /\ \A t \in T \cup T2 : t.kind = kind => t.nr \in Nat

LEMMA TakenFromQueue ==
    ASSUME NEW T, NEW T2, NEW A, NEW kind, NEW x, NEW n \in Nat, Apart(T),
           FromQueue(T, T2, A, kind, x, n)
    PROVE  Apart(T2) /\ \A t \in T2 : \E s \in T : From(t, s)
<1>0. /\ \A t \in T2 : t \in A \/ \E s \in T : Stays(t, s, kind, x, n)
      /\ \A t \in T2 \cap A : \E s \in T : /\ s.kind = kind /\ s.at = x /\ s.nr = n
                                         /\ From(t, s)
      /\ \A t, s \in T2 \cap A : Elsewhere(t, s) => t.ahead \cap s.ahead = {}
      /\ \A t \in T \cup T2 : t.kind = kind => t.nr \in Nat
    BY DEF FromQueue
<1>1. ASSUME NEW t \in T2, NEW s \in T2, Elsewhere(t, s), t.id = s.id
      PROVE  t.ahead \cap s.ahead = {}
    <2>1. CASE t \in A /\ s \in A
        BY <1>0, <1>1, <2>1
    <2>2. ASSUME NEW p \in T2, NEW q \in T2, p \in A, q \notin A, p.id = q.id
          PROVE  p.ahead \cap q.ahead = {}
        <3>1. PICK o \in T : Stays(q, o, kind, x, n)
            BY <1>0, <2>2
        <3>2. PICK r \in T : r.kind = kind /\ r.at = x /\ r.nr = n /\ From(p, r)
            BY <1>0, <2>2
        <3>3. o.kind = kind /\ o.at = x => q.nr \in Nat /\ o.nr # n
            <4> SUFFICES ASSUME o.kind = kind, o.at = x PROVE q.nr \in Nat /\ o.nr # n
                OBVIOUS
            <4>1. /\ q.kind = kind /\ q.at = x
                  /\ o.nr = IF q.nr >= n THEN q.nr + 1 ELSE q.nr
                BY <3>1 DEF Stays
            <4>2. q.nr \in Nat
                BY <1>0, <4>1
            <4> QED BY ONLY n \in Nat, <4>1, <4>2
        <3>4. o.id = r.id /\ Elsewhere(o, r)
            BY <2>2, <3>1, <3>2, <3>3 DEF Stays, From, Elsewhere
        <3> QED
            BY <3>1, <3>2, <3>4 DEF Apart, Stays, From
    <2>3. CASE t \notin A /\ s \notin A
        <3>1. PICK o \in T : Stays(t, o, kind, x, n)
            BY <1>0, <2>3
        <3>2. PICK r \in T : Stays(s, r, kind, x, n)
            BY <1>0, <2>3
        <3>3. t.kind = kind /\ s.kind = kind => t.nr \in Nat /\ s.nr \in Nat
            BY <1>0
        <3>4. Elsewhere(o, r)
            <4>1. CASE t.kind # s.kind \/ t.at # s.at
                BY <3>1, <3>2, <4>1 DEF Stays, Elsewhere
            <4>2. CASE t.kind = s.kind /\ t.at = s.at /\ t.nr # s.nr
                BY <3>1, <3>2, <3>3, <4>2 DEF Stays, Elsewhere
            <4> QED BY <1>1, <4>1, <4>2 DEF Elsewhere
        <3> QED
            BY <1>1, <3>1, <3>2, <3>4 DEF Apart, Stays
    <2> QED BY <1>1, <2>1, <2>2, <2>3
<1>2. ASSUME NEW t \in T2 PROVE \E s \in T : From(t, s)
    BY <1>0 DEF Stays, From
<1> QED
    BY <1>1, <1>2 DEF Apart

(* A step after which each token is where one was before, or in a place     *)
(* that is taken from another.                                              *)
LEMMA TokensFollow ==
    ASSUME EchoInv, NEW T2, Tokens' = T2, Apart(T2),
           \A t \in T2 : \E s \in Tokens : From(t, s),
           UNCHANGED <<sent, heard, echoed>>, Collects'
    PROVE  EchoInv'
<1>1. Fresh'
    <2> SUFFICES ASSUME NEW t \in Tokens', NEW u \in Users, At(u) \in t.ahead
                 PROVE  Unaware(u, t.id)
        BY DEF Fresh, Unaware
    <2> QED BY DEF EchoInv, Fresh, From
<1>2. Unsent'
    <2> SUFFICES ASSUME NEW b \in Broadcasts, sent[b] = "no"
                 PROVE  /\ \A t \in Tokens' : t.id # b
                        /\ \A u \in Users : \A q \in heard[u] : q.id # b
        BY DEF Unsent
    <2> QED BY DEF EchoInv, Unsent, From
<1>3. Apart(Tokens)'
    BY DEF Apart, Elsewhere
<1> QED
    BY <1>1, <1>2, <1>3 DEF EchoInv

(* The same when the token is not taken from the middle of a queue.         *)
FromElsewhere(T, T2, A, kind, x, n) ==
    /\ \A t \in T2 : \/ t \in A
                     \/ t \in T /\ (t.kind # kind \/ t.at # x \/ t.nr # n)
    /\ \A t \in T2 \cap A : \E s \in T : /\ s.kind = kind /\ s.at = x /\ s.nr = n
                                       /\ From(t, s)
    /\ \A t, s \in T2 \cap A : Elsewhere(t, s) => t.ahead \cap s.ahead = {}

LEMMA TakenAway ==
    ASSUME NEW T, NEW T2, NEW A, NEW kind, NEW x, NEW n, Apart(T),
           FromElsewhere(T, T2, A, kind, x, n)
    PROVE  Apart(T2) /\ \A t \in T2 : \E s \in T : From(t, s)
<1>0. /\ \A t \in T2 : \/ t \in A
                       \/ t \in T /\ (t.kind # kind \/ t.at # x \/ t.nr # n)
      /\ \A t \in T2 \cap A : \E s \in T : /\ s.kind = kind /\ s.at = x /\ s.nr = n
                                         /\ From(t, s)
      /\ \A t, s \in T2 \cap A : Elsewhere(t, s) => t.ahead \cap s.ahead = {}
    BY DEF FromElsewhere
<1>1. ASSUME NEW p \in T2, NEW q \in T2, p \in A, q \notin A, p.id = q.id
      PROVE  p.ahead \cap q.ahead = {}
    <2>1. PICK r \in T : r.kind = kind /\ r.at = x /\ r.nr = n /\ From(p, r)
        BY <1>0, <1>1
    <2>2. q \in T /\ (q.kind # kind \/ q.at # x \/ q.nr # n)
        BY <1>0, <1>1
    <2>3. q.id = r.id /\ Elsewhere(q, r)
        BY <1>1, <2>1, <2>2 DEF From, Elsewhere
    <2> QED
        BY <2>1, <2>2, <2>3 DEF Apart, From
<1>2. ASSUME NEW t \in T2, NEW s \in T2, Elsewhere(t, s), t.id = s.id
      PROVE  t.ahead \cap s.ahead = {}
    <2>1. CASE t \in A /\ s \in A
        BY <1>0, <1>2, <2>1
    <2>2. CASE t \notin A /\ s \notin A
        BY <1>0, <1>2, <2>2 DEF Apart
    <2> QED BY <1>1, <1>2, <2>1, <2>2
<1>3. ASSUME NEW t \in T2 PROVE \E s \in T : From(t, s)
    BY <1>0 DEF From
<1> QED
    BY <1>2, <1>3 DEF Apart

-----------------------------------------------------------------------------
(* Queues: where what they hold is after a step. *)

LEMMA InAppended ==
    ASSUME NEW S, NEW q \in Seq(S), NEW e \in S
    PROVE  /\ Len(q) \in Nat /\ DOMAIN q = 1..Len(q)
           /\ \A i \in DOMAIN Append(q, e) :
                 \/ i \in DOMAIN q /\ Append(q, e)[i] = q[i]
                 \/ i = Len(q) + 1 /\ i \notin DOMAIN q /\ Append(q, e)[i] = e
<1>1. /\ DOMAIN q = 1..Len(q) /\ Len(q) \in Nat
      /\ DOMAIN Append(q, e) = 1..Len(q) + 1
    BY AppendProperties, LenProperties
<1>2. /\ \A i \in 1..Len(q) : Append(q, e)[i] = q[i]
      /\ Append(q, e)[Len(q) + 1] = e
    BY AppendProperties
<1> QED
    BY <1>1, <1>2

LEMMA InTail ==
    ASSUME NEW S, NEW q \in Seq(S), q # <<>>
    PROVE  /\ 1 \in DOMAIN q /\ q[1] = Head(q)
           /\ \A i \in DOMAIN Tail(q) : /\ i \in Nat /\ i >= 1 /\ i + 1 \in DOMAIN q
                                        /\ Tail(q)[i] = q[i + 1]
<1>1. Len(q) \in Nat \ {0} /\ DOMAIN q = 1..Len(q)
    BY EmptySeq, LenProperties
<1>2. /\ DOMAIN Tail(q) = 1..Len(q) - 1
      /\ \A i \in 1..Len(q) - 1 : Tail(q)[i] = q[i + 1]
    BY HeadTailProperties, LenProperties
<1>3. q[1] = Head(q)
    BY <1>1
<1> QED
    BY <1>1, <1>2, <1>3

LEMMA InRemoved ==
    ASSUME NEW S, NEW q \in Seq(S), NEW i \in DOMAIN q
    PROVE  \A j \in DOMAIN RemoveAt(q, i) :
              /\ j \in Nat
              /\ j >= i => j + 1 \in DOMAIN q /\ RemoveAt(q, i)[j] = q[j + 1]
              /\ ~(j >= i) => j \in DOMAIN q /\ RemoveAt(q, i)[j] = q[j]
<1> DEFINE a == SubSeq(q, 1, i - 1)
           z == SubSeq(q, i + 1, Len(q))
<1>1. Len(q) \in Nat /\ DOMAIN q = 1..Len(q) /\ i \in 1..Len(q)
    BY LenProperties
<1>2. /\ a \in Seq(S) /\ Len(a) = i - 1
      /\ \A j \in 1..i - 1 : a[j] = q[j]
    BY <1>1, ElementOfSeq, SubSeqProperties
<1>3. /\ z \in Seq(S) /\ Len(z) = Len(q) - i
      /\ \A j \in 1..Len(q) - i : z[j] = q[i + j]
    BY <1>1, ElementOfSeq, SubSeqProperties
<1> HIDE DEF a, z
<1>4. /\ DOMAIN (a \o z) = 1..Len(q) - 1
      /\ \A j \in 1..Len(q) - 1 : (a \o z)[j] = IF j <= i - 1 THEN a[j] ELSE z[j - (i - 1)]
    <2>1. /\ a \o z \in Seq(S) /\ Len(a \o z) = Len(a) + Len(z)
          /\ \A j \in 1..Len(a) + Len(z) :
                (a \o z)[j] = IF j <= Len(a) THEN a[j] ELSE z[j - Len(a)]
        BY <1>2, <1>3, ConcatProperties
    <2>2. Len(a) + Len(z) = Len(q) - 1
        BY <1>1, <1>2, <1>3
    <2>3. DOMAIN (a \o z) = 1..Len(a \o z)
        BY <2>1, LenProperties
    <2> QED BY ONLY <1>2, <2>1, <2>2, <2>3
<1>5. RemoveAt(q, i) = a \o z
    BY DEF RemoveAt, a, z
<1>6. ASSUME NEW j \in 1..Len(q) - 1
      PROVE  /\ j >= i => j + 1 \in 1..Len(q) /\ (a \o z)[j] = q[j + 1]
             /\ ~(j >= i) => j \in 1..Len(q) /\ (a \o z)[j] = q[j]
    <2>1. CASE j >= i
        <3>1. j - (i - 1) \in 1..Len(q) - i /\ i + (j - (i - 1)) = j + 1 /\ ~(j <= i - 1)
            BY <1>1, <2>1
        <3>2. (a \o z)[j] = z[j - (i - 1)] /\ z[j - (i - 1)] = q[i + (j - (i - 1))]
            BY <1>3, <1>4, <3>1
        <3>3. j + 1 \in 1..Len(q)
            BY <1>1, <2>1
        <3> QED BY <2>1, <3>1, <3>2, <3>3
    <2>2. CASE ~(j >= i)
        <3>1. j \in 1..i - 1 /\ j <= i - 1 /\ j \in 1..Len(q)
            BY <1>1, <2>2
        <3>2. (a \o z)[j] = a[j]
            BY <1>4, <3>1
        <3> QED BY <1>2, <2>2, <3>1, <3>2
    <2> QED BY <2>1, <2>2
<1>7. DOMAIN RemoveAt(q, i) = 1..Len(q) - 1 /\ DOMAIN q = 1..Len(q)
    BY <1>1, <1>4, <1>5
<1>8. \A j \in 1..Len(q) - 1 : j \in Nat
    BY <1>1
<1> QED
    BY ONLY <1>5, <1>6, <1>7, <1>8

-----------------------------------------------------------------------------
(* Tokens of what a step does not change stay where they are.               *)
LEMMA Untouched ==
    ASSUME NEW t \in Tokens',
           \/ IsDown(t)' /\ UNCHANGED down
           \/ IsStored(t)' /\ UNCHANGED requests
           \/ IsTask(t)' /\ UNCHANGED tasks
           \/ IsTodo(t)' /\ UNCHANGED runner
           \/ IsUp(t)' /\ UNCHANGED up
    PROVE  t \in Tokens
<1>1. t \in Token
    BY DEF Tokens
<1>2. CASE IsDown(t)' /\ UNCHANGED down
    BY <1>1, <1>2 DEF Tokens, IsDown
<1>3. CASE IsStored(t)' /\ UNCHANGED requests
    BY <1>1, <1>3 DEF Tokens, IsStored
<1>4. CASE IsTask(t)' /\ UNCHANGED tasks
    BY <1>1, <1>4 DEF Tokens, IsTask
<1>5. CASE IsTodo(t)' /\ UNCHANGED runner
    BY <1>1, <1>5 DEF Tokens, IsTodo
<1>6. CASE IsUp(t)' /\ UNCHANGED up
    BY <1>1, <1>6 DEF Tokens, IsUp
<1> QED
    BY <1>2, <1>3, <1>4, <1>5, <1>6

LEMMA TokenKinds ==
    ASSUME NEW t \in Tokens'
    PROVE  /\ t \in Token
           /\ IsDown(t)' \/ IsStored(t)' \/ IsTask(t)' \/ IsTodo(t)' \/ IsUp(t)'
           /\ IsDown(t)' => t.kind = "down"
           /\ IsStored(t)' => t.kind = "stored"
           /\ IsTask(t)' => t.kind = "task"
           /\ IsTodo(t)' => t.kind = "todo"
           /\ IsUp(t)' => t.kind = "up"
BY DEF Tokens, IsDown, IsStored, IsTask, IsTodo, IsUp

(* What a token of each kind says. *)
LEMMA TokensByKind ==
    ASSUME NEW t \in Tokens
    PROVE  /\ t.kind = "down" => IsDown(t)
           /\ t.kind = "stored" => IsStored(t)
           /\ t.kind = "task" => IsTask(t)
           /\ t.kind = "up" => IsUp(t)
BY DEF Tokens, IsDown, IsStored, IsTask, IsTodo, IsUp

LEMMA QueueTypes ==
    ASSUME PacketInv
    PROVE  /\ \A l \in Links : /\ down[l] \in Seq(GoodPacket)
                               /\ requests[l] \in Seq(GoodPacket)
                               /\ up[l] \in Seq(OutPacket)
           /\ \A r \in Routers : tasks[r] \in Seq(Task)
BY DEF PacketInv

(* Only what a thread has still to send it to is not numbered.              *)
LEMMA Numbered ==
    ASSUME PacketInv, PacketInv', NEW t \in Tokens \cup Tokens', t.kind # "todo"
    PROVE  t.nr \in Nat
<1>1. ASSUME NEW S, NEW q \in Seq(S), t.nr \in DOMAIN q PROVE t.nr \in Nat
    BY <1>1, LenProperties
<1>2. CASE t \in Tokens
    <2>1. \/ t.at \in Links /\ t.nr \in DOMAIN down[t.at]
          \/ t.at \in Links /\ t.nr \in DOMAIN requests[t.at]
          \/ t.at \in Routers /\ t.nr \in DOMAIN tasks[t.at]
          \/ t.at \in Links /\ t.nr \in DOMAIN up[t.at]
        BY <1>2 DEF Tokens, IsDown, IsStored, IsTask, IsTodo, IsUp
    <2> QED BY <1>1, <2>1, QueueTypes
<1>3. CASE t \in Tokens'
    <2>1. \/ t.at \in Links /\ t.nr \in DOMAIN down'[t.at]
          \/ t.at \in Links /\ t.nr \in DOMAIN requests'[t.at]
          \/ t.at \in Routers /\ t.nr \in DOMAIN tasks'[t.at]
          \/ t.at \in Links /\ t.nr \in DOMAIN up'[t.at]
        BY <1>3 DEF Tokens, IsDown, IsStored, IsTask, IsTodo, IsUp
    <2>2. /\ \A l \in Links : /\ down'[l] \in Seq(GoodPacket)
                              /\ requests'[l] \in Seq(GoodPacket)
                              /\ up'[l] \in Seq(OutPacket)
          /\ \A r \in Routers : tasks'[r] \in Seq(Task)
        BY DEF PacketInv
    <2> QED BY <1>1, <2>1, <2>2
<1> QED BY <1>2, <1>3

(* The same token with another number.                                      *)
LEMMA Renumbered ==
    ASSUME NEW t \in Token, NEW n \in Nat
    PROVE  /\ [t EXCEPT !.nr = n] \in Token
           /\ [t EXCEPT !.nr = n].kind = t.kind /\ [t EXCEPT !.nr = n].at = t.at
           /\ [t EXCEPT !.nr = n].nr = n /\ [t EXCEPT !.nr = n].id = t.id
           /\ [t EXCEPT !.nr = n].ahead = t.ahead
BY DEF Token

(* A worker takes the oldest task.                                          *)
LEMMA TaskTaken ==
    ASSUME PacketInv, NEW w \in Workers, TakesTask(w), NEW t \in Tokens', IsTask(t)'
    PROVE  \E s \in Tokens : Stays(t, s, "task", LoopOf[w], 1)
<1> DEFINE r == LoopOf[w]
<1>1. t \in Token /\ t.kind = "task" /\ t.at \in Routers
    BY DEF Tokens, IsTask
<1>2. /\ \A s \in Routers \ {r} : tasks'[s] = tasks[s]
      /\ \A i \in DOMAIN tasks'[r] :
            /\ i \in Nat /\ i + 1 # 1 /\ i + 1 \in DOMAIN tasks[r]
            /\ tasks'[r][i] = tasks[r][i + 1]
    BY RemovedTask
<1>3. CASE t.at # r
    <2>1. t \in Tokens
        BY <1>1, <1>2, <1>3 DEF Tokens, IsTask
    <2> QED
        BY <1>3, <2>1 DEF Stays
<1>4. CASE t.at = r
    <2> DEFINE s == [t EXCEPT !.nr = t.nr + 1]
    <2>1. /\ t.nr \in DOMAIN tasks'[r] /\ tasks'[r][t.nr].kind # "gather"
          /\ Carries(tasks'[r][t.nr].pkt, t.id) /\ t.ahead = AheadOf(tasks'[r][t.nr])
        BY <1>4 DEF IsTask
    <2>2. /\ t.nr \in Nat /\ t.nr >= 1 /\ t.nr + 1 \in DOMAIN tasks[r]
          /\ tasks'[r][t.nr] = tasks[r][t.nr + 1]
        BY <1>2, <2>1
    <2>3. /\ s \in Token /\ s.kind = t.kind /\ s.at = t.at /\ s.nr = t.nr + 1
          /\ s.id = t.id /\ s.ahead = t.ahead
        BY <1>1, <2>2, Renumbered
    <2> HIDE DEF s
    <2>4. IsTask(s)
        BY <1>1, <1>4, <2>1, <2>2, <2>3 DEF IsTask
    <2>5. s \in Tokens
        BY <2>3, <2>4 DEF Tokens
    <2> QED
        BY <1>1, <1>4, <2>2, <2>3, <2>5 DEF Stays
<1> QED BY <1>3, <1>4

(* A worker starts a call: what the call was to send is in the socket.      *)
LEMMA StartCallTokens ==
    ASSUME PacketInv, PacketInv', Apart(Tokens), NEW w \in Workers, StartCall(w)
    PROVE  Apart(Tokens') /\ \A t \in Tokens' : \E s \in Tokens : From(t, s)
<1> DEFINE r == LoopOf[w]
           m == Oldest(w)
           A == {t \in Token : t.kind = "up" /\ t.at = m.on /\ t.nr = Len(up[m.on]) + 1}
<1>1. /\ r \in Routers /\ m \in GoodCall /\ 1 \in DOMAIN tasks[r] /\ m = tasks[r][1]
      /\ TakesTask(w)
    BY TakenTask, RemovedTask DEF StartCall
<1>2. /\ m.on \in Links /\ m.kind # "message"
      /\ m.kind # "gather" => m.pkt \in OutPacket
    BY <1>1 DEF GoodCall, Call, CallKinds
<1>3. /\ UNCHANGED <<runner, requests, down>>
      /\ up' = IF m.kind = "gather" THEN up ELSE [up EXCEPT ![m.on] = Append(@, m.pkt)]
    BY DEF StartCall
<1> HIDE DEF r, m
<1>4. /\ up[m.on] \in Seq(OutPacket) /\ Len(up[m.on]) \in Nat
      /\ DOMAIN up[m.on] = 1..Len(up[m.on]) /\ DOMAIN up = Links
    BY <1>2, QueueTypes, LenProperties DEF PacketInv
<1>5. ASSUME NEW t \in Tokens', IsUp(t)'
      PROVE  \/ t \in Tokens
             \/ /\ t \in A /\ m.kind # "gather" /\ Carries(m.pkt, t.id)
                /\ t.ahead = AheadOut(m.on)
    <2>1. /\ t \in Token /\ t.kind = "up" /\ t.at \in Links /\ t.nr \in DOMAIN up'[t.at]
          /\ Carries(up'[t.at][t.nr], t.id) /\ t.ahead = AheadOut(t.at)
        BY <1>5 DEF Tokens, IsUp
    <2>2. CASE up'[t.at] = up[t.at]
        BY <2>1, <2>2 DEF Tokens, IsUp
    <2>3. CASE up'[t.at] # up[t.at]
        <3>1. /\ m.kind # "gather" /\ t.at = m.on
              /\ up'[m.on] = Append(up[m.on], m.pkt)
            BY <1>2, <1>3, <1>4, <2>1, <2>3
        <3>2. m.pkt \in OutPacket
            BY <1>2, <3>1
        <3>3. \/ t.nr \in DOMAIN up[m.on] /\ up'[m.on][t.nr] = up[m.on][t.nr]
              \/ t.nr = Len(up[m.on]) + 1 /\ up'[m.on][t.nr] = m.pkt
            BY <1>4, <2>1, <3>1, <3>2, InAppended
        <3> QED
            BY <2>1, <3>1, <3>3 DEF Tokens, IsUp
    <2> QED BY <2>2, <2>3
<1>6. \A t \in Tokens \cup Tokens' : t.kind = "task" => t.nr \in Nat
    BY Numbered
<1>7. ASSUME NEW t \in Tokens'
      PROVE  t \in A \/ \E s \in Tokens : Stays(t, s, "task", r, 1)
    <2>1. CASE IsTask(t)'
        BY <1>1, <2>1, TaskTaken DEF r
    <2>2. CASE IsUp(t)'
        BY <1>5, <2>2, TokenKinds DEF Stays
    <2>3. CASE IsDown(t)' \/ IsStored(t)' \/ IsTodo(t)'
        BY <1>3, <2>3, TokenKinds, Untouched DEF Stays
    <2> QED BY <2>1, <2>2, <2>3, TokenKinds
<1>8. ASSUME NEW t \in Tokens' \cap A
      PROVE  \E s \in Tokens : s.kind = "task" /\ s.at = r /\ s.nr = 1 /\ From(t, s)
    <2> DEFINE s == [kind |-> "task", at |-> r, nr |-> 1, id |-> t.id,
                     ahead |-> AheadOut(m.on)]
    <2>1. IsUp(t)' /\ t \in Token
        BY TokenKinds
    <2>2. t \notin Tokens
        BY <1>4, TokensByKind DEF IsUp
    <2>3. m.kind # "gather" /\ Carries(m.pkt, t.id) /\ t.ahead = AheadOut(m.on)
        BY <1>5, <2>1, <2>2
    <2>4. s \in Token
        BY <1>1, <1>2, <2>1, NodeTypes DEF Token, AheadOut
    <2>5. IsTask(s)
        BY <1>1, <1>2, <2>3 DEF IsTask, AheadOf
    <2>6. s \in Tokens
        BY <2>4, <2>5 DEF Tokens
    <2> QED
        BY <2>3, <2>6 DEF From
<1>9. \A t, s \in Tokens' \cap A : ~Elsewhere(t, s)
    BY DEF Elsewhere
<1> HIDE DEF A
<1> QED
    <2>1. FromQueue(Tokens, Tokens', A, "task", r, 1)
        BY ONLY <1>6, <1>7, <1>8, <1>9 DEF FromQueue
    <2> QED BY ONLY <2>1, 1 \in Nat, Apart(Tokens), TakenFromQueue

(* A message is handled: a broadcast is stored in the session of its link.  *)
LEMMA HandleMessageTokens ==
    ASSUME PacketInv, PacketInv', Apart(Tokens), NEW w \in Workers, HandleMessage(w)
    PROVE  Apart(Tokens') /\ \A t \in Tokens' : \E s \in Tokens : From(t, s)
<1> DEFINE r == LoopOf[w]
           m == Oldest(w)
           A == {t \in Token : /\ t.kind = "stored" /\ t.at = m.on
                               /\ t.nr = Len(requests[m.on]) + 1}
<1>1. /\ r \in Routers /\ m \in GoodMessage /\ 1 \in DOMAIN tasks[r] /\ m = tasks[r][1]
      /\ TakesTask(w)
    BY TakenTask, RemovedTask DEF HandleMessage
<1>2. m.on \in Links /\ m.kind = "message" /\ m.pkt \in GoodPacket
    BY <1>1 DEF GoodMessage, Message
<1>3. /\ UNCHANGED <<runner, up, down>>
      /\ \/ requests' = requests
         \/ requests' = [requests EXCEPT ![m.on] = Append(@, m.pkt)]
    BY DEF HandleMessage
<1> HIDE DEF r, m
<1>4. /\ requests[m.on] \in Seq(GoodPacket) /\ Len(requests[m.on]) \in Nat
      /\ DOMAIN requests[m.on] = 1..Len(requests[m.on]) /\ DOMAIN requests = Links
    BY <1>2, QueueTypes, LenProperties DEF PacketInv
<1>5. ASSUME NEW t \in Tokens', IsStored(t)'
      PROVE  \/ t \in Tokens
             \/ t \in A /\ Carries(m.pkt, t.id) /\ t.ahead = AheadIn(m.on)
    <2>1. /\ t \in Token /\ t.kind = "stored" /\ t.at \in Links
          /\ t.nr \in DOMAIN requests'[t.at]
          /\ Carries(requests'[t.at][t.nr], t.id) /\ t.ahead = AheadIn(t.at)
        BY <1>5 DEF Tokens, IsStored
    <2>2. CASE requests'[t.at] = requests[t.at]
        BY <2>1, <2>2 DEF Tokens, IsStored
    <2>3. CASE requests'[t.at] # requests[t.at]
        <3>1. t.at = m.on /\ requests'[m.on] = Append(requests[m.on], m.pkt)
            BY <1>2, <1>3, <1>4, <2>1, <2>3
        <3>2. \/ t.nr \in DOMAIN requests[m.on] /\ requests'[m.on][t.nr] = requests[m.on][t.nr]
              \/ t.nr = Len(requests[m.on]) + 1 /\ requests'[m.on][t.nr] = m.pkt
            BY <1>2, <1>4, <2>1, <3>1, InAppended
        <3> QED
            BY <2>1, <3>1, <3>2 DEF Tokens, IsStored
    <2> QED BY <2>2, <2>3
<1>6. \A t \in Tokens \cup Tokens' : t.kind = "task" => t.nr \in Nat
    BY Numbered
<1>7. ASSUME NEW t \in Tokens'
      PROVE  t \in A \/ \E s \in Tokens : Stays(t, s, "task", r, 1)
    <2>1. CASE IsTask(t)'
        BY <1>1, <2>1, TaskTaken DEF r
    <2>2. CASE IsStored(t)'
        BY <1>5, <2>2, TokenKinds DEF Stays
    <2>3. CASE IsDown(t)' \/ IsUp(t)' \/ IsTodo(t)'
        BY <1>3, <2>3, TokenKinds, Untouched DEF Stays
    <2> QED BY <2>1, <2>2, <2>3, TokenKinds
<1>8. ASSUME NEW t \in Tokens' \cap A
      PROVE  \E s \in Tokens : s.kind = "task" /\ s.at = r /\ s.nr = 1 /\ From(t, s)
    <2> DEFINE s == [kind |-> "task", at |-> r, nr |-> 1, id |-> t.id,
                     ahead |-> AheadIn(m.on)]
    <2>1. IsStored(t)' /\ t \in Token
        BY TokenKinds
    <2>2. t \notin Tokens
        BY <1>4, TokensByKind DEF IsStored
    <2>3. Carries(m.pkt, t.id) /\ t.ahead = AheadIn(m.on)
        BY <1>5, <2>1, <2>2
    <2>4. s \in Token
        BY <1>1, <1>2, <2>1, NodeTypes DEF Token, AheadIn
    <2>5. IsTask(s)
        BY <1>1, <1>2, <2>3 DEF IsTask, AheadOf
    <2>6. s \in Tokens
        BY <2>4, <2>5 DEF Tokens
    <2> QED
        BY <2>3, <2>6 DEF From
<1>9. \A t, s \in Tokens' \cap A : ~Elsewhere(t, s)
    BY DEF Elsewhere
<1> HIDE DEF A
<1> QED
    <2>1. FromQueue(Tokens, Tokens', A, "task", r, 1)
        BY ONLY <1>6, <1>7, <1>8, <1>9 DEF FromQueue
    <2> QED BY ONLY <2>1, 1 \in Nat, Apart(Tokens), TakenFromQueue

(* A task is created, the last in the loop of a router.                     *)
LEMMA TaskAdded ==
    ASSUME PacketInv, NEW r \in Routers, NEW m \in Task,
           tasks' = [tasks EXCEPT ![r] = Append(@, m)], NEW t \in Tokens', IsTask(t)'
    PROVE  \/ t \in Tokens
           \/ /\ t.at = r /\ t.nr = Len(tasks[r]) + 1 /\ t \notin Tokens
              /\ m.kind # "gather" /\ Carries(m.pkt, t.id) /\ t.ahead = AheadOf(m)
<1>1. /\ t \in Token /\ t.kind = "task" /\ t.at \in Routers /\ t.nr \in DOMAIN tasks'[t.at]
      /\ tasks'[t.at][t.nr].kind # "gather" /\ Carries(tasks'[t.at][t.nr].pkt, t.id)
      /\ t.ahead = AheadOf(tasks'[t.at][t.nr])
    BY DEF Tokens, IsTask
<1>2. \/ t.nr \in DOMAIN tasks[t.at] /\ tasks'[t.at][t.nr] = tasks[t.at][t.nr]
      \/ /\ t.at = r /\ t.nr = Len(tasks[r]) + 1 /\ t.nr \notin DOMAIN tasks[r]
         /\ tasks'[t.at][t.nr] = m
    BY <1>1, AddedTask
<1>3. CASE t.nr \in DOMAIN tasks[t.at] /\ tasks'[t.at][t.nr] = tasks[t.at][t.nr]
    BY <1>1, <1>3 DEF Tokens, IsTask
<1>4. CASE /\ t.at = r /\ t.nr = Len(tasks[r]) + 1 /\ t.nr \notin DOMAIN tasks[r]
           /\ tasks'[t.at][t.nr] = m
    <2>1. t \notin Tokens
        BY <1>1, <1>4, TokensByKind DEF IsTask
    <2> QED BY <1>1, <1>4, <2>1
<1> QED BY <1>2, <1>3, <1>4

(* A packet is read from the socket: the task to handle it is created.      *)
LEMMA ReceiveTokens ==
    ASSUME PacketInv, PacketInv', Apart(Tokens), NEW l \in Links, Receive(l)
    PROVE  Apart(Tokens') /\ \A t \in Tokens' : \E s \in Tokens : From(t, s)
<1> DEFINE r == RouterOf[l]
           m == [kind |-> "message", on |-> l, pkt |-> Head(down[l])]
           A == {t \in Token : /\ t.kind = "task" /\ t.at = r /\ t.nr = Len(tasks[r]) + 1
                               /\ t \notin Tokens}
<1>1. /\ r \in Routers /\ down[l] \in Seq(GoodPacket) /\ down[l] # <<>>
      /\ tasks' = [tasks EXCEPT ![r] = Append(@, m)]
      /\ down' = [down EXCEPT ![l] = Tail(@)] /\ UNCHANGED <<runner, requests, up>>
    BY QueueTypes, TopologyAssumption DEF Receive
<1>2. /\ 1 \in DOMAIN down[l] /\ down[l][1] = m.pkt
      /\ \A i \in DOMAIN Tail(down[l]) :
            /\ i \in Nat /\ i >= 1 /\ i + 1 \in DOMAIN down[l]
            /\ Tail(down[l])[i] = down[l][i + 1]
    BY <1>1, InTail
<1>3. m \in Task /\ m.kind = "message" /\ m.on = l
    <2>1. Head(down[l]) \in GoodPacket
        BY <1>1, HeadTailProperties
    <2> QED BY <2>1 DEF Task, GoodMessage, Message, GoodPacket
<1> HIDE DEF r, m
<1>4. ASSUME NEW t \in Tokens', IsDown(t)'
      PROVE  \E s \in Tokens : Stays(t, s, "down", l, 1)
    <2>1. /\ t \in Token /\ t.kind = "down" /\ t.at \in Links
          /\ t.nr \in DOMAIN down'[t.at]
          /\ Carries(down'[t.at][t.nr], t.id) /\ t.ahead = AheadIn(t.at)
        BY <1>4 DEF Tokens, IsDown
    <2>2. CASE t.at # l
        <3>1. down'[t.at] = down[t.at]
            BY <1>1, <2>2 DEF PacketInv
        <3>2. t \in Tokens
            BY <2>1, <3>1 DEF Tokens, IsDown
        <3> QED BY <2>2, <3>2 DEF Stays
    <2>3. CASE t.at = l
        <3> DEFINE s == [t EXCEPT !.nr = t.nr + 1]
        <3>1. down'[l] = Tail(down[l])
            BY <1>1 DEF PacketInv
        <3>2. /\ t.nr \in Nat /\ t.nr >= 1 /\ t.nr + 1 \in DOMAIN down[l]
              /\ down'[l][t.nr] = down[l][t.nr + 1]
            BY <1>2, <2>1, <2>3, <3>1
        <3>3. /\ s \in Token /\ s.kind = t.kind /\ s.at = t.at /\ s.nr = t.nr + 1
              /\ s.id = t.id /\ s.ahead = t.ahead
            BY <2>1, <3>2, Renumbered
        <3> HIDE DEF s
        <3>4. s \in Tokens
            BY <2>1, <2>3, <3>2, <3>3 DEF Tokens, IsDown
        <3> QED BY <2>1, <2>3, <3>2, <3>3, <3>4 DEF Stays
    <2> QED BY <2>2, <2>3
<1>5. \A t \in Tokens \cup Tokens' : t.kind = "down" => t.nr \in Nat
    BY Numbered
<1>6. ASSUME NEW t \in Tokens'
      PROVE  t \in A \/ \E s \in Tokens : Stays(t, s, "down", l, 1)
    <2>1. CASE IsTask(t)'
        <3>1. t \in A \/ t \in Tokens
            BY <1>1, <1>3, <2>1, TaskAdded, TokenKinds
        <3> QED BY <2>1, <3>1, TokenKinds DEF Stays
    <2>2. CASE IsStored(t)' \/ IsUp(t)' \/ IsTodo(t)'
        BY <1>1, <2>2, TokenKinds, Untouched DEF Stays
    <2> QED BY <1>4, <2>1, <2>2, TokenKinds
<1>7. ASSUME NEW t \in Tokens' \cap A
      PROVE  \E s \in Tokens : s.kind = "down" /\ s.at = l /\ s.nr = 1 /\ From(t, s)
    <2> DEFINE s == [kind |-> "down", at |-> l, nr |-> 1, id |-> t.id, ahead |-> AheadIn(l)]
    <2>1. IsTask(t)' /\ t \in Token /\ t \notin Tokens
        BY TokenKinds
    <2>2. Carries(m.pkt, t.id) /\ t.ahead = AheadIn(l)
        BY <1>1, <1>3, <2>1, TaskAdded DEF AheadOf
    <2>3. s \in Token
        BY <2>1, NodeTypes DEF Token, AheadIn
    <2>4. s \in Tokens
        BY <1>2, <2>2, <2>3 DEF Tokens, IsDown
    <2> QED
        BY <2>2, <2>4 DEF From
<1>8. \A t, s \in Tokens' \cap A : ~Elsewhere(t, s)
    BY DEF Elsewhere
<1> HIDE DEF A
<1> QED
    <2>1. FromQueue(Tokens, Tokens', A, "down", l, 1)
        BY ONLY <1>5, <1>6, <1>7, <1>8 DEF FromQueue
    <2> QED BY ONLY <2>1, 1 \in Nat, Apart(Tokens), TakenFromQueue

(* A request is returned to the thread of the link it came in on: from      *)
(* there a SIG_BROADCAST branches to the other links.                       *)
LEMMA ReturnRequestTokens ==
    ASSUME LinkedAsTree, PacketInv, PacketInv', Collects, Apart(Tokens), NEW w \in Workers,
           NEW c \in wk[w].call, NEW i \in DOMAIN requests[c.on], ReturnRequest(w, c, i)
    PROVE  Apart(Tokens') /\ \A t \in Tokens' : \E s \in Tokens : From(t, s)
<1> DEFINE l == c.on
           p == requests[c.on][i]
           A == {t \in Token : /\ t.kind = "todo" /\ t.at = l /\ t.nr \in Others(l)
                               /\ p.kind = "sig_broadcast" /\ Carries(p, t.id)
                               /\ t.ahead = AheadOut(t.nr)}
<1>1. l \in Links /\ c.by = l
    BY CallTypes DEF GoodCall, ReturnRequest, Collects
<1>2. /\ requests' = [requests EXCEPT ![l] = RemoveAt(@, i)]
      /\ UNCHANGED <<tasks, up, down>>
      /\ runner' = [runner EXCEPT ![l] =
                      IF p.kind = "sig_broadcast"
                      THEN [pc |-> "forward", pkt |-> p, todo |-> Others(l)]
                      ELSE [@ EXCEPT !.pc = "loop"]]
    BY <1>1 DEF ReturnRequest
<1>3. requests[l] \in Seq(GoodPacket) /\ i \in DOMAIN requests[l] /\ i \in Nat
    BY <1>1, QueueTypes, LenProperties
<1>4. \A j \in DOMAIN RemoveAt(requests[l], i) :
          /\ j \in Nat
          /\ j >= i => /\ j + 1 \in DOMAIN requests[l]
                       /\ RemoveAt(requests[l], i)[j] = requests[l][j + 1]
          /\ ~(j >= i) => /\ j \in DOMAIN requests[l]
                          /\ RemoveAt(requests[l], i)[j] = requests[l][j]
    BY <1>3, InRemoved
<1>5. requests[l][i] = p
    OBVIOUS
<1> HIDE DEF l, p
<1>6. ASSUME NEW t \in Tokens', IsStored(t)'
      PROVE  \E s \in Tokens : Stays(t, s, "stored", l, i)
    <2>1. /\ t \in Token /\ t.kind = "stored" /\ t.at \in Links
          /\ t.nr \in DOMAIN requests'[t.at]
          /\ Carries(requests'[t.at][t.nr], t.id) /\ t.ahead = AheadIn(t.at)
        BY <1>6 DEF Tokens, IsStored
    <2>2. CASE t.at # l
        <3>1. requests'[t.at] = requests[t.at]
            BY <1>2, <2>2 DEF PacketInv
        <3>2. t \in Tokens
            BY <2>1, <3>1 DEF Tokens, IsStored
        <3> QED BY <2>2, <3>2 DEF Stays
    <2>3. CASE t.at = l
        <3> DEFINE s == [t EXCEPT !.nr = t.nr + 1]
        <3>1. requests'[l] = RemoveAt(requests[l], i)
            BY <1>1, <1>2 DEF PacketInv
        <3>2. t.nr \in Nat
            BY <1>4, <2>1, <2>3, <3>1
        <3>3. CASE t.nr >= i
            <4>1. /\ t.nr + 1 \in DOMAIN requests[l]
                  /\ requests'[l][t.nr] = requests[l][t.nr + 1]
                BY <1>4, <2>1, <2>3, <3>1, <3>3
            <4>2. /\ s \in Token /\ s.kind = t.kind /\ s.at = t.at /\ s.nr = t.nr + 1
                  /\ s.id = t.id /\ s.ahead = t.ahead
                BY <2>1, <3>2, Renumbered
            <4> HIDE DEF s
            <4>3. s \in Tokens
                BY <2>1, <2>3, <4>1, <4>2 DEF Tokens, IsStored
            <4> QED BY <2>1, <2>3, <3>3, <4>2, <4>3 DEF Stays
        <3>4. CASE ~(t.nr >= i)
            <4>1. t.nr \in DOMAIN requests[l] /\ requests'[l][t.nr] = requests[l][t.nr]
                BY <1>4, <2>1, <2>3, <3>1, <3>4
            <4>2. t \in Tokens
                BY <2>1, <2>3, <4>1 DEF Tokens, IsStored
            <4> QED BY <3>4, <4>2 DEF Stays
        <3> QED BY <3>3, <3>4
    <2> QED BY <2>2, <2>3
<1>7. ASSUME NEW t \in Tokens', IsTodo(t)' PROVE t \in A \/ t \in Tokens
    <2>1. /\ t \in Token /\ t.kind = "todo" /\ t.at \in Links
          /\ t.nr \in runner'[t.at].todo
          /\ Carries(runner'[t.at].pkt, t.id) /\ t.ahead = AheadOut(t.nr)
        BY <1>7 DEF Tokens, IsTodo
    <2>2. CASE t.at = l /\ p.kind = "sig_broadcast"
        <3>1. runner'[l] = [pc |-> "forward", pkt |-> p, todo |-> Others(l)]
            BY <1>1, <1>2, <2>2 DEF PacketInv
        <3> QED BY <2>1, <2>2, <3>1
    <2>3. CASE ~(t.at = l /\ p.kind = "sig_broadcast")
        <3>1. \/ runner'[t.at] = runner[t.at]
              \/ runner'[t.at] = [runner[t.at] EXCEPT !.pc = "loop"]
            BY <1>1, <1>2, <2>1, <2>3 DEF PacketInv
        <3>2. runner[t.at] \in [pc : RunnerPC, pkt : GoodPacket, todo : SUBSET Links]
            BY <2>1 DEF PacketInv
        <3>3. runner'[t.at].todo = runner[t.at].todo /\ runner'[t.at].pkt = runner[t.at].pkt
            BY <3>1, <3>2
        <3> QED BY <2>1, <3>3 DEF Tokens, IsTodo
    <2> QED BY <2>2, <2>3
<1>8. \A t \in Tokens \cup Tokens' : t.kind = "stored" => t.nr \in Nat
    BY Numbered
<1>9. ASSUME NEW t \in Tokens'
      PROVE  t \in A \/ \E s \in Tokens : Stays(t, s, "stored", l, i)
    <2>1. CASE IsTodo(t)'
        BY <1>7, <2>1, TokenKinds DEF Stays
    <2>2. CASE IsDown(t)' \/ IsUp(t)' \/ IsTask(t)'
        BY <1>2, <2>2, TokenKinds, Untouched DEF Stays
    <2> QED BY <1>6, <2>1, <2>2, TokenKinds
<1>10. \A k \in Others(l) : k \in Links /\ k # l /\ RouterOf[k] = RouterOf[l]
    BY DEF Others, LinksOf
<1>11. ASSUME NEW t \in Tokens' \cap A
       PROVE  \E s \in Tokens : s.kind = "stored" /\ s.at = l /\ s.nr = i /\ From(t, s)
    <2> DEFINE s == [kind |-> "stored", at |-> l, nr |-> i, id |-> t.id, ahead |-> AheadIn(l)]
    <2>1. t \in Token /\ Carries(p, t.id) /\ t.nr \in Others(l) /\ t.ahead = AheadOut(t.nr)
        OBVIOUS
    <2>2. s \in Token
        BY <1>1, <1>3, <2>1, NodeTypes DEF Token, AheadIn
    <2>3. s \in Tokens
        BY <1>1, <1>3, <1>5, <2>1, <2>2 DEF Tokens, IsStored
    <2>4. t.ahead \subseteq AheadIn(l)
        BY <1>1, <1>10, <2>1, RouterBranches
    <2> QED
        BY <2>3, <2>4 DEF From
<1>12. ASSUME NEW t \in Tokens' \cap A, NEW s \in Tokens' \cap A, Elsewhere(t, s)
       PROVE  t.ahead \cap s.ahead = {}
    <2>1. t.nr # s.nr
        BY <1>12 DEF Elsewhere
    <2>2. /\ t.nr \in Links /\ s.nr \in Links /\ RouterOf[t.nr] = RouterOf[s.nr]
          /\ t.ahead = AheadOut(t.nr) /\ s.ahead = AheadOut(s.nr)
        BY <1>10
    <2> QED
        BY <2>1, <2>2, RouterBranches
<1> HIDE DEF A
<1> QED
    <2>1. i \in Nat
        BY <1>3
    <2>2. FromQueue(Tokens, Tokens', A, "stored", l, i)
        BY ONLY <1>8, <1>9, <1>11, <1>12 DEF FromQueue
    <2> QED BY ONLY <2>1, <2>2, Apart(Tokens), TakenFromQueue

(* The thread creates the call for one of the links.                        *)
LEMMA ForwardTokens ==
    ASSUME PacketInv, PacketInv', Apart(Tokens), NEW l \in Links, NEW k \in Links,
           Forward(l, k)
    PROVE  Apart(Tokens') /\ \A t \in Tokens' : \E s \in Tokens : From(t, s)
<1> DEFINE r == RouterOf[l]
           m == NewCall("request", l, k, Forwarded(l, k))
           A == {t \in Token : /\ t.kind = "task" /\ t.at = r /\ t.nr = Len(tasks[r]) + 1
                               /\ t \notin Tokens}
           rec == [runner[l] EXCEPT !.pc = "sending", !.todo = @ \ {k}]
<1>1. /\ r \in Routers /\ k \in runner[l].todo /\ runner[l].pc = "forward"
      /\ runner' = [runner EXCEPT ![l] = rec]
      /\ UNCHANGED <<requests, up, down>> /\ m.by = l
      /\ tasks' = [tasks EXCEPT ![r] = Append(@, m)]
    BY TopologyAssumption DEF Forward, RunnerGoes, Create, NewCall
<1>2. m \in Task /\ m.kind = "request" /\ m.on = k /\ m.pkt = Forwarded(l, k)
    <2>1. Forwarded(l, k) \in OutPacket
        BY <1>1, SentOn
    <2>2. m \in GoodCall
        BY <2>1 DEF NewCall, GoodCall, Call, CallKinds, OutPacket, GoodPacket
    <2> QED BY <2>2 DEF Task, NewCall
<1>3. /\ runner[l] \in [pc : RunnerPC, pkt : GoodPacket, todo : SUBSET Links]
      /\ runner'[l] = rec
      /\ \A j \in Links : j # l => runner'[j] = runner[j]
    BY <1>1 DEF PacketInv
<1>4. rec.todo = runner[l].todo \ {k} /\ rec.pkt = runner[l].pkt
    BY <1>3
<1>5. \A b : Carries(m.pkt, b) => Carries(runner[l].pkt, b)
    BY <1>2, <1>3 DEF Forwarded, Carries, GoodPacket, Packet
<1> HIDE DEF r, m, rec
<1>6. ASSUME NEW t \in Tokens', IsTodo(t)'
      PROVE  t \in Tokens /\ (t.at # l \/ t.nr # k)
    <2>1. /\ t \in Token /\ t.kind = "todo" /\ t.at \in Links
          /\ t.nr \in runner'[t.at].todo
          /\ Carries(runner'[t.at].pkt, t.id) /\ t.ahead = AheadOut(t.nr)
        BY <1>6 DEF Tokens, IsTodo
    <2>2. CASE t.at = l
        BY <1>3, <1>4, <2>1, <2>2 DEF Tokens, IsTodo
    <2>3. CASE t.at # l
        BY <1>3, <2>1, <2>3 DEF Tokens, IsTodo
    <2> QED BY <2>2, <2>3
<1>7. ASSUME NEW t \in Tokens'
      PROVE  \/ t \in A
             \/ t \in Tokens /\ (t.kind # "todo" \/ t.at # l \/ t.nr # k)
    <2>1. CASE IsTask(t)'
        BY <1>1, <1>2, <2>1, TaskAdded, TokenKinds
    <2>2. CASE IsTodo(t)'
        BY <1>6, <2>2
    <2>3. CASE IsDown(t)' \/ IsUp(t)' \/ IsStored(t)'
        BY <1>1, <2>3, TokenKinds, Untouched
    <2> QED BY <2>1, <2>2, <2>3, TokenKinds
<1>8. ASSUME NEW t \in Tokens' \cap A
      PROVE  \E s \in Tokens : s.kind = "todo" /\ s.at = l /\ s.nr = k /\ From(t, s)
    <2> DEFINE s == [kind |-> "todo", at |-> l, nr |-> k, id |-> t.id, ahead |-> AheadOut(k)]
    <2>1. IsTask(t)' /\ t \in Token /\ t \notin Tokens
        BY TokenKinds
    <2>2. Carries(m.pkt, t.id) /\ t.ahead = AheadOut(k)
        BY <1>1, <1>2, <2>1, TaskAdded DEF AheadOf
    <2>3. s \in Token
        BY <2>1, NodeTypes DEF Token, AheadOut
    <2>4. s \in Tokens
        BY <1>1, <1>5, <2>2, <2>3 DEF Tokens, IsTodo
    <2> QED
        BY <2>2, <2>4 DEF From
<1>9. \A t, s \in Tokens' \cap A : ~Elsewhere(t, s)
    BY DEF Elsewhere
<1> HIDE DEF A
<1> QED
    <2>1. FromElsewhere(Tokens, Tokens', A, "todo", l, k)
        BY ONLY <1>7, <1>8, <1>9 DEF FromElsewhere
    <2> QED BY ONLY <2>1, Apart(Tokens), TakenAway

-----------------------------------------------------------------------------
(* A server sends copies to the links it has, and users hear them.          *)

LEMMA InExtended ==
    ASSUME NEW S, NEW q \in Seq(S), NEW c \in Seq(S), Len(c) <= 1,
           NEW i \in DOMAIN (q \o c)
    PROVE  \/ i \in DOMAIN q /\ (q \o c)[i] = q[i]
           \/ /\ i = Len(q) + 1 /\ i \notin DOMAIN q /\ (q \o c)[i] = c[1]
              /\ Len(c) = 1
<1>1. /\ q \o c \in Seq(S) /\ Len(q \o c) = Len(q) + Len(c)
      /\ \A j \in 1..Len(q) + Len(c) :
            (q \o c)[j] = IF j <= Len(q) THEN q[j] ELSE c[j - Len(q)]
    BY ConcatProperties
<1>2. /\ Len(q) \in Nat /\ Len(c) \in Nat /\ DOMAIN q = 1..Len(q)
      /\ DOMAIN (q \o c) = 1..Len(q \o c)
    BY <1>1, LenProperties
<1>3. i \in 1..Len(q) + Len(c)
    BY <1>1, <1>2
<1>4. CASE i <= Len(q)
    BY <1>1, <1>2, <1>3, <1>4
<1>5. CASE ~(i <= Len(q))
    <2>1. i = Len(q) + 1 /\ Len(c) = 1 /\ i - Len(q) = 1 /\ i \notin 1..Len(q)
        <3>1. \A m, n \in Nat : \A j \in 1..m + n :
                 n <= 1 /\ ~(j <= m) => j = m + 1 /\ n = 1 /\ j - m = 1 /\ j \notin 1..m
            OBVIOUS
        <3>2. Len(c) <= 1
            OBVIOUS
        <3> QED BY ONLY <1>2, <1>3, <1>5, <3>1, <3>2
    <2>2. (q \o c)[i] = c[i - Len(q)]
        BY <1>1, <1>3, <1>5
    <2> QED BY <1>2, <2>1, <2>2
<1> QED BY <1>4, <1>5

LEMMA CopyTokens ==
    ASSUME PacketInv, NEW p \in GoodPacket, NEW x \in Parties, NEW a \in GoodPacket,
           a.kind \notin CastKinds,
           down' = [k \in Links |-> down[k] \o IF k = x THEN <<a>> ELSE Copies(p, x, k)],
           NEW t \in Tokens', IsDown(t)'
    PROVE  \/ t \in Tokens
           \/ /\ t.kind = "down" /\ t.at \in Links /\ t.at # x
              /\ ServerOf[t.at] = ServerOf[x] /\ t \notin Tokens
              /\ t.nr = Len(down[t.at]) + 1
              /\ Carries(p, t.id) /\ t.ahead = AheadIn(t.at)
<1> DEFINE c == IF t.at = x THEN <<a>> ELSE Copies(p, x, t.at)
<1>1. /\ t \in Token /\ t.kind = "down" /\ t.at \in Links /\ t.nr \in DOMAIN down'[t.at]
      /\ Carries(down'[t.at][t.nr], t.id) /\ t.ahead = AheadIn(t.at)
    BY DEF Tokens, IsDown
<1>2. down'[t.at] = down[t.at] \o c /\ down[t.at] \in Seq(GoodPacket)
    BY <1>1, QueueTypes
<1>3. /\ c \in Seq(GoodPacket) /\ Len(c) <= 1
      /\ Len(c) = 1 => \/ c[1] = a
                       \/ /\ t.at # x /\ ServerOf[t.at] = ServerOf[x]
                          /\ p.kind \in CastKinds /\ c[1] = [p EXCEPT !.ref = Nobody]
    <2>1. /\ <<a>> \in Seq(GoodPacket) /\ Len(<<a>>) = 1 /\ <<a>>[1] = a
        OBVIOUS
    <2>2. CASE t.at = x
        BY <2>1, <2>2
    <2>3. CASE t.at # x /\ Copies(p, x, t.at) = <<>>
        BY <2>3, EmptySeq
    <2>4. CASE t.at # x /\ Copies(p, x, t.at) # <<>>
        <3>1. /\ p.kind \in CastKinds /\ ServerOf[t.at] = ServerOf[x]
              /\ c = <<[p EXCEPT !.ref = Nobody]>>
            BY <2>4 DEF Copies
        <3>2. [p EXCEPT !.ref = Nobody] \in GoodPacket
            BY <3>1, CopiedPacket
        <3>3. \A e \in GoodPacket : <<e>> \in Seq(GoodPacket) /\ Len(<<e>>) = 1 /\ <<e>>[1] = e
            OBVIOUS
        <3>4. c \in Seq(GoodPacket) /\ Len(c) = 1 /\ c[1] = [p EXCEPT !.ref = Nobody]
            BY ONLY <3>1, <3>2, <3>3
        <3> HIDE DEF c
        <3> QED BY ONLY <2>4, <3>1, <3>4
    <2> QED BY <2>2, <2>3, <2>4
<1> HIDE DEF c
<1>4. \/ t.nr \in DOMAIN down[t.at] /\ down'[t.at][t.nr] = down[t.at][t.nr]
      \/ /\ t.nr = Len(down[t.at]) + 1 /\ t.nr \notin DOMAIN down[t.at]
         /\ down'[t.at][t.nr] = c[1] /\ Len(c) = 1
    <2>1. t.nr \in DOMAIN (down[t.at] \o c)
        BY <1>1, <1>2
    <2> QED BY ONLY <1>2, <1>3, <2>1, InExtended
<1>5. CASE t.nr \in DOMAIN down[t.at] /\ down'[t.at][t.nr] = down[t.at][t.nr]
    BY <1>1, <1>5 DEF Tokens, IsDown
<1>6. CASE /\ t.nr = Len(down[t.at]) + 1 /\ t.nr \notin DOMAIN down[t.at]
           /\ down'[t.at][t.nr] = c[1] /\ Len(c) = 1
    <2>1. t \notin Tokens
        BY <1>1, <1>6, TokensByKind DEF IsDown
    <2>2. c[1] # a
        BY <1>1, <1>6 DEF Carries
    <2>3. /\ t.at # x /\ ServerOf[t.at] = ServerOf[x]
          /\ p.kind \in CastKinds /\ c[1] = [p EXCEPT !.ref = Nobody]
        BY <1>3, <1>6, <2>2
    <2>4. c[1].id = p.id
        BY <2>3 DEF GoodPacket, Packet
    <2>5. Carries(p, t.id)
        BY <1>1, <1>6, <2>3, <2>4 DEF Carries
    <2> QED BY <1>1, <1>6, <2>1, <2>3, <2>5
<1> QED BY <1>4, <1>5, <1>6

LEMMA HeardCopies ==
    ASSUME PacketInv, NEW p \in GoodPacket, NEW x, Hear(p, x)
    PROVE  /\ \A u \in Users : \A q \in heard'[u] :
                 q \in heard[u] \/ (u \in Hearers(p, x) /\ q.id = p.id)
           /\ echoed' => echoed \/ \E u \in Hearers(p, x) : ~Unaware(u, p.id)
           /\ \A u \in Hearers(p, x) :
                 u \in Users /\ u # x /\ At(u) = At(x) /\ p.kind \in CastKinds
<1>1. [p EXCEPT !.ref = Nobody].id = p.id
    BY DEF GoodPacket, Packet
<1>2. \A u \in Users : heard'[u] = IF u \in Hearers(p, x)
                                   THEN heard[u] \cup {[p EXCEPT !.ref = Nobody]}
                                   ELSE heard[u]
    BY DEF Hear
<1>3. echoed' => echoed \/ \E u \in Hearers(p, x) : ~Unaware(u, p.id)
    BY DEF Hear, Unaware
<1>4. \A u \in Hearers(p, x) :
         u \in Users /\ u # x /\ At(u) = At(x) /\ p.kind \in CastKinds
    BY DEF Hearers, At
<1> QED
    BY <1>1, <1>2, <1>3, <1>4

(* A server handles a packet of a link: a broadcast branches to the other   *)
(* links of the server, and its users hear it.                              *)
LEMMA ServerHandleEcho ==
    ASSUME LinkedAsTree, PacketInv, PacketInv', EchoInv, NEW l \in Links, ServerHandle(l)
    PROVE  EchoInv'
<1> DEFINE p == Head(up[l])
           a == [NoPacket EXCEPT !.kind = "status", !.ref = p.ref]
           A == {t \in Token : /\ t.kind = "down" /\ t.at \in Links /\ t.at # l
                               /\ ServerOf[t.at] = ServerOf[l] /\ t \notin Tokens
                               /\ t.nr = Len(down[t.at]) + 1
                               /\ Carries(p, t.id) /\ t.ahead = AheadIn(t.at)}
           s0 == [kind |-> "up", at |-> l, nr |-> 1, id |-> p.id, ahead |-> AheadOut(l)]
<1>1. up[l] \in Seq(OutPacket) /\ up[l] # <<>>
    BY QueueTypes DEF ServerHandle
<1>2. /\ 1 \in DOMAIN up[l] /\ up[l][1] = p
      /\ \A i \in DOMAIN Tail(up[l]) : /\ i \in Nat /\ i >= 1 /\ i + 1 \in DOMAIN up[l]
                                       /\ Tail(up[l])[i] = up[l][i + 1]
    BY <1>1, InTail
<1>3. p \in GoodPacket /\ p.ref \in Links
    BY <1>1, HeadTailProperties DEF OutPacket
<1>4. a \in GoodPacket /\ a.kind = "status" /\ a.kind \notin CastKinds
    BY <1>3, NewPackets DEF NoPacket, CastKinds
<1>5. /\ down' = [k \in Links |-> down[k] \o IF k = l THEN <<a>> ELSE Copies(p, l, k)]
      /\ Hear(p, l) /\ up' = [up EXCEPT ![l] = Tail(@)]
      /\ UNCHANGED <<runner, tasks, wk, requests, sent>>
    BY DEF ServerHandle
<1> HIDE DEF p, a
<1>6. ASSUME p.kind \in CastKinds PROVE s0 \in Tokens
    <2>1. p.id \in Broadcasts
        BY <1>3, <1>6 DEF GoodPacket
    <2>2. s0 \in Token
        BY <2>1, NodeTypes DEF Token, AheadOut
    <2> QED BY <1>2, <1>6, <2>2 DEF Tokens, IsUp, Carries
<1>7. s0.kind = "up" /\ s0.at = l /\ s0.nr = 1 /\ s0.id = p.id /\ s0.ahead = AheadOut(l)
    OBVIOUS
<1>8. At(l) \in AheadOut(l)
    BY NodeTypes, ReachHas DEF AheadOut
<1> HIDE DEF s0
<1>9. ASSUME NEW t \in Tokens', IsUp(t)'
      PROVE  \E s \in Tokens : Stays(t, s, "up", l, 1)
    <2>1. /\ t \in Token /\ t.kind = "up" /\ t.at \in Links /\ t.nr \in DOMAIN up'[t.at]
          /\ Carries(up'[t.at][t.nr], t.id) /\ t.ahead = AheadOut(t.at)
        BY <1>9 DEF Tokens, IsUp
    <2>2. CASE t.at # l
        <3>1. up'[t.at] = up[t.at]
            BY <1>5, <2>2 DEF PacketInv
        <3>2. t \in Tokens
            BY <2>1, <3>1 DEF Tokens, IsUp
        <3> QED BY <2>2, <3>2 DEF Stays
    <2>3. CASE t.at = l
        <3> DEFINE s == [t EXCEPT !.nr = t.nr + 1]
        <3>1. up'[l] = Tail(up[l])
            BY <1>5 DEF PacketInv
        <3>2. /\ t.nr \in Nat /\ t.nr >= 1 /\ t.nr + 1 \in DOMAIN up[l]
              /\ up'[l][t.nr] = up[l][t.nr + 1]
            BY <1>2, <2>1, <2>3, <3>1
        <3>3. /\ s \in Token /\ s.kind = t.kind /\ s.at = t.at /\ s.nr = t.nr + 1
              /\ s.id = t.id /\ s.ahead = t.ahead
            BY <2>1, <3>2, Renumbered
        <3> HIDE DEF s
        <3>4. s \in Tokens
            BY <2>1, <2>3, <3>2, <3>3 DEF Tokens, IsUp
        <3> QED BY <2>1, <2>3, <3>2, <3>3, <3>4 DEF Stays
    <2> QED BY <2>2, <2>3
<1>10. \A t \in Tokens \cup Tokens' : t.kind = "up" => t.nr \in Nat
    BY Numbered
<1>11. ASSUME NEW t \in Tokens'
       PROVE  t \in A \/ \E s \in Tokens : Stays(t, s, "up", l, 1)
    <2>1. CASE IsDown(t)'
        <3>1. t \in A \/ t \in Tokens
            BY <1>3, <1>4, <1>5, <2>1, CopyTokens, TokenKinds DEF Parties
        <3> QED BY <2>1, <3>1, TokenKinds DEF Stays
    <2>2. CASE IsStored(t)' \/ IsTask(t)' \/ IsTodo(t)'
        BY <1>5, <2>2, TokenKinds, Untouched DEF Stays
    <2> QED BY <1>9, <2>1, <2>2, TokenKinds
<1>12. ASSUME NEW t \in A
       PROVE  /\ p.kind \in CastKinds /\ t.id = p.id /\ t.ahead = AheadIn(t.at)
              /\ t.at \in Links /\ t.at # l /\ ServerOf[t.at] = ServerOf[l]
              /\ t.ahead \subseteq AheadOut(l) /\ At(l) \notin t.ahead
    BY ServerBranches DEF Carries
<1>13. ASSUME NEW t \in Tokens' \cap A
       PROVE  \E s \in Tokens : s.kind = "up" /\ s.at = l /\ s.nr = 1 /\ From(t, s)
    BY <1>6, <1>7, <1>12 DEF From
<1>14. ASSUME NEW t \in Tokens' \cap A, NEW s \in Tokens' \cap A, Elsewhere(t, s)
       PROVE  t.ahead \cap s.ahead = {}
    <2>1. /\ t.at \in Links /\ s.at \in Links /\ t.at # s.at /\ ServerOf[t.at] = ServerOf[s.at]
          /\ t.ahead = AheadIn(t.at) /\ s.ahead = AheadIn(s.at)
        BY <1>12, <1>14 DEF Elsewhere
    <2> QED BY <2>1, ServerBranches
<1>15. Apart(Tokens') /\ \A t \in Tokens' : \E s \in Tokens : From(t, s)
    <2>1. FromQueue(Tokens, Tokens', A, "up", l, 1)
        BY ONLY <1>10, <1>11, <1>13, <1>14 DEF FromQueue
    <2>2. Apart(Tokens)
        BY DEF EchoInv
    <2> QED BY ONLY <2>1, <2>2, 1 \in Nat, TakenFromQueue
<1>16. /\ \A u \in Users : \A q \in heard'[u] :
             q \in heard[u] \/ (u \in Hearers(p, l) /\ q.id = p.id)
       /\ echoed' => echoed \/ \E u \in Hearers(p, l) : ~Unaware(u, p.id)
       /\ \A u \in Hearers(p, l) : u \in Users /\ At(u) = At(l) /\ p.kind \in CastKinds
    BY <1>3, <1>5, HeardCopies
(* No other copy of it is still to reach the server. *)
<1>17. ASSUME NEW t \in Tokens', p.kind \in CastKinds, t.id = p.id PROVE At(l) \notin t.ahead
    <2>1. CASE t \in A
        BY <1>12, <2>1
    <2>2. CASE t \notin A
        <3>1. PICK s \in Tokens : Stays(t, s, "up", l, 1)
            BY <1>11, <2>2
        <3>2. s.kind = "up" /\ s.at = l => t.nr \in Nat /\ s.nr # 1
            <4> SUFFICES ASSUME s.kind = "up", s.at = l PROVE t.nr \in Nat /\ s.nr # 1
                OBVIOUS
            <4>1. /\ t.kind = "up" /\ t.at = l
                  /\ s.nr = IF t.nr >= 1 THEN t.nr + 1 ELSE t.nr
                BY <3>1 DEF Stays
            <4>2. t.nr \in Nat
                BY <1>10, <4>1
            <4> QED BY ONLY <4>1, <4>2
        <3>3. Elsewhere(s, s0) /\ s.id = s0.id /\ s0 \in Tokens
            BY <1>6, <1>7, <1>17, <3>1, <3>2 DEF Elsewhere, Stays
        <3>4. s.ahead \cap s0.ahead = {}
            BY <3>3 DEF EchoInv, Apart
        <3> QED BY <1>7, <1>8, <3>1, <3>4 DEF Stays
    <2> QED BY <2>1, <2>2
<1> HIDE DEF A
<1>18. Fresh'
    <2> SUFFICES ASSUME NEW t \in Tokens', NEW u \in Users, At(u) \in t.ahead
                 PROVE  /\ u \notin {Origin[t.id], Sender[t.id]}
                        /\ \A q \in heard'[u] : q.id # t.id
        BY DEF Fresh, Unaware
    <2>1. PICK s \in Tokens : From(t, s)
        BY <1>15
    <2>2. Unaware(u, t.id)
        BY <2>1 DEF EchoInv, Fresh, From
    <2>3. ASSUME NEW q \in heard'[u], q.id = t.id PROVE FALSE
        BY <1>16, <1>17, <2>2, <2>3 DEF Unaware
    <2> QED BY <2>2, <2>3 DEF Unaware
<1>19. Unsent'
    <2> SUFFICES ASSUME NEW b \in Broadcasts, sent[b] = "no"
                 PROVE  /\ \A t \in Tokens' : t.id # b
                        /\ \A u \in Users : \A q \in heard'[u] : q.id # b
        BY <1>5 DEF Unsent
    <2>1. \A t \in Tokens : t.id # b
        BY DEF EchoInv, Unsent
    <2>2. \A t \in Tokens' : t.id # b
        BY <1>15, <2>1 DEF From
    <2>3. p.kind \in CastKinds => p.id # b
        BY <1>6, <1>7, <2>1
    <2>4. \A u \in Users : \A q \in heard'[u] : q.id # b
        BY <1>16, <2>3 DEF EchoInv, Unsent
    <2> QED BY <2>2, <2>4
<1>20. ~echoed'
    <2> SUFFICES ASSUME NEW u \in Hearers(p, l) PROVE Unaware(u, p.id)
        BY <1>16 DEF EchoInv
    <2> QED
        BY <1>6, <1>7, <1>8, <1>16 DEF EchoInv, Fresh
<1>21. Collects'
    BY <1>5 DEF EchoInv, Collects
<1> QED
    BY <1>15, <1>18, <1>19, <1>20, <1>21 DEF EchoInv, Apart, Elsewhere

(* A broadcast is sent: its copies are the only ones, each for another link *)
(* of its server, and none of them leads to who has sent it.                *)
LEMMA BroadcastEcho ==
    ASSUME LinkedAsTree, PacketInv, PacketInv', EchoInv,
           NEW b \in Broadcasts, NEW kind \in Kinds[b], Broadcast(b, kind)
    PROVE  EchoInv'
<1> DEFINE x == Sender[b]
           p == [NoPacket EXCEPT !.kind = kind, !.id = b, !.from = x,
                   !.trav = IF Origin[b] = x THEN Nobody ELSE Origin[b]]
           A == {t \in Token : /\ t.kind = "down" /\ t.at \in Links
                               /\ ServerOf[t.at] = ServerOf[x]
                               /\ t.nr = Len(down[t.at]) + 1
                               /\ t.id = b /\ t.ahead = AheadIn(t.at)}
<1>1. /\ x \in Users /\ x \notin Links /\ Origin[b] \in Users /\ Nobody \notin Users
      /\ kind \in CastKinds
    BY TopologyAssumption, KindsAssumption DEF Parties
<1>2. p \in GoodPacket /\ p.id = b /\ p.kind = kind
    <2>1. /\ p.kind = kind /\ p.id = b /\ p.from = x
          /\ p.trav = (IF Origin[b] = x THEN Nobody ELSE Origin[b])
        BY DEF NoPacket
    <2>2. p \in Packet
        BY <1>1 DEF NoPacket, Packet, Parties
    <2> HIDE DEF p, x
    <2> QED BY <1>1, <2>1, <2>2 DEF GoodPacket, Orig, CastKinds
<1>3. /\ Hear(p, x) /\ down' = [k \in Links |-> down[k] \o Copies(p, x, k)]
      /\ sent[b] = "no" /\ sent' = [sent EXCEPT ![b] = kind]
      /\ UNCHANGED <<runner, tasks, wk, requests, up>>
    BY DEF Broadcast
<1> HIDE DEF p, x
<1>4. down' = [k \in Links |-> down[k] \o IF k = x THEN <<NoPacket>> ELSE Copies(p, x, k)]
    <2>1. \A k \in Links : down[k] \o Copies(p, x, k)
              = down[k] \o IF k = x THEN <<NoPacket>> ELSE Copies(p, x, k)
        BY <1>1
    <2> QED BY <1>3, <2>1
<1>5. NoPacket \in GoodPacket /\ NoPacket.kind \notin CastKinds
    BY NewPackets, <1>1 DEF NoPacket, Packet, GoodPacket, Parties, CastKinds
<1>6. ASSUME NEW t \in Tokens' PROVE t \in Tokens \/ t \in A
    <2>1. CASE IsDown(t)'
        <3> HIDE DEF NoPacket
        <3>1. x \in Parties
            BY <1>1 DEF Parties
        <3>2. \/ t \in Tokens
              \/ /\ t.kind = "down" /\ t.at \in Links /\ t.at # x
                 /\ ServerOf[t.at] = ServerOf[x] /\ t \notin Tokens
                 /\ t.nr = Len(down[t.at]) + 1
                 /\ Carries(p, t.id) /\ t.ahead = AheadIn(t.at)
            BY ONLY PacketInv, t \in Tokens', <1>2, <1>4, <1>5, <2>1, <3>1, CopyTokens
        <3> QED BY <1>2, <3>2, TokenKinds DEF Carries
    <2>2. CASE IsStored(t)' \/ IsTask(t)' \/ IsTodo(t)' \/ IsUp(t)'
        BY <1>3, <2>2, TokenKinds, Untouched
    <2> QED BY <2>1, <2>2, TokenKinds
<1>7. \A t \in Tokens : t.id # b
    BY <1>3 DEF EchoInv, Unsent
<1>8. ASSUME NEW t \in A
      PROVE  /\ t.id = b /\ t.ahead = AheadIn(t.at) /\ t.at \in Links /\ At(t.at) = At(x)
             /\ At(x) \notin t.ahead /\ t.ahead \subseteq Reach(At(x), Links)
    <2>1. t.id = b /\ t.ahead = AheadIn(t.at) /\ t.at \in Links /\ At(t.at) = At(x)
        BY DEF At
    <2> QED BY <2>1, Bridge, ReachGrows
<1>9. ASSUME NEW t \in Tokens', NEW s \in Tokens', Elsewhere(t, s), t.id = s.id
      PROVE  t.ahead \cap s.ahead = {}
    <2>1. CASE t \in Tokens /\ s \in Tokens
        BY <1>9, <2>1 DEF EchoInv, Apart
    <2>2. CASE t \in A /\ s \in A
        <3>1. /\ t.at # s.at /\ ServerOf[t.at] = ServerOf[s.at]
              /\ t.at \in Links /\ s.at \in Links
              /\ t.ahead = AheadIn(t.at) /\ s.ahead = AheadIn(s.at)
            BY <1>9, <2>2 DEF Elsewhere
        <3> QED BY <3>1, ServerBranches
    <2> QED BY <1>6, <1>7, <1>8, <1>9, <2>1, <2>2
<1>10. /\ \A u \in Users : \A q \in heard'[u] :
             q \in heard[u] \/ (u \in Hearers(p, x) /\ q.id = b)
       /\ echoed' => echoed \/ \E u \in Hearers(p, x) : ~Unaware(u, b)
       /\ \A u \in Hearers(p, x) : u \in Users /\ u # x /\ At(u) = At(x)
    BY <1>2, <1>3, HeardCopies
<1>11. \A u \in Users : \A q \in heard[u] : q.id # b
    BY <1>3 DEF EchoInv, Unsent
<1> HIDE DEF A
<1>12. At(Origin[b]) = At(x) => Origin[b] = x
    BY <1>1, NodeTypes, ReachHas DEF LinkedAsTree, x
<1>13. ASSUME NEW t \in A PROVE At(Origin[b]) \notin t.ahead /\ At(x) \notin t.ahead
    BY <1>8 DEF LinkedAsTree, x
<1>14. Fresh'
    <2> SUFFICES ASSUME NEW t \in Tokens', NEW u \in Users, At(u) \in t.ahead
                 PROVE  /\ u \notin {Origin[t.id], Sender[t.id]}
                        /\ \A q \in heard'[u] : q.id # t.id
        BY DEF Fresh, Unaware
    <2>1. CASE t \in A
        <3>1. u \notin {Origin[b], Sender[b]} /\ u \notin Hearers(p, x)
            BY <1>10, <1>13, <2>1 DEF x
        <3> QED BY <1>8, <1>10, <1>11, <2>1, <3>1
    <2>2. CASE t \in Tokens
        <3>1. Unaware(u, t.id) /\ t.id # b
            BY <1>7, <2>2 DEF EchoInv, Fresh
        <3> QED BY <1>10, <3>1 DEF Unaware
    <2> QED BY <1>6, <2>1, <2>2
<1>15. Unsent'
    <2> SUFFICES ASSUME NEW d \in Broadcasts, sent'[d] = "no"
                 PROVE  /\ \A t \in Tokens' : t.id # d
                        /\ \A u \in Users : \A q \in heard'[u] : q.id # d
        BY DEF Unsent
    <2>1. sent[d] = "no" /\ d # b
        BY <1>1, <1>3 DEF PacketInv, CastKinds
    <2> QED
        BY <1>6, <1>8, <1>10, <2>1 DEF EchoInv, Unsent
<1>16. ~echoed'
    <2>1. ASSUME NEW u \in Hearers(p, x) PROVE Unaware(u, b)
        BY <1>10, <1>11, <1>12 DEF Unaware, x
    <2> QED BY <1>10, <2>1 DEF EchoInv
<1>17. Collects'
    BY <1>3 DEF EchoInv, Collects
<1> QED
    BY <1>9, <1>14, <1>15, <1>16, <1>17 DEF EchoInv, Apart, Elsewhere

-----------------------------------------------------------------------------
(* Everything else moves tokens or leaves them where they are.              *)

LEMMA QuietRunner ==
    ASSUME PacketInv, PacketInv', EchoInv, NEW l \in Links,
           Ping(l) \/ AskForAny(l) \/ ForwardEnd(l)
    PROVE  Tokens' \subseteq Tokens
<1> SUFFICES ASSUME NEW t \in Tokens' PROVE t \in Tokens
    OBVIOUS
<1>1. UNCHANGED <<down, requests, up>>
    BY DEF Ping, AskForAny, ForwardEnd
<1>2. CASE IsDown(t)' \/ IsStored(t)' \/ IsUp(t)'
    BY <1>1, <1>2, Untouched
<1>3. CASE IsTodo(t)'
    <2>1. /\ t \in Token /\ t.kind = "todo" /\ t.at \in Links
          /\ t.nr \in runner'[t.at].todo
          /\ Carries(runner'[t.at].pkt, t.id) /\ t.ahead = AheadOut(t.nr)
        BY <1>3 DEF Tokens, IsTodo
    <2>2. /\ runner[t.at] \in [pc : RunnerPC, pkt : GoodPacket, todo : SUBSET Links]
          /\ runner[l] \in [pc : RunnerPC, pkt : GoodPacket, todo : SUBSET Links]
        BY <2>1 DEF PacketInv
    <2>3. \/ runner'[t.at] = runner[t.at]
          \/ runner'[t.at] = [runner[t.at] EXCEPT !.pc = "pinging"]
          \/ runner'[t.at] = [runner[t.at] EXCEPT !.pc = "gathering"]
          \/ runner'[t.at].todo = {}
        <3>1. CASE ForwardEnd(l)
            BY <2>1, <2>2, <3>1 DEF ForwardEnd, RunnerGoes, PacketInv
        <3>2. CASE Ping(l)
            <4>1. runner' = [runner EXCEPT ![l] = [runner[l] EXCEPT !.pc = "pinging"]]
                BY <3>2 DEF Ping, RunnerGoes
            <4> QED BY <2>1, <4>1 DEF PacketInv
        <3>3. CASE AskForAny(l)
            <4>1. runner' = [runner EXCEPT ![l] = [runner[l] EXCEPT !.pc = "gathering"]]
                BY <3>3 DEF AskForAny, RunnerGoes
            <4> QED BY <2>1, <4>1 DEF PacketInv
        <3> QED BY <3>1, <3>2, <3>3
    <2>4. runner'[t.at].todo = runner[t.at].todo /\ runner'[t.at].pkt = runner[t.at].pkt
        BY <2>1, <2>2, <2>3
    <2> QED BY <2>1, <2>4 DEF Tokens, IsTodo
<1>4. CASE IsTask(t)'
    <2>1. CASE ForwardEnd(l)
        BY <1>4, <2>1, Untouched DEF ForwardEnd
    <2>2. CASE Ping(l)
        <3> DEFINE p == [NoPacket EXCEPT !.from = l, !.ref = l]
                   m == NewCall("ping", l, l, p)
        <3>1. p \in OutPacket /\ p.kind = "ping" /\ RouterOf[l] \in Routers
            BY NewPackets, TopologyAssumption DEF NoPacket
        <3>2. tasks' = [tasks EXCEPT ![RouterOf[l]] = Append(@, m)]
            BY <2>2 DEF Ping, Create, NewCall
        <3> HIDE DEF p
        <3>3. m \in Task /\ m.pkt.kind \notin CastKinds
            BY <3>1 DEF NewCall, Task, GoodCall, Call, CallKinds, OutPacket, GoodPacket,
                        CastKinds
        <3> HIDE DEF m
        <3> QED BY <1>4, <3>1, <3>2, <3>3, TaskAdded DEF Carries
    <2>3. CASE AskForAny(l)
        <3> DEFINE m == NewCall("gather", l, l, NoPacket)
        <3>1. RouterOf[l] \in Routers
            BY TopologyAssumption
        <3>2. tasks' = [tasks EXCEPT ![RouterOf[l]] = Append(@, m)]
            BY <2>3 DEF AskForAny, Create, NewCall
        <3>3. m \in Task /\ m.kind = "gather"
            BY NewPackets DEF NewCall, Task, GoodCall, Call, CallKinds, GoodPacket
        <3> HIDE DEF m
        <3> QED BY <1>4, <3>1, <3>2, <3>3, TaskAdded
    <2> QED BY <2>1, <2>2, <2>3
<1> QED BY <1>2, <1>3, <1>4, TokenKinds

(* A call returns without a request: its thread goes on.                    *)
LEMMA QuietWorker ==
    ASSUME PacketInv, PacketInv', NEW w \in Workers, NEW c \in wk[w].call,
           FinishCall(w, c) \/ WakeGather(w, c) \/ ReturnNull(w, c)
    PROVE  Tokens' \subseteq Tokens
<1> SUFFICES ASSUME NEW t \in Tokens' PROVE t \in Tokens
    OBVIOUS
<1>1. UNCHANGED <<down, requests, up, tasks>>
    BY DEF FinishCall, WakeGather, ReturnNull
<1>2. CASE IsDown(t)' \/ IsStored(t)' \/ IsUp(t)' \/ IsTask(t)'
    BY <1>1, <1>2, Untouched
<1>3. CASE IsTodo(t)'
    <2>1. /\ t \in Token /\ t.kind = "todo" /\ t.at \in Links
          /\ t.nr \in runner'[t.at].todo
          /\ Carries(runner'[t.at].pkt, t.id) /\ t.ahead = AheadOut(t.nr)
        BY <1>3 DEF Tokens, IsTodo
    <2>2. runner[t.at] \in [pc : RunnerPC, pkt : GoodPacket, todo : SUBSET Links]
        BY <2>1 DEF PacketInv
    <2>3. \/ runner'[t.at] = runner[t.at]
          \/ runner'[t.at] = [runner[t.at] EXCEPT !.pc = "loop"]
          \/ runner'[t.at] = [runner[t.at] EXCEPT !.pc = "forward"]
        <3>1. \/ runner' = runner
              \/ runner' = [runner EXCEPT ![c.by].pc = "loop"]
              \/ runner' = [runner EXCEPT ![c.by].pc = "forward"]
            BY DEF FinishCall, WakeGather, ReturnNull
        <3>2. DOMAIN runner = Links
            BY DEF PacketInv
        <3> QED BY ONLY <2>1, <3>1, <3>2
    <2>4. runner'[t.at].todo = runner[t.at].todo /\ runner'[t.at].pkt = runner[t.at].pkt
        BY <2>2, <2>3
    <2> QED BY <2>1, <2>4 DEF Tokens, IsTodo
<1> QED BY <1>2, <1>3, TokenKinds

LEMMA CollectsStep ==
    ASSUME PacketInv, Collects, Next
    PROVE  Collects'
<1>1. \/ wk' = wk
      \/ \E w \in Workers : wk' = [wk EXCEPT ![w] = Idle]
      \/ \E w \in Workers : \E S : wk' = [wk EXCEPT ![w] = [pc |-> "blocked", call |-> S]]
      \/ \E w \in Workers : /\ wk' = [wk EXCEPT ![w].pc = "collect"]
                            /\ \A c \in wk[w].call : c.kind = "gather"
    <2>1. ASSUME NEW w \in Workers, StartCall(w)
          PROVE  \E S : wk' = [wk EXCEPT ![w] = [pc |-> "blocked", call |-> S]]
        BY <2>1 DEF StartCall
    <2>2. ASSUME NEW w \in Workers, NEW c \in wk[w].call, WakeGather(w, c)
          PROVE  /\ wk' = [wk EXCEPT ![w].pc = "collect"]
                 /\ \A d \in wk[w].call : d.kind = "gather"
        BY <2>2 DEF WakeGather, Blocked
    <2>3. ASSUME NEW w \in Workers, NEW c \in wk[w].call,
                 \/ FinishCall(w, c) \/ ReturnNull(w, c)
                 \/ \E i \in DOMAIN requests[c.on] : ReturnRequest(w, c, i)
          PROVE  wk' = [wk EXCEPT ![w] = Idle]
        BY <2>3 DEF FinishCall, ReturnNull, ReturnRequest
    <2>4. ASSUME \/ \E l \in Links : \/ Ping(l) \/ AskForAny(l) \/ ForwardEnd(l)
                                     \/ Receive(l) \/ ServerHandle(l)
                                     \/ \E t \in Links : Forward(l, t)
                 \/ \E w \in Workers : HandleMessage(w)
                 \/ \E b \in Broadcasts : \E k \in Kinds[b] : Broadcast(b, k)
          PROVE  wk' = wk
        BY <2>4 DEF Ping, AskForAny, ForwardEnd, Receive, ServerHandle, Forward,
                    HandleMessage, Broadcast
    <2> QED BY <2>1, <2>2, <2>3, <2>4, NextCases
<1>2. /\ \A w \in Workers : wk[w] \in [pc : WorkerPC, call : SUBSET GoodCall]
      /\ DOMAIN wk = Workers
    BY DEF PacketInv
<1> SUFFICES ASSUME NEW w \in Workers, NEW c \in wk'[w].call, wk'[w].pc = "collect"
             PROVE  c.kind = "gather"
    BY DEF Collects
<1>3. CASE wk'[w] = wk[w]
    BY <1>3 DEF Collects
<1>4. CASE wk'[w] # wk[w]
    <2>1. \/ wk'[w] = Idle
          \/ \E S : wk'[w] = [pc |-> "blocked", call |-> S]
          \/ /\ wk'[w] = [wk[w] EXCEPT !.pc = "collect"]
             /\ \A d \in wk[w].call : d.kind = "gather"
        BY <1>1, <1>2, <1>4
    <2>2. wk'[w] # Idle /\ ~\E S : wk'[w] = [pc |-> "blocked", call |-> S]
        <3>1. Idle.pc = "idle" /\ \A S : [pc |-> "blocked", call |-> S].pc = "blocked"
            BY DEF Idle
        <3>2. wk'[w].pc # "idle" /\ wk'[w].pc # "blocked"
            OBVIOUS
        <3> QED BY ONLY <3>1, <3>2
    <2>3. [wk[w] EXCEPT !.pc = "collect"].call = wk[w].call
        BY <1>2
    <2> QED BY <2>1, <2>2, <2>3
<1> QED BY <1>3, <1>4

LEMMA EchoInit == Init => EchoInv
<1> SUFFICES ASSUME Init PROVE EchoInv
    OBVIOUS
<1>1. /\ \A l \in Links : DOMAIN down[l] = {} /\ DOMAIN requests[l] = {} /\ DOMAIN up[l] = {}
      /\ \A r \in Routers : DOMAIN tasks[r] = {}
    BY EmptySeq, LenProperties DEF Init
<1>2. \A l \in Links : runner[l].todo = {}
    BY DEF Init
<1>3. Tokens = {}
    BY <1>1, <1>2 DEF Tokens, IsDown, IsStored, IsTask, IsTodo, IsUp
<1>4. /\ \A w \in Workers : wk[w].call = {}
      /\ \A u \in Users : heard[u] = {}
      /\ ~echoed
    BY DEF Init, Idle
<1> QED
    BY <1>3, <1>4 DEF EchoInv, Apart, Fresh, Unsent, Collects

LEMMA EchoStep ==
    ASSUME LinkedAsTree, PacketInv, PacketInv', EchoInv, [Next]_vars
    PROVE  EchoInv'
<1>1. CASE UNCHANGED vars
    <2>1. Tokens' = Tokens
        BY <1>1 DEF vars, Tokens, IsDown, IsStored, IsTask, IsTodo, IsUp
    <2>2. /\ UNCHANGED <<sent, heard, echoed>> /\ Collects'
          /\ Apart(Tokens) /\ \A t \in Tokens : \E s \in Tokens : From(t, s)
        BY <1>1 DEF vars, EchoInv, Collects, From
    <2> QED BY <2>1, <2>2, TokensFollow
<1> SUFFICES ASSUME Next PROVE EchoInv'
    BY <1>1
<1>2. Collects' /\ Apart(Tokens) /\ Collects
    BY CollectsStep DEF EchoInv
<1>3. ASSUME Apart(Tokens'), \A t \in Tokens' : \E s \in Tokens : From(t, s),
             UNCHANGED <<sent, heard, echoed>>
      PROVE  EchoInv'
    BY <1>2, <1>3, TokensFollow
<1>4. ASSUME Tokens' \subseteq Tokens, UNCHANGED <<sent, heard, echoed>> PROVE EchoInv'
    <2>1. Apart(Tokens')
        BY <1>2, <1>4 DEF Apart
    <2>2. \A t \in Tokens' : \E s \in Tokens : From(t, s)
        BY <1>4 DEF From
    <2> QED BY <1>3, <1>4, <2>1, <2>2
<1>5. ASSUME NEW l \in Links, Ping(l) \/ AskForAny(l) \/ ForwardEnd(l) PROVE EchoInv'
    BY <1>4, <1>5, QuietRunner DEF Ping, AskForAny, ForwardEnd
<1>6. ASSUME NEW l \in Links, NEW k \in Links, Forward(l, k) PROVE EchoInv'
    BY <1>2, <1>3, <1>6, ForwardTokens DEF Forward
<1>7. ASSUME NEW l \in Links, Receive(l) PROVE EchoInv'
    BY <1>2, <1>3, <1>7, ReceiveTokens DEF Receive
<1>8. ASSUME NEW w \in Workers, StartCall(w) PROVE EchoInv'
    BY <1>2, <1>3, <1>8, StartCallTokens DEF StartCall
<1>9. ASSUME NEW w \in Workers, HandleMessage(w) PROVE EchoInv'
    BY <1>2, <1>3, <1>9, HandleMessageTokens DEF HandleMessage
<1>10. ASSUME NEW w \in Workers, NEW c \in wk[w].call,
              FinishCall(w, c) \/ WakeGather(w, c) \/ ReturnNull(w, c)
       PROVE  EchoInv'
    BY <1>4, <1>10, QuietWorker DEF FinishCall, WakeGather, ReturnNull
<1>11. ASSUME NEW w \in Workers, NEW c \in wk[w].call, NEW i \in DOMAIN requests[c.on],
              ReturnRequest(w, c, i)
       PROVE  EchoInv'
    BY <1>2, <1>3, <1>11, ReturnRequestTokens DEF ReturnRequest
<1> QED
    BY <1>5, <1>6, <1>7, <1>8, <1>9, <1>10, <1>11, ServerHandleEcho, BroadcastEcho, NextCases

(* Between any number of servers and routers that are linked as a tree, no  *)
(* user receives a broadcast twice or one of its own: each copy a server or *)
(* a router makes can only reach nodes that no other copy can, and none it  *)
(* has been at.  Nothing in a packet says where it has been, so the way the *)
(* servers are linked has to see to it.                                     *)
THEOREM NobodyHearsAnEcho == LinkedAsTree => (Spec => []NoEcho)
<1> SUFFICES ASSUME LinkedAsTree PROVE Spec => []NoEcho
    OBVIOUS
<1>1. Init => PacketInv /\ CallInv /\ EchoInv
    BY RouterInit, EchoInit
<1>2. PacketInv /\ CallInv /\ EchoInv /\ [Next]_vars => (PacketInv /\ CallInv /\ EchoInv)'
    BY RouterStep, EchoStep
<1>3. PacketInv /\ CallInv /\ EchoInv => NoEcho
    BY DEF EchoInv, NoEcho
<1> QED
    BY <1>1, <1>2, <1>3, PTL DEF Spec
=============================================================================
