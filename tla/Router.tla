------------------------------- MODULE Router -------------------------------
(***************************************************************************)
(* Routers (dnet/router.c) between servers.  A router has one session for  *)
(* each server it is linked to, one thread for each session and one event  *)
(* loop whose workers all sessions share.  The thread of a link asks for   *)
(* any incoming request and sends what is a SIG_BROADCAST to every other   *)
(* link, one after the other, awaiting each call.                          *)
(*                                                                         *)
(* A call keeps a worker of the loop blocked until another worker runs the *)
(* __dcn_on_message task that wakes it.  This module is about who blocks   *)
(* whom and where packets go: a call sends its packet and falls asleep in  *)
(* one step, a message is handled in one step, and await returns when the  *)
(* call does.  The races inside those steps are in Session and ThreadPool, *)
(* those of a server in Relay.                                             *)
(***************************************************************************)
EXTENDS Naturals, Sequences, FiniteSets, SequencesExt

CONSTANTS
    Routers, Servers, Users,
    Links,          \* the sessions of all routers, and the threads of each
    RouterOf,       \* the router a link belongs to
    Workers,        \* the workers of the event loops
    LoopOf,         \* the router whose loop a worker belongs to
    ServerOf,       \* the server a link or user is connected to
    Broadcasts,     \* the broadcasts, each sent at most once
    Kinds,          \* the packet types each may be sent with
    Origin,         \* the user that has sent each first
    Sender,         \* the client its first server here has it from: the
                    \* origin, or the link of a router further away
    Nobody          \* no uid (0)

Parties == Links \cup Users

LinksOf(r)   == {l \in Links : RouterOf[l] = r}
WorkersOf(r) == {w \in Workers : LoopOf[w] = r}

ASSUME TopologyAssumption ==
    /\ RouterOf \in [Links -> Routers] /\ LoopOf \in [Workers -> Routers]
    /\ ServerOf \in [Parties -> Servers] /\ Origin \in [Broadcasts -> Users]
    /\ Sender \in [Broadcasts -> Users]
    /\ Links \cap Users = {} /\ Nobody \notin Parties

(* src/code/router.c: four workers for two links.  With as many workers as  *)
(* links the threads block them all.                                        *)
ASSUME EnoughWorkers ==
    /\ IsFiniteSet(Workers) /\ IsFiniteSet(Links)
    /\ \A r \in Routers : Cardinality(WorkersOf(r)) > Cardinality(LinksOf(r))

CastKinds == {"broadcast", "sig_broadcast"}

ASSUME KindsAssumption == Kinds \in [Broadcasts -> SUBSET CastKinds]

VARIABLES
    runner,     \* the thread of each link
    tasks,      \* the tasks waiting in the event loop of each router
    wk,         \* the workers: idle, or with a call
    answered,   \* the threads whose call has its status answer
    anyReady,   \* the links whose session's req_waiter is set
    requests,   \* what usr_responses of each session holds
    up, down,   \* packets between a link and its server
    known,      \* the links their server has registered
    sent,       \* how each broadcast has been sent, if it has
    heard,      \* the packets each user has received
    echoed      \* history: a user received a broadcast twice, or its own

net == <<up, down, known, sent, heard, echoed>>
vars == <<runner, tasks, wk, answered, anyReady, requests, net>>

(* id: the broadcast it carries; trav: trav_fuid; ref: whose call it        *)
(* answers or is.                                                           *)
Packet == [kind : {"ping", "status"} \cup CastKinds, id : Broadcasts \cup {Nobody},
           from : Parties \cup {Nobody}, trav : Users \cup {Nobody},
           ref : Links \cup {Nobody}]

NoPacket == [kind |-> "ping", id |-> Nobody, from |-> Nobody, trav |-> Nobody,
             ref |-> Nobody]

(* by: the thread that awaits it; on: the link whose session it is made on. *)
CallKinds == {"ping", "gather", "request"}
Call    == [kind : CallKinds, by : Links, on : Links, pkt : Packet]
Message == [kind : {"message"}, on : Links, pkt : Packet]

NewCall(kind, by, on, p) == [kind |-> kind, by |-> by, on |-> on, pkt |-> p]

(* orig_trav_fuid: who has sent the broadcast first.                        *)
Orig(p) == IF p.trav = Nobody THEN p.from ELSE p.trav

Idle == [pc |-> "idle", call |-> {}]

Init == /\ runner = [l \in Links |-> [pc |-> "start", pkt |-> NoPacket, todo |-> {}]]
        /\ tasks = [r \in Routers |-> <<>>]
        /\ wk = [w \in Workers |-> Idle]
        /\ answered = {} /\ anyReady = {}
        /\ requests = [l \in Links |-> <<>>]
        /\ up = [l \in Links |-> <<>>] /\ down = [l \in Links |-> <<>>]
        /\ known = {} /\ sent = [b \in Broadcasts |-> "no"]
        /\ heard = [u \in Users |-> {}] /\ echoed = FALSE

-----------------------------------------------------------------------------
(* The thread of a link: __router_runner. *)

RunnerGoes(l, from, rec) ==
    runner[l].pc = from /\ runner' = [runner EXCEPT ![l] = rec]

(* async_create, on the loop the sessions of the router share.              *)
Create(c) == tasks' = [tasks EXCEPT ![RouterOf[c.by]] = Append(@, c)]

(* dnet_run, then await(ping(session)). *)
Ping(l) == /\ RunnerGoes(l, "start", [runner[l] EXCEPT !.pc = "pinging"])
           /\ Create(NewCall("ping", l, l, [NoPacket EXCEPT !.from = l, !.ref = l]))
           /\ UNCHANGED <<wk, answered, anyReady, requests, net>>

(* await(async_misc_grequests(session, -1)) *)
AskForAny(l) ==
    /\ RunnerGoes(l, "loop", [runner[l] EXCEPT !.pc = "gathering"])
    /\ Create(NewCall("gather", l, l, NoPacket))
    /\ UNCHANGED <<wk, answered, anyReady, requests, net>>

(* Faulty variant: the original sender is replaced by the last one. *)
ForwardedFromLast(l, t) == [runner[l].pkt EXCEPT !.trav = runner[l].pkt.from,
                                                 !.from = t, !.ref = l]

(* request(tsession, packet_copy, 0, orig_trav_fuid, packtype) *)
Forwarded(l, t) == [runner[l].pkt EXCEPT !.trav = Orig(runner[l].pkt),
                                         !.from = t, !.ref = l]

(* Faulty variant: the thread does not await the call. *)
ForwardAsync(l, t) ==
    /\ t \in runner[l].todo
    /\ RunnerGoes(l, "forward", [runner[l] EXCEPT !.todo = @ \ {t}])
    /\ Create(NewCall("request", l, t, Forwarded(l, t)))
    /\ UNCHANGED <<wk, answered, anyReady, requests, net>>

(* The next of the other links, in some order: send it a copy and await it. *)
Forward(l, t) ==
    /\ t \in runner[l].todo
    /\ RunnerGoes(l, "forward", [runner[l] EXCEPT !.pc = "sending",
                                                  !.todo = @ \ {t}])
    /\ Create(NewCall("request", l, t, Forwarded(l, t)))
    /\ UNCHANGED <<wk, answered, anyReady, requests, net>>

ForwardEnd(l) ==
    /\ runner[l].todo = {}
    /\ RunnerGoes(l, "forward", [runner[l] EXCEPT !.pc = "loop", !.pkt = NoPacket])
    /\ UNCHANGED <<tasks, wk, answered, anyReady, requests, net>>

-----------------------------------------------------------------------------
(* The workers of the loops. *)

Oldest(w) == Head(tasks[LoopOf[w]])
TakesTask(w) == /\ wk[w].pc = "idle" /\ tasks[LoopOf[w]] # <<>>
                /\ tasks' = [tasks EXCEPT ![LoopOf[w]] = Tail(@)]

(* Faulty variant: __async_grequests starts with a fresh req_waiter.        *)
StartCallAnew(w) ==
    /\ TakesTask(w) /\ Oldest(w).kind \in CallKinds
    /\ wk' = [wk EXCEPT ![w] = [pc |-> "blocked", call |-> {Oldest(w)}]]
    /\ IF Oldest(w).kind = "gather"
       THEN anyReady' = anyReady \ {Oldest(w).on} /\ UNCHANGED up
       ELSE /\ up' = [up EXCEPT ![Oldest(w).on] = Append(@, Oldest(w).pkt)]
            /\ UNCHANGED anyReady
    /\ UNCHANGED <<runner, answered, requests, down, known, sent, heard, echoed>>

(* __async_ping and __async_req send their packet, __async_grequests does   *)
(* not send; then they wait, and the worker with them.                      *)
StartCall(w) ==
    /\ TakesTask(w) /\ Oldest(w).kind \in CallKinds
    /\ wk' = [wk EXCEPT ![w] = [pc |-> "blocked", call |-> {Oldest(w)}]]
    /\ up' = IF Oldest(w).kind = "gather" THEN up
             ELSE [up EXCEPT ![Oldest(w).on] = Append(@, Oldest(w).pkt)]
    /\ UNCHANGED <<runner, answered, anyReady, requests, down, known, sent,
                   heard, echoed>>

(* Faulty variant: an answer is taken for one to whoever it is from.        *)
AnswersFrom(p) == p.from

(* The call whose muid a status answer has. *)
Answers(p) == p.ref

(* __dcn_on_message: a status answer wakes its call, anything else is       *)
(* stored and sets req_waiter.                                              *)
HandleMessage(w) ==
    /\ TakesTask(w) /\ Oldest(w).kind = "message"
    /\ LET p == Oldest(w).pkt
           l == Oldest(w).on
       IN IF p.kind = "status"
          THEN /\ answered' = answered \cup {Answers(p)}
               /\ UNCHANGED <<anyReady, requests>>
          ELSE /\ requests' = [requests EXCEPT ![l] = Append(@, p)]
               /\ anyReady' = anyReady \cup {l}
               /\ UNCHANGED answered
    /\ UNCHANGED <<runner, wk, net>>

Blocked(w, c) == wk[w].pc = "blocked" /\ wk[w].call = {c}

(* The status answer is there: the call returns, and so does await.         *)
FinishCall(w, c) ==
    /\ Blocked(w, c) /\ c.kind # "gather" /\ c.by \in answered
    /\ answered' = answered \ {c.by}
    /\ wk' = [wk EXCEPT ![w] = Idle]
    /\ runner' = [runner EXCEPT ![c.by].pc =
                    IF c.kind = "ping" THEN "loop" ELSE "forward"]
    /\ UNCHANGED <<tasks, anyReady, requests, net>>

(* req_waiter is set: reset it and look for a request. *)
WakeGather(w, c) ==
    /\ Blocked(w, c) /\ c.kind = "gather" /\ c.on \in anyReady
    /\ anyReady' = anyReady \ {c.on}
    /\ wk' = [wk EXCEPT ![w].pc = "collect"]
    /\ UNCHANGED <<runner, tasks, answered, requests, net>>

(* Faulty variant: a packet is also sent back on the link it came from. *)
OthersAndBack(l) == LinksOf(RouterOf[l])

Others(l) == LinksOf(RouterOf[l]) \ {l}

(* Each sender has a queue of its own; any of them may be looked at first.  *)
Nexts(q) == {i \in DOMAIN q : \A j \in 1..i - 1 : q[j].from # q[i].from}

(* The call returns a request; only a SIG_BROADCAST is sent on.             *)
ReturnRequest(w, c, i) ==
    /\ wk[w].pc = "collect" /\ wk[w].call = {c} /\ i \in Nexts(requests[c.on])
    /\ requests' = [requests EXCEPT ![c.on] = RemoveAt(@, i)]
    /\ runner' = [runner EXCEPT ![c.by] =
                    IF requests[c.on][i].kind = "sig_broadcast"
                    THEN [pc |-> "forward", pkt |-> requests[c.on][i],
                          todo |-> Others(c.by)]
                    ELSE [@ EXCEPT !.pc = "loop"]]
    /\ wk' = [wk EXCEPT ![w] = Idle]
    /\ UNCHANGED <<tasks, answered, anyReady, net>>

(* There is none: NULL, and the thread asks again. *)
ReturnNull(w, c) ==
    /\ wk[w].pc = "collect" /\ wk[w].call = {c} /\ requests[c.on] = <<>>
    /\ runner' = [runner EXCEPT ![c.by].pc = "loop"]
    /\ wk' = [wk EXCEPT ![w] = Idle]
    /\ UNCHANGED <<tasks, answered, anyReady, requests, net>>

-----------------------------------------------------------------------------
(* The sockets and the servers. *)

(* run_client reads a packet and creates a task for it. *)
Receive(l) ==
    /\ down[l] # <<>>
    /\ down' = [down EXCEPT ![l] = Tail(@)]
    /\ tasks' = [tasks EXCEPT ![RouterOf[l]] =
                   Append(@, [kind |-> "message", on |-> l, pkt |-> Head(down[l])])]
    /\ UNCHANGED <<runner, wk, answered, anyReady, requests, up, known, sent,
                   heard, echoed>>

(* The copies of a broadcast for the registered parties of the sender's     *)
(* server other than the sender: from_uid and trav_fuid are kept.           *)
Copies(p, x, l) == IF /\ p.kind \in CastKinds /\ l # x /\ l \in known
                      /\ ServerOf[l] = ServerOf[x]
                   THEN <<[p EXCEPT !.ref = Nobody]>> ELSE <<>>

Hearers(p, x) == IF p.kind \in CastKinds
                 THEN {u \in Users \ {x} : ServerOf[u] = ServerOf[x]} ELSE {}

Hear(p, x) ==
    /\ heard' = [u \in Users |-> IF u \in Hearers(p, x)
                                 THEN heard[u] \cup {[p EXCEPT !.ref = Nobody]}
                                 ELSE heard[u]]
    /\ echoed' = (echoed \/ \E u \in Hearers(p, x) :
                               u \in {Origin[p.id], Sender[p.id]} \/ \E q \in heard[u] : q.id = p.id)

(* dcn_async_worker: registers the sender, answers 200 and sends a          *)
(* broadcast to everybody else.                                             *)
ServerHandle(l) ==
    /\ up[l] # <<>>
    /\ LET p == Head(up[l])
       IN /\ down' = [k \in Links |-> down[k] \o
                        IF k = l THEN <<[NoPacket EXCEPT !.kind = "status",
                                                         !.ref = p.ref]>>
                        ELSE Copies(p, l, k)]
          /\ Hear(p, l)
    /\ up' = [up EXCEPT ![l] = Tail(@)]
    /\ known' = known \cup {l}
    /\ UNCHANGED <<runner, tasks, wk, answered, anyReady, requests, sent>>

(* A client sends a broadcast, its own or that of a user further away, and  *)
(* its server handles it.                                                   *)
Broadcast(b, kind) ==
    /\ sent[b] = "no"
    /\ sent' = [sent EXCEPT ![b] = kind]
    /\ LET x == Sender[b]
           p == [NoPacket EXCEPT !.kind = kind, !.id = b, !.from = x,
                    !.trav = IF Origin[b] = x THEN Nobody ELSE Origin[b]]
       IN /\ down' = [k \in Links |-> down[k] \o Copies(p, x, k)]
          /\ Hear(p, x)
    /\ UNCHANGED <<runner, tasks, wk, answered, anyReady, requests, up, known>>

-----------------------------------------------------------------------------
RunnerStep(l) == \/ Ping(l) \/ AskForAny(l) \/ ForwardEnd(l)
                 \/ \E t \in Links : Forward(l, t)

CallStep(w, c) == \/ FinishCall(w, c) \/ WakeGather(w, c) \/ ReturnNull(w, c)
                  \/ \E i \in DOMAIN requests[c.on] : ReturnRequest(w, c, i)

WorkerStep(w) == \/ StartCall(w) \/ HandleMessage(w)
                 \/ \E c \in wk[w].call : CallStep(w, c)

NetStep(l) == Receive(l) \/ ServerHandle(l)

(* The threads, the network and the servers go on while any of them can.    *)
(* That is enough: all they do without another broadcast comes to an end.   *)
(* Nobody has to send a broadcast.                                          *)
SystemStep == \/ \E l \in Links : RunnerStep(l) \/ NetStep(l)
              \/ \E w \in Workers : WorkerStep(w)

Next == SystemStep \/ \E b \in Broadcasts : \E k \in Kinds[b] : Broadcast(b, k)

Spec == Init /\ [][Next]_vars

FairSpec == Spec /\ WF_vars(SystemStep)

-----------------------------------------------------------------------------
TypeOK ==
    /\ \A l \in Links :
          /\ runner[l].pc \in {"start", "pinging", "loop", "gathering",
                               "forward", "sending"}
          /\ runner[l].pkt \in Packet /\ runner[l].todo \subseteq LinksOf(RouterOf[l])
    /\ DOMAIN runner = Links
    /\ tasks \in [Routers -> Seq(Call \cup Message)]
    /\ wk \in [Workers -> [pc : {"idle", "blocked", "collect"}, call : SUBSET Call]]
    /\ answered \subseteq Links /\ anyReady \subseteq Links
    /\ requests \in [Links -> Seq(Packet)]
    /\ up \in [Links -> Seq(Packet)] /\ down \in [Links -> Seq(Packet)]
    /\ known \subseteq Links /\ sent \in [Broadcasts -> CastKinds \cup {"no"}]
    /\ heard \in [Users -> SUBSET Packet] /\ echoed \in BOOLEAN

(* However the threads of the links call each other's sessions, at least    *)
(* one worker of the loop is not blocked in a call: the status answers and  *)
(* requests that end the calls are always handled.                          *)
WorkerLeft == \A r \in Routers : \E w \in WorkersOf(r) : wk[w].pc # "blocked"

Casts == UNION ({{up[l][i] : i \in DOMAIN up[l]} : l \in Links}
          \cup {{down[l][i] : i \in DOMAIN down[l]} : l \in Links}
          \cup {heard[u] : u \in Users})

(* Over any number of routers a broadcast carries the uid of the user that  *)
(* sent it: as from_uid on its own server, as trav_fuid after that.         *)
OriginKept == \A p \in Casts : p.kind \in CastKinds => Orig(p) = Origin[p.id]

(* The graph whose nodes are the servers and the routers and whose edges    *)
(* are the links: where x is connected, what a link belongs to, and what    *)
(* the links in L connect n with.                                           *)
Node == ({"server"} \X Servers) \cup ({"router"} \X Routers)
At(x) == <<"server", ServerOf[x]>>
Of(l) == <<"router", RouterOf[l]>>

Closed(N, L) == \A l \in L : At(l) \in N <=> Of(l) \in N
Reach(n, L)  == {m \in Node : \A N \in SUBSET Node : n \in N /\ Closed(N, L) => m \in N}

(* No link is part of a cycle, and a broadcast that comes from a router     *)
(* further away is from a user no link here leads to.                       *)
LinkedAsTree ==
    /\ \A l \in Links : At(l) \notin Reach(Of(l), Links \ {l})
    /\ \A b \in Broadcasts : Origin[b] # Sender[b]
           => At(Origin[b]) \notin Reach(At(Sender[b]), Links)

(* Between servers linked as a tree no user receives a broadcast twice or   *)
(* its own back.  Nothing in a packet would end its way round a cycle.      *)
NoEcho == ~echoed

(* A SIG_BROADCAST that has been sent to a link reaches every user of every *)
(* server that has a link, unless another one is sent.  (That one may set   *)
(* req_waiter before the first is taken, and one of the two stays stored.)  *)
Hearing(b) == {u \in Users \ {Sender[b]} :
                 \E l \in Links : ServerOf[u] = ServerOf[l]}
Another(b) == \E c \in Broadcasts \ {b} : sent[c] # "no"
SentToLink(b) == \E l \in Links : \E i \in DOMAIN down[l] :
                    down[l][i].id = b /\ down[l][i].kind = "sig_broadcast"
SignalReachesAll ==
    \A b \in Broadcasts :
        SentToLink(b) ~> \/ Another(b)
                         \/ \A u \in Hearing(b) : \E p \in heard[u] : p.id = b
=============================================================================
