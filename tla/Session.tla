------------------------------- MODULE Session -------------------------------
(***************************************************************************)
(* One client session (dnet/client.c): the calls an application makes      *)
(* (request, ping, async_grequests, async_misc_grequests), the pool        *)
(* workers that run them and __dcn_on_message, and the thread of           *)
(* run_client (netw/client.c) that reads and writes the socket.            *)
(*                                                                         *)
(* A call is a task of the event loop and blocks its worker while it waits *)
(* for the server's status answer and for the addressee's response.        *)
(* Packets come back through __dcn_on_message tasks on the same workers,   *)
(* which store them in the session's maps and set the waiter of the call.  *)
(*                                                                         *)
(* A step is one operation on shared state: a map or queue operation, a    *)
(* critical section of usr_responses_mtx, a waiter operation.  pop_block   *)
(* of a queue's last block is two steps, as in Relay.  waiter_wait tests   *)
(* is_ready and falls asleep in two steps, waiter_set takes no mutex.      *)
(* The server and the peers are the environment: the server answers every  *)
(* packet once, in any order, and a peer is a session like this one.       *)
(***************************************************************************)
EXTENDS Naturals, Sequences, FiniteSets

CONSTANTS
    Uids,           \* the other clients
    Server,         \* the server's own user id, 0
    Workers,        \* the threads of the event loop
    NoWorker,       \* nobody holds usr_responses_mtx
    Calls,          \* the calls of the application, each made at most once
    Op,             \* what each call is: [kind, to]
    NoCall,         \* no call
    OnMessage,      \* the task that runs __dcn_on_message
    MaxMuids,       \* bound: no 101 once that many muids are given out
    MaxAsks,        \* bound: the requests each peer sends
    Mixes           \* bound: the calls and peers that act in one behaviour

Kinds == {"request", "respond", "signal", "ping", "gather", "misc"}

ASSUME OpAssumption ==
    /\ Op \in [Calls -> [kind : Kinds, to : Uids \cup {Server}]]
    /\ \A c \in Calls : Op[c].kind \in {"request", "respond", "gather"}
                          => Op[c].to \in Uids
ASSUME NamesAssumption == /\ Server \notin Uids
                          /\ NoWorker \notin Workers
                          /\ NoCall \notin Calls /\ OnMessage \notin Calls
                          /\ NoCall # OnMessage
ASSUME BoundsAssumption == MaxMuids \in Nat /\ MaxAsks \in Nat

VARIABLES
    tasks,          \* the tasks waiting in the event loop
    wk,             \* the workers: where each is, with what
    runner,         \* where the thread of run_client is
    readq, writeq,  \* session->readq, session->writeq
    last_muid,      \* session->last_muid
    last_c_muids,   \* the UIDs with an entry in last_c_muids; its value is 0
    cmuid,          \* pack->cmuid of each call
    responses,      \* muid -> status answer
    cnd_responses,  \* muid -> waiter of the call
    usr_responses,  \* uid -> the requests and responses it has sent
    usr_waiters,    \* uid -> which pair of waiters; 0: none yet
    ready,          \* the waiters whose is_ready is set
    freed,          \* the waiters waiter_free has released
    usrLock,        \* who holds usr_responses_mtx
    atServer,       \* packets written to the server, not answered yet
    asked,          \* how many requests each peer has sent
    stage,          \* of each call: "new", "running" or "done"
    got,            \* what the future of a call yields; {} is NULL
    accepted,       \* history: packets of a call the server answered 200
    responded,      \* history: the calls their addressee has responded to
    stored,         \* history: requests __dcn_on_message has stored
    dup,            \* history: two packets have been given the same muid
    drawn,          \* history: the muids given out
    twice           \* history: readq has handed a packet out a second time

maps == <<responses, cnd_responses>>
users == <<usr_responses, usr_waiters, usrLock>>
waits == <<ready, freed>>
ids == <<last_muid, dup, drawn, twice>>
queues == <<readq, writeq>>
env == <<atServer, asked, accepted, responded>>
app == <<last_c_muids, cmuid, stage>>
vars == <<tasks, wk, runner, queues, ids, app, maps, users, waits, env,
          got, stored>>

(* A packet that comes in.  num: the muid of a status answer, the cmuid of  *)
(* a response, a serial number of a request; ref: the call responded to.    *)
Packet == [kind : {"status", "request", "response"}, from : Uids \cup {Server},
           num : Nat, code : {0, 101, 200}, ref : Calls \cup {NoCall}]

NoPacket == [kind |-> "status", from |-> Server, num |-> 0, code |-> 0,
             ref |-> NoCall]

(* The waiters: one for each dcn_request, two for each peer that is in      *)
(* usr_waiters, one for the session.                                        *)
Waiter(c, n)  == [what |-> "call", of |-> c, n |-> n]
ReqWaiter(u)  == [what |-> "req",  of |-> u, n |-> usr_waiters[u]]
RespWaiter(u) == [what |-> "resp", of |-> u, n |-> usr_waiters[u]]
AnyWaiter     == [what |-> "req",  of |-> Server, n |-> 0]

Idle == [pc |-> "idle", call |-> NoCall, muid |-> 0, pkt |-> NoPacket,
         on |-> AnyWaiter, then |-> "idle", todo |-> {}, seen |-> 0]

Empty == [requests |-> <<>>, responses |-> <<>>]

Put(f, k, v) == [x \in DOMAIN f \cup {k} |-> IF x = k THEN v ELSE f[x]]
Without(f, k) == [x \in DOMAIN f \ {k} |-> f[x]]

Init == /\ tasks = <<>>
        /\ wk = [w \in Workers |-> Idle]
        /\ runner = "poll"
        /\ readq = <<>> /\ writeq = <<>>
        /\ last_muid = 1 /\ dup = FALSE /\ drawn = {} /\ twice = FALSE
        /\ last_c_muids = {} /\ cmuid = [c \in Calls |-> 0]
        /\ responses = <<>> /\ cnd_responses = <<>>
        /\ usr_responses = <<>>
        /\ usr_waiters = [u \in Uids |-> 0]
        /\ usrLock = NoWorker
        /\ ready = {} /\ freed = {}
        /\ atServer = {} /\ asked = [u \in Uids |-> 0]
        /\ accepted = [c \in Calls |-> 0] /\ responded = {}
        /\ stage = [c \in Calls |-> "new"]
        /\ got = [c \in Calls |-> {}]
        /\ stored = {}

-----------------------------------------------------------------------------
(* The application: one call of the user interface functions. *)

(* Some mix has x beside the calls and the peers that have acted so far.    *)
Acting == {c \in Calls : stage[c] # "new"} \cup {u \in Uids : asked[u] > 0}
Joins(x) == \E M \in Mixes : x \in M /\ Acting \subseteq M

Schedule(c) == /\ stage[c] = "new" /\ Joins(c)
               /\ stage' = [stage EXCEPT ![c] = "running"]
               /\ tasks' = Append(tasks, c)

(* request to an addressee that has an entry in last_c_muids, which request *)
(* reads and never advances; to the server or for a first packet: 0.        *)
Cmuid(c) == IF Op[c].to \in last_c_muids /\ Op[c].kind # "respond" THEN 1 ELSE 0

(* request: choose the cmuid, create the task. *)
Request(c) ==
    /\ Op[c].kind \in {"request", "respond", "signal"}
    /\ Op[c].kind = "respond" => Op[c].to \in last_c_muids
    /\ cmuid' = [cmuid EXCEPT ![c] = Cmuid(c)]
    /\ last_c_muids' = last_c_muids \cup ({Op[c].to} \ {Server})
    /\ Schedule(c)
    /\ UNCHANGED <<wk, runner, queues, ids, maps, users, waits, env, got, stored>>

(* "First packet to request with is RESPONSE": NULL instead of a future.    *)
RequestRefused(c) ==
    /\ Op[c].kind = "respond" /\ Op[c].to \notin last_c_muids
    /\ stage[c] = "new" /\ Joins(c)
    /\ stage' = [stage EXCEPT ![c] = "done"]
    /\ UNCHANGED <<tasks, wk, runner, queues, ids, maps, users, waits, env, got,
                   stored, last_c_muids, cmuid>>

(* ping, async_grequests, async_misc_grequests. *)
Start(c) ==
    /\ Op[c].kind \in {"ping", "gather", "misc"}
    /\ Schedule(c)
    /\ UNCHANGED <<wk, runner, queues, ids, maps, users, waits, env, got, stored,
                   last_c_muids, cmuid>>

-----------------------------------------------------------------------------
(* The thread of run_client, with the server and the peers at its other end. *)

RunnerGoes(from, to) == runner = from /\ runner' = to

(* POLLIN: a packet is complete and is pushed to readq. *)
Receive(p) == /\ RunnerGoes("poll", "create")
              /\ readq' = Append(readq, p)
              /\ UNCHANGED <<tasks, wk, writeq, ids, app, maps, users, waits,
                             got, stored>>

(* The server answers a packet: 200, or 101 while the addressee is unknown; *)
(* a packet to the server itself is always answered 200.                    *)
Answer(m, code) ==
    /\ code = 101 => /\ Op[m.call].to # Server
                     /\ Cardinality(drawn) < MaxMuids
    /\ atServer' = atServer \ {m}
    /\ accepted' = [accepted EXCEPT ![m.call] = IF code = 200 THEN @ + 1 ELSE @]
    /\ Receive([NoPacket EXCEPT !.num = m.muid, !.code = code])
    /\ UNCHANGED <<asked, responded>>

(* A peer sends a request. *)
Ask(u) == /\ asked[u] < MaxAsks /\ Joins(u)
          /\ asked' = [asked EXCEPT ![u] = @ + 1]
          /\ Receive([NoPacket EXCEPT !.kind = "request", !.from = u,
                                      !.num = asked[u] + 1])
          /\ UNCHANGED <<atServer, accepted, responded>>

(* A peer responds to a request: request(RESPONSE) takes the cmuid from the *)
(* peer's own last_c_muids, so the peer has sent a request, and it is 0.    *)
Respond(c) ==
    /\ Op[c].kind = "request" /\ accepted[c] > 0 /\ c \notin responded
    /\ asked[Op[c].to] > 0
    /\ responded' = responded \cup {c}
    /\ Receive([NoPacket EXCEPT !.kind = "response", !.from = Op[c].to,
                                !.ref = c])
    /\ UNCHANGED <<atServer, asked, accepted>>

(* async_create(loop, on_message, &args) *)
CreateTask == /\ RunnerGoes("create", "poll")
              /\ tasks' = Append(tasks, OnMessage)
              /\ UNCHANGED <<wk, queues, ids, app, maps, users, waits, env, got,
                             stored>>

(* POLLOUT: peek a block, write it and pop it; other blocks remain. *)
Write == /\ RunnerGoes("poll", "poll")
         /\ Len(writeq) > 1
         /\ atServer' = atServer \cup {Head(writeq)}
         /\ writeq' = Tail(writeq)
         /\ UNCHANGED <<tasks, wk, readq, ids, app, maps, users, waits, asked,
                        accepted, responded, got, stored>>

(* The block written is the last one: pop_block unlocks the queue ... *)
WriteLast == /\ RunnerGoes("poll", "free")
             /\ Len(writeq) = 1
             /\ atServer' = atServer \cup {Head(writeq)}
             /\ UNCHANGED <<tasks, wk, queues, ids, app, maps, users, waits,
                            asked, accepted, responded, got, stored>>

(* ... and frees it, with what was pushed in between. *)
FreeWritten == /\ RunnerGoes("free", "poll")
               /\ writeq' = <<>>
               /\ UNCHANGED <<tasks, wk, readq, ids, app, maps, users, waits,
                              env, got, stored>>

-----------------------------------------------------------------------------
(* The workers.  A worker takes the oldest task. *)

Goes(w, from, rec) == wk[w].pc = from /\ wk' = [wk EXCEPT ![w] = rec]
To(w, pc) == [wk[w] EXCEPT !.pc = pc]

FirstStep(c) == CASE Op[c].kind = "request" -> "enroll"
                  [] Op[c].kind \in {"respond", "signal", "ping"} -> "muid"
                  [] Op[c].kind = "gather" -> "lookup"
                  [] Op[c].kind = "misc" -> "wait"

Take(w) == /\ tasks # <<>>
           /\ Goes(w, "idle",
                IF Head(tasks) = OnMessage THEN To(w, "pop")
                ELSE [Idle EXCEPT !.pc = FirstStep(Head(tasks)),
                                  !.call = Head(tasks), !.then = "glance"])
           /\ tasks' = Tail(tasks)
           /\ UNCHANGED <<runner, queues, ids, app, maps, users, waits, env, got,
                          stored>>

(* The coroutine returns. *)
Return(w, result) ==
    /\ stage' = [stage EXCEPT ![wk[w].call] = "done"]
    /\ got' = [got EXCEPT ![wk[w].call] = result]

(* cnd_broadcast wakes who is asleep on x by now. *)
Broadcast(w, x, rec) ==
    wk' = [v \in Workers |->
             IF v = w THEN rec
             ELSE IF wk[v].pc = "asleep" /\ wk[v].on = x THEN To(v, "wait")
                                                        ELSE wk[v]]

(* waiter_set: is_ready, then cnd_broadcast.  On a waiter that is never     *)
(* freed this is one step, since cnd_wait may return at any time anyway.    *)
SetWaiter(w, x, rec) == ready' = ready \cup {x} /\ Broadcast(w, x, rec)

(* Faulty variant: one return of cnd_wait is taken for is_ready. *)
AwakeUntested(w) == /\ Goes(w, "wait", To(w, wk[w].then))
                    /\ ready' = ready \ {wk[w].on}
                    /\ UNCHANGED <<tasks, runner, queues, ids, app, maps, users,
                                   freed, env, got, stored>>

(* waiter_wait: is_ready is set; reset it and go on. *)
Awake(w) == /\ wk[w].on \in ready
            /\ Goes(w, "wait", To(w, wk[w].then))
            /\ ready' = ready \ {wk[w].on}
            /\ UNCHANGED <<tasks, runner, queues, ids, app, maps, users, freed,
                           env, got, stored>>

(* ... or is not: about to sleep, and then asleep. *)
Doze(w) == /\ wk[w].on \notin ready
           /\ Goes(w, "wait", To(w, "dozing"))
           /\ UNCHANGED <<tasks, runner, queues, ids, app, maps, users, waits,
                          env, got, stored>>

Sleep(w) == /\ Goes(w, "dozing", To(w, "asleep"))
            /\ UNCHANGED <<tasks, runner, queues, ids, app, maps, users, waits,
                           env, got, stored>>

(* cnd_wait may return with nobody having signalled. *)
SpuriousWake(w) == /\ Goes(w, "asleep", To(w, "wait"))
                   /\ UNCHANGED <<tasks, runner, queues, ids, app, maps, users,
                                  waits, env, got, stored>>

(* waiter_wait_for times out: NULL, unless is_ready is set by now.          *)
TimeOut(w) == /\ wk[w].call # NoCall /\ Op[wk[w].call].kind = "misc"
              /\ wk[w].on \notin ready
              /\ Goes(w, "asleep", Idle)
              /\ Return(w, {})
              /\ UNCHANGED <<tasks, runner, queues, ids, last_c_muids, cmuid,
                             maps, users, waits, env, stored>>

(* mtx_lock and mtx_unlock of usr_responses_mtx.  Unlocking is not tied to  *)
(* holding it: a mutex somebody else holds is free afterwards.              *)
Lock(w) == /\ usrLock = NoWorker
           /\ usrLock' = w
           /\ \/ Goes(w, "lock-store", To(w, "store"))
              \/ Goes(w, "lock-check", To(w, "check"))
              \/ Goes(w, "lock-get", To(w, "get"))
           /\ UNCHANGED <<tasks, runner, queues, ids, app, maps, usr_responses,
                          usr_waiters, waits, env, got, stored>>

Unlock == usrLock' = NoWorker

-----------------------------------------------------------------------------
(* __dcn_on_message. *)

PopNone(w) == /\ readq = <<>>
              /\ Goes(w, "pop", Idle)
              /\ UNCHANGED <<tasks, runner, queues, ids, app, maps, users, waits,
                             env, got, stored>>

(* Faulty variant: a response is taken for a status answer. *)
SortResponse(p) == IF p.kind = "request" THEN "lock-store" ELSE "answer"

(* Faulty variant: the waiter is set and the answer not stored. *)
SortUnstored(p) == IF p.kind = "status" THEN "find" ELSE "lock-store"

Sort(p) == IF p.kind = "status" THEN "answer" ELSE "lock-store"

(* Another worker has copied the head of readq and not freed it yet. *)
Copied(w) == \E v \in Workers \ {w} : wk[v].pc = "free"

Pop(w) == /\ Len(readq) > 1
          /\ Goes(w, "pop", [wk[w] EXCEPT !.pc = Sort(Head(readq)),
                                          !.pkt = Head(readq)])
          /\ readq' = Tail(readq)
          /\ twice' = (twice \/ Copied(w))
          /\ UNCHANGED <<tasks, runner, writeq, last_muid, dup, drawn, app, maps,
                         users, waits, env, got, stored>>

(* pop_block of the last block: copied, and the queue unlocked ... *)
PopLast(w) == /\ Len(readq) = 1
              /\ Goes(w, "pop", [wk[w] EXCEPT !.pc = "free",
                                              !.pkt = Head(readq)])
              /\ twice' = (twice \/ Copied(w))
              /\ UNCHANGED <<tasks, runner, queues, last_muid, dup, drawn, app,
                             maps, users, waits, env, got, stored>>

(* ... and then freed, with the blocks pushed in between. *)
FreeRead(w) == /\ Goes(w, "free", To(w, Sort(wk[w].pkt)))
               /\ readq' = <<>>
               /\ UNCHANGED <<tasks, runner, writeq, ids, app, maps, users,
                              waits, env, got, stored>>

(* A status answer: into responses under its muid, ... *)
StoreAnswer(w) ==
    /\ Goes(w, "answer", To(w, "find"))
    /\ responses' = Put(responses, wk[w].pkt.num, wk[w].pkt.code)
    /\ UNCHANGED <<tasks, runner, queues, ids, app, cnd_responses, users, waits,
                   env, got, stored>>

(* ... then look the waiter of the muid up; nobody waits: a warning ... *)
FindWaiter(w) ==
    /\ LET n == wk[w].pkt.num
       IN Goes(w, "find", IF n \in DOMAIN cnd_responses
                          THEN [wk[w] EXCEPT !.pc = "set",
                                             !.on = cnd_responses[n]]
                          ELSE Idle)
    /\ UNCHANGED <<tasks, runner, queues, ids, app, maps, users, waits, env, got,
                   stored>>

(* What *waiter_ptr yields: the entry as it was, or as it is by now.        *)
Targets(w) == {wk[w].on} \cup {cnd_responses[n] :
                                  n \in {wk[w].pkt.num} \cap DOMAIN cnd_responses}

(* ... and set it: is_ready first ... *)
SetAnswered(w) ==
    /\ \E x \in Targets(w) : /\ Goes(w, "set", [wk[w] EXCEPT !.pc = "cast", !.on = x])
                             /\ ready' = ready \cup {x}
    /\ UNCHANGED <<tasks, runner, queues, ids, app, maps, users, freed, env, got,
                   stored>>

(* ... then cnd_broadcast. *)
CastAnswered(w) ==
    /\ wk[w].pc = "cast" /\ wk[w].on \notin freed
    /\ Broadcast(w, wk[w].on, Idle)
    /\ UNCHANGED <<tasks, runner, queues, ids, app, maps, users, waits, env, got,
                   stored>>

(* A call may have seen is_ready and freed the waiter by now: cnd_broadcast *)
(* on a freed condition variable, or on NULL, does nothing to anybody, or   *)
(* never returns, or ends the program, which the other steps outlive here.  *)
CastFreed(w) ==
    /\ wk[w].on \in freed
    /\ \E rec \in {Idle, To(w, "lost")} : Goes(w, "cast", rec)
    /\ UNCHANGED <<tasks, runner, queues, ids, app, maps, users, waits, env, got,
                   stored>>

(* What a peer's packet adds to its usr_resp. *)
Added(e, p) == IF p.kind = "response"
               THEN [e EXCEPT !.responses = Put(@, p.num, p.ref)]
               ELSE [e EXCEPT !.requests = Append(@, p.num)]

StoreIn(w, e) ==
    /\ usr_responses' = Put(usr_responses, wk[w].pkt.from, Added(e, wk[w].pkt))
    /\ stored' = IF wk[w].pkt.kind = "request"
                 THEN stored \cup {wk[w].pkt} ELSE stored
    /\ Unlock
    /\ UNCHANGED <<tasks, runner, queues, ids, app, maps, usr_waiters, waits,
                   env, got>>

(* A request or response of a known peer. *)
StoreKnown(w) ==
    /\ wk[w].pkt.from \in DOMAIN usr_responses
    /\ Goes(w, "store", To(w, "wake"))
    /\ StoreIn(w, usr_responses[wk[w].pkt.from])

(* The peer has no usr_resp yet: one is made ... *)
MakeUser(w) == /\ wk[w].pkt.from \notin DOMAIN usr_responses
               /\ Goes(w, "store", To(w, "insert"))
               /\ UNCHANGED <<tasks, runner, queues, ids, app, maps, users,
                              waits, env, got, stored>>

(* ... and map_set puts it into usr_responses. *)
StoreNew(w) == /\ Goes(w, "insert", To(w, "wake"))
               /\ StoreIn(w, Empty)

(* After a request, session->req_waiter is set as well. *)
AfterWake(w) == IF wk[w].pkt.kind = "request" THEN To(w, "wake-any") ELSE Idle

(* map_at of the peer in usr_waiters: nobody has asked for its waiters, ... *)
WakeNobody(w) ==
    /\ Goes(w, "wake", AfterWake(w))
    /\ usr_waiters[wk[w].pkt.from] = 0
    /\ UNCHANGED <<tasks, runner, queues, ids, app, maps, users, waits, env, got,
                   stored>>

(* ... or one of them is to be set, ... *)
FindUser(w) ==
    LET u == wk[w].pkt.from IN
    /\ Goes(w, "wake", [wk[w] EXCEPT !.pc = "wake-user",
              !.on = IF wk[w].pkt.kind = "request" THEN ReqWaiter(u)
                                                   ELSE RespWaiter(u)])
    /\ usr_waiters[u] > 0
    /\ UNCHANGED <<tasks, runner, queues, ids, app, maps, users, waits, env, got,
                   stored>>

(* ... by now perhaps of a pair that AddWaiters has replaced. *)
WakeUser(w) ==
    /\ wk[w].pc = "wake-user"
    /\ SetWaiter(w, wk[w].on, AfterWake(w))
    /\ UNCHANGED <<tasks, runner, queues, ids, app, maps, users, freed, env, got,
                   stored>>

WakeAny(w) == /\ wk[w].pc = "wake-any"
              /\ SetWaiter(w, AnyWaiter, Idle)
              /\ UNCHANGED <<tasks, runner, queues, ids, app, maps, users, freed,
                             env, got, stored>>

-----------------------------------------------------------------------------
(* __async_req and __async_ping. *)

Unchanged(w) == UNCHANGED <<tasks, runner, queues, app, env, got, stored>>

Peer(w) == Op[wk[w].call].to

(* map_in: does usr_waiters have waiters for the addressee?  Another call   *)
(* may add them before this one does.                                       *)
Enroll(w) == /\ Goes(w, "enroll",
                     To(w, IF usr_waiters[Peer(w)] > 0 THEN "muid" ELSE "add"))
             /\ Unchanged(w) /\ UNCHANGED <<ids, maps, users, waits>>

(* map_set of a fresh pair of waiters. *)
AddWaiters(w) ==
    /\ Goes(w, "add", To(w, "muid"))
    /\ usr_waiters' = [usr_waiters EXCEPT ![Peer(w)] = @ + 1]
    /\ Unchanged(w)
    /\ UNCHANGED <<ids, maps, usr_responses, usrLock, waits>>

(* dcn_request: packet->muid = session->last_muid; ... *)
DrawMuid(w) == /\ Goes(w, "muid", [wk[w] EXCEPT !.pc = "push",
                                               !.muid = last_muid])
               /\ dup' = (dup \/ last_muid \in drawn)
               /\ drawn' = drawn \cup {last_muid}
               /\ Unchanged(w) /\ UNCHANGED <<last_muid, twice, maps, users, waits>>

(* ... push_block(&session->writeq, &block); ... *)
PushOut(w) == /\ Goes(w, "push", To(w, "read"))
              /\ writeq' = Append(writeq, [muid |-> wk[w].muid,
                                           call |-> wk[w].call])
              /\ UNCHANGED <<tasks, runner, readq, ids, app, maps, users, waits,
                             env, got, stored>>

(* ... session->last_muid++, which is not atomic: it is read ...            *)
ReadMuid(w) == /\ Goes(w, "read", [wk[w] EXCEPT !.pc = "increment",
                                                !.seen = last_muid])
               /\ Unchanged(w) /\ UNCHANGED <<ids, maps, users, waits>>

(* ... and written; what other workers have written in between is lost; ... *)
Increment(w) == /\ Goes(w, "increment", To(w, "register"))
                /\ last_muid' = wk[w].seen + 1
                /\ Unchanged(w)
                /\ UNCHANGED <<dup, drawn, twice, maps, users, waits>>

(* ... and only then map_set(&session->cnd_responses, &packet->muid, ...).  *)
Register(w) ==
    /\ LET x == Waiter(wk[w].call, wk[w].muid)
       IN /\ Goes(w, "register", [wk[w] EXCEPT !.pc = "wait", !.on = x,
                                               !.then = "free-waiter"])
          /\ cnd_responses' = Put(cnd_responses, wk[w].muid, x)
          /\ freed' = freed \ {x}
    /\ Unchanged(w) /\ UNCHANGED <<ids, responses, users, ready>>

(* wait_response has waited: free the waiter, its entry still there ...     *)
FreeWaiter(w) == /\ Goes(w, "free-waiter", To(w, "erase"))
                 /\ freed' = freed \cup {wk[w].on}
                 /\ Unchanged(w) /\ UNCHANGED <<ids, maps, users, ready>>

(* ... and map_erase its entry. *)
EraseWaiter(w) ==
    /\ Goes(w, "erase", To(w, "getresp"))
    /\ cnd_responses' = Without(cnd_responses, wk[w].muid)
    /\ Unchanged(w) /\ UNCHANGED <<ids, responses, users, waits>>

Answered(w) == wk[w].muid \in DOMAIN responses

(* Faulty variant: the request cycle ends with the first answer. *)
AgainNever(w) == FALSE

(* 101 sends a request again; a ping is sent until it is answered 200.      *)
Code(w) == IF Answered(w) THEN responses[wk[w].muid] ELSE 0

Again(w) == IF Op[wk[w].call].kind = "ping" THEN Code(w) # 200
                                            ELSE Code(w) = 101

(* dcn_getresp takes the answer out, if it is there. *)
TakeAnswer(w, pc) ==
    /\ Goes(w, "getresp", To(w, pc))
    /\ responses' = Without(responses, wk[w].muid)
    /\ Unchanged(w) /\ UNCHANGED <<ids, cnd_responses, users, waits>>

Retry(w) == /\ wk[w].pc = "getresp" /\ Again(w)
            /\ TakeAnswer(w, "muid")

(* The cycle of a request is over: wait for the response, if it has one.    *)
Proceed(w) == /\ wk[w].pc = "getresp" /\ ~Again(w)
              /\ TakeAnswer(w, IF Op[wk[w].call].kind = "request"
                               THEN "lock-check" ELSE "return")

ReturnSent(w) == /\ Goes(w, "return", Idle)
                 /\ Return(w, {})
                 /\ UNCHANGED <<tasks, runner, queues, ids, last_c_muids, cmuid,
                                maps, users, waits, env, stored>>

(* usr_responses_mtx is held: any response of the addressee will do.        *)
HasResponse(u) == u \in DOMAIN usr_responses
                  /\ usr_responses[u].responses # <<>>

(* Some response is there: do not wait, keep the mutex ... *)
CheckFound(w) == /\ Goes(w, "check", To(w, "collect"))
                 /\ HasResponse(Peer(w))
                 /\ Unchanged(w) /\ UNCHANGED <<ids, maps, users, waits>>

(* Faulty variant: the mutex is kept while waiting. *)
CheckNoneLocked(w) == /\ Goes(w, "check", To(w, "seek"))
                      /\ ~HasResponse(Peer(w))
                      /\ Unchanged(w) /\ UNCHANGED <<ids, maps, users, waits>>

(* ... or none is: unlock, ... *)
CheckNone(w) == /\ Goes(w, "check", To(w, "seek"))
                /\ ~HasResponse(Peer(w))
                /\ Unlock
                /\ Unchanged(w)
                /\ UNCHANGED <<ids, maps, usr_responses, usr_waiters, waits>>

(* ... look the addressee's waiters up, which Enroll has seen to, and wait  *)
(* for resp_waiter.  AddWaiters of another call may replace the pair.       *)
Seek(w) == /\ Goes(w, "seek", [wk[w] EXCEPT !.pc = "wait",
                                            !.on = RespWaiter(Peer(w)),
                                            !.then = "collect"])
           /\ Unchanged(w) /\ UNCHANGED <<ids, maps, users, waits>>

(* The response with the cmuid of the request.  After waiting the worker    *)
(* does not hold the mutex from here on; it unlocks it all the same.        *)
Matching(w) == Peer(w) \in DOMAIN usr_responses
               /\ cmuid[wk[w].call] \in DOMAIN usr_responses[Peer(w)].responses

(* What is there under the cmuid; no packet at all is NULL. *)
Present(w) == IF Matching(w)
              THEN [NoPacket EXCEPT !.kind = "response", !.from = Peer(w),
                      !.num = cmuid[wk[w].call],
                      !.ref = usr_responses[Peer(w)].responses[cmuid[wk[w].call]]]
              ELSE NoPacket

(* map_at of the addressee, map_at of the cmuid: pack_ptr, or NULL.         *)
Collect(w) ==
    /\ Goes(w, "collect", [wk[w] EXCEPT !.pc = IF Matching(w) THEN "take" ELSE "leave",
                                        !.pkt = Present(w)])
    /\ Unchanged(w) /\ UNCHANGED <<ids, maps, users, waits>>

(* Copy *pack_ptr, which may have been replaced since, free it and map_erase*)
(* it.  A response that another call has taken meanwhile is freed memory:   *)
(* its old content is one outcome, the end of this worker another.          *)
TakeResponse(w) ==
    /\ wk[w].pc = "take"
    /\ IF Matching(w)
       THEN /\ \E p \in {wk[w].pkt, Present(w)} :
                  Goes(w, "take", [wk[w] EXCEPT !.pc = "leave", !.pkt = p])
            /\ usr_responses' = [usr_responses EXCEPT
                   ![Peer(w)].responses = Without(@, cmuid[wk[w].call])]
       ELSE /\ \E pc \in {"leave", "lost"} : Goes(w, "take", To(w, pc))
            /\ UNCHANGED usr_responses
    /\ Unchanged(w) /\ UNCHANGED <<ids, maps, usr_waiters, usrLock, waits>>

Leave(w) ==
    /\ Goes(w, "leave", Idle)
    /\ Return(w, {wk[w].pkt} \ {NoPacket})
    /\ Unlock
    /\ UNCHANGED <<tasks, runner, queues, ids, last_c_muids, cmuid, maps,
                   usr_responses, usr_waiters, waits, env, stored>>

-----------------------------------------------------------------------------
(* __async_grequests. *)

(* A UID nobody has sent a request to has no waiter: NULL at once.          *)
GatherNobody(w) == /\ Goes(w, "lookup", Idle)
                   /\ usr_waiters[Peer(w)] = 0
                   /\ Return(w, {})
                   /\ UNCHANGED <<tasks, runner, queues, ids, last_c_muids,
                                  cmuid, maps, users, waits, env, stored>>

GatherFrom(w) == /\ Goes(w, "lookup", [wk[w] EXCEPT !.pc = "wait",
                                          !.on = ReqWaiter(Peer(w))])
                 /\ usr_waiters[Peer(w)] > 0
                 /\ Unchanged(w) /\ UNCHANGED <<ids, maps, users, waits>>

(* Woken: the peers to look at, all that are known by now in misc mode.     *)
Glance(w) == /\ Goes(w, "glance", [wk[w] EXCEPT !.pc = "lock-get",
                       !.todo = IF Op[wk[w].call].kind = "gather"
                                THEN {Peer(w)} ELSE DOMAIN usr_responses])
             /\ Unchanged(w) /\ UNCHANGED <<ids, maps, users, waits>>

HasRequest(u) == u \in DOMAIN usr_responses
                 /\ usr_responses[u].requests # <<>>

(* usr_responses_mtx is held: the oldest request of a peer, ... *)
GetFrom(w, u) ==
    /\ Goes(w, "get", Idle)
    /\ u \in wk[w].todo /\ HasRequest(u)
    /\ Return(w, {[NoPacket EXCEPT !.kind = "request", !.from = u,
                     !.num = Head(usr_responses[u].requests)]})
    /\ usr_responses' = [usr_responses EXCEPT ![u].requests = Tail(@)]
    /\ Unlock
    /\ UNCHANGED <<tasks, runner, queues, ids, last_c_muids, cmuid, maps,
                   usr_waiters, waits, env, stored>>

(* ... or none: the next peer, or NULL after the last one. *)
GetNone(w, u) ==
    /\ u \in wk[w].todo /\ ~HasRequest(u)
    /\ IF wk[w].todo = {u}
       THEN Goes(w, "get", Idle) /\ Return(w, {})
       ELSE /\ Goes(w, "get", [wk[w] EXCEPT !.pc = "lock-get",
                                            !.todo = @ \ {u}])
            /\ UNCHANGED <<stage, got>>
    /\ Unlock
    /\ UNCHANGED <<tasks, runner, queues, ids, last_c_muids, cmuid, maps,
                   usr_responses, usr_waiters, waits, env, stored>>

-----------------------------------------------------------------------------
AppStep == \E c \in Calls : Request(c) \/ RequestRefused(c) \/ Start(c)

Incoming == \/ \E m \in atServer : \E code \in {101, 200} : Answer(m, code)
            \/ \E u \in Uids : Ask(u)
            \/ \E c \in Calls : Respond(c)

RunnerStep == Incoming \/ CreateTask \/ Write \/ WriteLast \/ FreeWritten

WaitStep(w) == \/ Awake(w) \/ Doze(w) \/ Sleep(w) \/ SpuriousWake(w)
               \/ TimeOut(w) \/ Lock(w)

MessageStep(w) == \/ PopNone(w) \/ Pop(w) \/ PopLast(w) \/ FreeRead(w)
                  \/ StoreAnswer(w) \/ FindWaiter(w) \/ SetAnswered(w)
                  \/ CastAnswered(w) \/ CastFreed(w) \/ StoreKnown(w)
                  \/ MakeUser(w) \/ StoreNew(w) \/ WakeNobody(w)
                  \/ FindUser(w) \/ WakeUser(w) \/ WakeAny(w)

RequestStep(w) == \/ Enroll(w) \/ AddWaiters(w) \/ DrawMuid(w) \/ PushOut(w)
                  \/ ReadMuid(w) \/ Increment(w) \/ Register(w) \/ FreeWaiter(w)
                  \/ EraseWaiter(w) \/ Retry(w) \/ Proceed(w) \/ ReturnSent(w)
                  \/ CheckFound(w) \/ CheckNone(w) \/ Seek(w) \/ Collect(w)
                  \/ TakeResponse(w) \/ Leave(w)

GatherStep(w) == \/ GatherNobody(w) \/ GatherFrom(w) \/ Glance(w)
                 \/ \E u \in Uids : GetFrom(w, u) \/ GetNone(w, u)

WorkerStep(w) == \/ Take(w) \/ WaitStep(w) \/ MessageStep(w) \/ RequestStep(w)
                 \/ GatherStep(w)

Next == AppStep \/ RunnerStep \/ \E w \in Workers : WorkerStep(w)

Spec == Init /\ [][Next]_vars
-----------------------------------------------------------------------------
Requests == {p \in Packet : p.kind = "request" /\ p.from \in Uids
                            /\ p.num \in 1..MaxAsks /\ p.code = 0
                            /\ p.ref = NoCall}

WorkerPC == {"idle", "enroll", "muid", "lookup", "wait", "dozing", "asleep",
             "lock-store", "lock-check", "lock-get", "store", "check", "get",
             "pop", "free", "answer", "find", "set", "cast", "insert", "wake",
             "wake-user", "wake-any", "add", "push", "read", "increment",
             "register", "free-waiter", "erase", "getresp", "return", "seek",
             "collect", "take", "leave", "glance", "lost"}

TypeOK == /\ \A i \in DOMAIN tasks : tasks[i] \in Calls \cup {OnMessage}
          /\ \A w \in Workers :
                /\ wk[w].pc \in WorkerPC /\ wk[w].call \in Calls \cup {NoCall}
                /\ wk[w].pkt \in Packet /\ wk[w].todo \subseteq Uids
          /\ runner \in {"poll", "create", "free"}
          /\ \A i \in DOMAIN readq : readq[i] \in Packet
          /\ \A i \in DOMAIN writeq : writeq[i] \in [muid : Nat, call : Calls]
          /\ last_muid \in Nat /\ last_c_muids \subseteq Uids
          /\ cmuid \in [Calls -> {0, 1}]
          /\ \A n \in DOMAIN responses : responses[n] \in {101, 200}
          /\ \A n \in DOMAIN cnd_responses : cnd_responses[n].n = n
          /\ DOMAIN usr_responses \subseteq Uids
          /\ usr_waiters \in [Uids -> Nat]
          /\ usrLock \in Workers \cup {NoWorker}
          /\ stage \in [Calls -> {"new", "running", "done"}]
          /\ \A c \in Calls : got[c] \subseteq Packet
          /\ stored \subseteq Requests

(* A call that has been woken finds its status answer: the handler stores   *)
(* the answer before it looks the waiter up, and the waiter is of that muid *)
(* alone.  dcn_getresp leaves the packet uninitialised otherwise.  It takes *)
(* two calls that were given the same muid to break this.                   *)
AnswerFound == \A w \in Workers : wk[w].pc = "getresp" /\ ~dup => Answered(w)

(* However often a packet is sent again, and although readq may hand an     *)
(* answer out twice: when the cycle of a call is over the server has        *)
(* accepted its packet, and never more than once, unless two calls were     *)
(* given the same muid.                                                     *)
SentOnce ==
    ~dup => /\ \A c \in Calls : accepted[c] <= 1
            /\ \A w \in Workers : wk[w].pc \in {"lock-check", "return"}
                                    => accepted[wk[w].call] = 1

(* *waiter_ptr, read after cnd_responses was unlocked, is not a waiter that *)
(* its call has freed, although the entry outlives the waiter by one step:  *)
(* as long as no two calls share a muid and readq hands out no answer twice *)
(* the handler that is about to set it is what its call still waits for.    *)
WaiterAlive == ~dup /\ ~twice =>
                  \A w \in Workers : wk[w].pc = "set" => Targets(w) \cap freed = {}

(* usr_responses_mtx is never left locked by a worker that has gone on: not *)
(* on the early returns, and not by those that unlock it without holding it *)
(* (one that has come to its end in freed memory has not gone on).          *)
LockReleased ==
    usrLock # NoWorker =>
        wk[usrLock].pc \in {"store", "insert", "check", "collect", "take", "leave",
                            "get", "lost"}

Kept(p) == \/ HasRequest(p.from)
              /\ \E i \in DOMAIN usr_responses[p.from].requests :
                    usr_responses[p.from].requests[i] = p.num
           \/ \E c \in Calls : p \in got[c]

(* "freeing because its data was copied to req/resp queue" (client.c:100):  *)
(* a request that has been stored stays in the queue of its peer until a    *)
(* gather call returns it.                                                  *)
RequestsKept == \A p \in stored : Kept(p)

(* "send smth and get response" (dnet/client.h:200): a request call does    *)
(* not return NULL when the response to it has been stored.                 *)
ResponseReturned ==
    \A w \in Workers :
        wk[w].pc = "collect" /\ Peer(w) \in DOMAIN usr_responses =>
            LET r == usr_responses[Peer(w)].responses
            IN (\E n \in DOMAIN r : r[n] = wk[w].call) => Matching(w)
=============================================================================
