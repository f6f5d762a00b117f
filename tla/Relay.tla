------------------------------- MODULE Relay -------------------------------
(***************************************************************************)
(* The relay server: the epoll thread of run_server (netw/epldplx-c.c) and *)
(* the pool workers that run dcn_async_worker (dnet/server.c).             *)
(*                                                                         *)
(* The epoll thread reads packets, pushes each to the read queue of its    *)
(* connection and creates a task; a worker pops a packet, registers the    *)
(* sender, answers it and forwards the packet to the write queues of other *)
(* connections; the epoll thread writes the blocks out again.  They share  *)
(* the queues, the epoll mode of each connection and dcn_clients.          *)
(*                                                                         *)
(* Tasks start in the order they are created, on any free worker, as       *)
(* ThreadPool shows.  A step is one critical section (a queue operation, a *)
(* map operation) or one epoll_ctl.  The exception is pop_block of a       *)
(* queue's last block, which copies the block, unlocks the queue and only  *)
(* then frees it with all that was pushed meanwhile: two steps.  That      *)
(* queue_free also destroys the queue's mutex; the later critical sections *)
(* are kept atomic here.  dcn_sessions is written and never read, so it is *)
(* left out.  A client sends from one UID only (session->cli_uid).         *)
(***************************************************************************)
EXTENDS Naturals, Sequences, FiniteSets

CONSTANTS
    Conns,          \* connections: a client that reconnects is another one
    Uids,           \* the user ids
    UidOf,          \* the user id each connection sends from
    Server,         \* the server's own user id, 0
    Workers,        \* the threads of the event loop
    Sendable,       \* the [to, kind] a client may send
    MaxSent,        \* bound: packets sent in a behaviour
    Leavers,        \* bound: the connections whose peer may close
    NoConn          \* no connection

Kinds == {"ping", "message", "broadcast"}

ASSUME UidAssumption == UidOf \in [Conns -> Uids] /\ Server \notin Uids
ASSUME NoConnAssumption == NoConn \notin Conns
ASSUME SendableAssumption ==
    Sendable \subseteq [to : Uids \cup {Server}, kind : Kinds]
ASSUME BoundsAssumption == MaxSent \in Nat /\ Leavers \subseteq Conns

VARIABLES
    conn,       \* "none", "open" or "closed" (the struct client is freed)
    eof,        \* the peer of the connection has closed its end
    mode,       \* epoll interest of a connection: "in" or "out"
    inbox,      \* packets in the socket of a connection, not read yet
    rq,         \* cli->read_q
    wq,         \* cli->write_q
    clients,    \* dcn_clients, as the sequence of its entries
    tasks,      \* the connections of the tasks waiting in the event loop
    ep,         \* the epoll thread: where it is, with what
    wk,         \* the workers: where each is, with what
    sent,       \* history: every packet sent
    handled,    \* history: the packets a worker has answered
    quiet       \* history: connections that ended with no work pending

history == <<sent, handled, quiet>>
peer == <<conn, eof, inbox>>
vars == <<conn, eof, mode, inbox, rq, wq, clients, tasks, ep, wk,
          sent, handled, quiet>>

Packet == [muid : 1..MaxSent, src : Conns, to : Uids \cup {Server}, kind : Kinds]
Status == [what : {"status"}, code : {101, 102, 200}, muid : 1..MaxSent]
Forward == [what : {"forward"}, from : Uids, to : Uids, muid : 1..MaxSent]
Entry == [uid : Uids, cli : Conns]

Open(c) == conn[c] = "open"

-----------------------------------------------------------------------------
(* dcn_clients. *)

Entries == {clients[i] : i \in DOMAIN clients}

Registered(u) == \E i \in DOMAIN clients : clients[i].uid = u
IndexOf(u) == CHOOSE i \in DOMAIN clients : clients[i].uid = u
EntryOf(u) == clients[IndexOf(u)]

(* map_set: overwrite the value of the key, or append a pair. *)
MapSet(u, c) ==
    clients' = IF Registered(u)
               THEN [clients EXCEPT ![IndexOf(u)].cli = c]
               ELSE Append(clients, [uid |-> u, cli |-> c])

(* map_erase: the pairs behind the key move up. *)
MapErase(u) ==
    clients' = IF Registered(u)
               THEN [i \in 1..(Len(clients) - 1) |->
                        IF i < IndexOf(u) THEN clients[i] ELSE clients[i + 1]]
               ELSE clients

-----------------------------------------------------------------------------
NoPacket == [muid |-> 0, src |-> NoConn, to |-> Server, kind |-> "ping"]
Waiting == [pc |-> "wait", c |-> NoConn, batch |-> <<>>, uid |-> Server]
NoEntry == [uid |-> Server, cli |-> NoConn]
Idle == [pc |-> "idle", cli |-> NoConn, pkt |-> NoPacket, tgt |-> NoEntry,
         i |-> 0, len |-> 0]

Init == /\ conn = [c \in Conns |-> "none"]
        /\ eof = [c \in Conns |-> FALSE]
        /\ mode = [c \in Conns |-> "in"]
        /\ inbox = [c \in Conns |-> <<>>]
        /\ rq = [c \in Conns |-> <<>>]
        /\ wq = [c \in Conns |-> <<>>]
        /\ clients = <<>>
        /\ tasks = <<>>
        /\ ep = Waiting
        /\ wk = [w \in Workers |-> Idle]
        /\ sent = {}
        /\ handled = {}
        /\ quiet = {}

-----------------------------------------------------------------------------
(* The peers. *)

Send(c, m) == /\ Open(c) /\ ~eof[c]
              /\ Cardinality(sent) < MaxSent
              /\ LET p == [muid |-> Cardinality(sent) + 1, src |-> c,
                           to |-> m.to, kind |-> m.kind]
                 IN /\ inbox' = [inbox EXCEPT ![c] = Append(@, p)]
                    /\ sent' = sent \cup {p}
              /\ UNCHANGED <<conn, eof, mode, rq, wq, clients, tasks, ep, wk,
                             handled, quiet>>

PeerClose(c) == /\ c \in Leavers
                /\ Open(c) /\ ~eof[c]
                /\ eof' = [eof EXCEPT ![c] = TRUE]
                /\ UNCHANGED <<conn, mode, inbox, rq, wq, clients, tasks, ep, wk>>
                /\ UNCHANGED history

-----------------------------------------------------------------------------
(* The epoll thread: run_server.  "wait" is epoll_wait. *)

EpollGoes(from, rec) == ep.pc = from /\ ep' = rec

Accept(c) == /\ EpollGoes("wait", ep)
             /\ conn[c] = "none"
             /\ conn' = [conn EXCEPT ![c] = "open"]
             /\ UNCHANGED <<eof, mode, inbox, rq, wq, clients, tasks, wk>>
             /\ UNCHANGED history

(* EPOLLIN with data: nbep_read takes all of it, cut into packets.          *)
Read(c) == /\ EpollGoes("wait", [Waiting EXCEPT !.pc = "push", !.c = c,
                                                !.batch = inbox[c]])
           /\ Open(c) /\ ~eof[c] /\ mode[c] = "in" /\ inbox[c] # <<>>
           /\ inbox' = [inbox EXCEPT ![c] = <<>>]
           /\ UNCHANGED <<conn, eof, mode, rq, wq, clients, tasks, wk>>
           /\ UNCHANGED history

(* push_block(&cli->read_q, &pkt) *)
Enqueue == /\ EpollGoes("push", [ep EXCEPT !.pc = "create",
                                           !.batch = Tail(@)])
           /\ rq' = [rq EXCEPT ![ep.c] = Append(@, Head(ep.batch))]
           /\ UNCHANGED <<peer, mode, wq, clients, tasks, wk, history>>

(* Faulty variant: one task for all the packets of a read. *)
CreateOnce == /\ EpollGoes("create", IF ep.batch = <<>>
                                     THEN Waiting ELSE [ep EXCEPT !.pc = "push"])
              /\ tasks' = IF ep.batch = <<>> THEN Append(tasks, ep.c) ELSE tasks
              /\ UNCHANGED <<peer, mode, rq, wq, clients, wk, history>>

(* async_create(loop, async_worker, task), then the next packet.            *)
Create == /\ EpollGoes("create", IF ep.batch = <<>>
                                 THEN Waiting ELSE [ep EXCEPT !.pc = "push"])
          /\ tasks' = Append(tasks, ep.c)
          /\ UNCHANGED <<peer, mode, rq, wq, clients, wk, history>>

(* EPOLLOUT: peek a block, write all of it and pop it; other blocks remain. *)
Write(c) == /\ EpollGoes("wait", ep)
            /\ Open(c) /\ mode[c] = "out" /\ Len(wq[c]) > 1
            /\ wq' = [wq EXCEPT ![c] = Tail(@)]
            /\ UNCHANGED <<peer, mode, rq, clients, tasks, wk, history>>

(* The block written is the last one: pop_block copies it and unlocks.      *)
WriteLast(c) == /\ EpollGoes("wait", [Waiting EXCEPT !.pc = "free", !.c = c])
                /\ Open(c) /\ mode[c] = "out" /\ Len(wq[c]) = 1
                /\ UNCHANGED <<peer, mode, rq, wq, clients, tasks, wk, history>>

(* pop_block frees the queue and returns 2. *)
FreeWritten == /\ EpollGoes("free", [ep EXCEPT !.pc = "mode"])
               /\ wq' = [wq EXCEPT ![ep.c] = <<>>]
               /\ UNCHANGED <<peer, mode, rq, clients, tasks, wk, history>>

(* change_climod of cli to 0, because 2 means no blocks left.               *)
ModeIn == /\ EpollGoes("mode", Waiting)
          /\ mode' = [mode EXCEPT ![ep.c] = "in"]
          /\ UNCHANGED <<peer, rq, wq, clients, tasks, wk, history>>

(* A worker pops a packet of c, or holds one whose sender it may register.  *)
Serving(c) == \E w \in Workers : wk[w].pc # "idle" /\ wk[w].cli = c

(* EPOLLHUP, EPOLLERR or end of file: what was read with the end of file is *)
(* dropped.  custom_disconnector looks for a key whose value is cli.        *)
Hangup(c) == /\ Open(c) /\ eof[c]
             /\ EpollGoes("wait",
                  IF \E i \in DOMAIN clients : clients[i].cli = c
                  THEN [Waiting EXCEPT !.pc = "erase", !.c = c,
                          !.uid = clients[CHOOSE i \in DOMAIN clients :
                                            clients[i].cli = c].uid]
                  ELSE [Waiting EXCEPT !.pc = "close", !.c = c])
             /\ quiet' = IF rq[c] = <<>> /\ ~Serving(c)
                         THEN quiet \cup {c} ELSE quiet
             /\ UNCHANGED <<peer, mode, rq, wq, clients, tasks, wk,
                            sent, handled>>

(* Faulty variant: the key found is not erased. *)
UnregisterNothing ==
    /\ EpollGoes("erase", [ep EXCEPT !.pc = "close", !.uid = Server])
    /\ UNCHANGED <<peer, mode, rq, wq, clients, tasks, wk, history>>

(* map_erase of the key found. *)
Unregister == /\ EpollGoes("erase", [ep EXCEPT !.pc = "close", !.uid = Server])
              /\ MapErase(ep.uid)
              /\ UNCHANGED <<peer, mode, rq, wq, tasks, wk, history>>

(* close_client frees the queues and the client; its tasks remain.          *)
Close == /\ EpollGoes("close", Waiting)
         /\ conn' = [conn EXCEPT ![ep.c] = "closed"]
         /\ rq' = [rq EXCEPT ![ep.c] = <<>>]
         /\ wq' = [wq EXCEPT ![ep.c] = <<>>]
         /\ inbox' = [inbox EXCEPT ![ep.c] = <<>>]
         /\ mode' = [mode EXCEPT ![ep.c] = "in"]
         /\ UNCHANGED <<eof, clients, tasks, wk, history>>

-----------------------------------------------------------------------------
(* The workers: dcn_async_worker.  A worker whose client has been freed     *)
(* still uses the freed memory; the outcome modelled is that the freed      *)
(* queues read as empty and a push to them reaches nobody.                  *)

WorkerGoes(w, from, rec) == wk[w].pc = from /\ wk' = [wk EXCEPT ![w] = rec]

PushOut(c, m) ==
    wq' = IF Open(c) THEN [wq EXCEPT ![c] = Append(@, m)] ELSE wq

(* change_climod(epfd, cli, 1); fails when the descriptor is closed.        *)
SetOut(c) == mode' = IF Open(c) THEN [mode EXCEPT ![c] = "out"] ELSE mode

Start(w) == /\ tasks # <<>>
            /\ WorkerGoes(w, "idle", [Idle EXCEPT !.pc = "pop",
                                                  !.cli = Head(tasks)])
            /\ tasks' = Tail(tasks)
            /\ UNCHANGED <<peer, mode, rq, wq, clients, ep, history>>

(* pop_block returns 1: nothing to read. *)
PopNone(w) == /\ WorkerGoes(w, "pop", Idle)
              /\ rq[wk[w].cli] = <<>>
              /\ UNCHANGED <<peer, mode, rq, wq, clients, tasks, ep, history>>

(* pop_block of one block of several. *)
Pop(w) == LET c == wk[w].cli IN
          /\ wk[w].pc = "pop" /\ Len(rq[c]) > 1
          /\ WorkerGoes(w, "pop", [wk[w] EXCEPT !.pc = "register",
                                                !.pkt = Head(rq[c])])
          /\ rq' = [rq EXCEPT ![c] = Tail(@)]
          /\ UNCHANGED <<peer, mode, wq, clients, tasks, ep, history>>

(* pop_block of the last block: copied, and the queue unlocked.             *)
PopLast(w) == LET c == wk[w].cli IN
              /\ wk[w].pc = "pop" /\ Len(rq[c]) = 1
              /\ WorkerGoes(w, "pop", [wk[w] EXCEPT !.pc = "free",
                                                    !.pkt = Head(rq[c])])
              /\ UNCHANGED <<peer, mode, rq, wq, clients, tasks, ep, history>>

(* ... and then freed, with the blocks pushed in between.                   *)
FreeRead(w) == /\ WorkerGoes(w, "free", [wk[w] EXCEPT !.pc = "register"])
               /\ rq' = [rq EXCEPT ![wk[w].cli] = <<>>]
               /\ UNCHANGED <<peer, mode, wq, clients, tasks, ep, history>>

SenderUid(w) == UidOf[wk[w].pkt.src]

(* map_at of the sender's UID: shadow points into the map.                  *)
LookUpSender(w) ==
    /\ WorkerGoes(w, "register",
                  IF Registered(SenderUid(w))
                  THEN [wk[w] EXCEPT !.pc = "compare", !.tgt = EntryOf(SenderUid(w))]
                  ELSE [wk[w] EXCEPT !.pc = "save"])
    /\ UNCHANGED <<peer, mode, rq, wq, clients, tasks, ep, history>>

(* What a pointer into dcn_clients yields after the map was unlocked: the   *)
(* value the entry had, if the arrays were replaced since, or has now.      *)
Pointee(t) == {t} \cup {e \in Entries : e.uid = t.uid}

(* The address of a client is compared with this worker's own.  Two open    *)
(* connections never share one; of a freed client anything may be read.     *)
Differs(c, d) == IF c = d THEN {FALSE}
                 ELSE IF Open(c) /\ Open(d) THEN {TRUE} ELSE BOOLEAN

(* *shadow, read and compared without the map's mutex.                      *)
Compare(w) ==
    /\ wk[w].pc = "compare"
    /\ \E t \in Pointee(wk[w].tgt) : \E different \in Differs(t.cli, wk[w].cli) :
          WorkerGoes(w, "compare",
                     IF different THEN [wk[w] EXCEPT !.pc = "save"]
                     ELSE [wk[w] EXCEPT !.pc = "answer", !.tgt = NoEntry])
    /\ UNCHANGED <<peer, mode, rq, wq, clients, tasks, ep, history>>

(* Faulty variant: what was not in the map is appended without looking again. *)
SaveAppends(w) ==
    /\ WorkerGoes(w, "save", [wk[w] EXCEPT !.pc = "answer", !.tgt = NoEntry])
    /\ IF wk[w].tgt = NoEntry
       THEN clients' = Append(clients, [uid |-> SenderUid(w), cli |-> wk[w].cli])
       ELSE MapSet(SenderUid(w), wk[w].cli)
    /\ UNCHANGED <<peer, mode, rq, wq, tasks, ep, history>>

(* map_set: the sender's UID maps to this connection, also where it mapped  *)
(* to another one.                                                          *)
Save(w) ==
    /\ WorkerGoes(w, "save", [wk[w] EXCEPT !.pc = "answer", !.tgt = NoEntry])
    /\ MapSet(SenderUid(w), wk[w].cli)
    /\ UNCHANGED <<peer, mode, rq, wq, tasks, ep, history>>

(* A status answer to the sender; the packet counts as handled.             *)
AnswerWith(w, from, code, rec) ==
    /\ WorkerGoes(w, from, rec)
    /\ PushOut(wk[w].cli, [what |-> "status", code |-> code,
                           muid |-> wk[w].pkt.muid])
    /\ handled' = handled \cup {wk[w].pkt}
    /\ UNCHANGED <<peer, mode, rq, clients, tasks, ep, sent, quiet>>

ToSelf(p) == p.src # NoConn /\ p.to = UidOf[p.src]

(* from_uid == to_uid: 102, and return without change_climod.  That the     *)
(* answer's trav and type fields are not initialised on this path is below  *)
(* the level of detail of a status answer.                                  *)
Decline(w) == /\ ToSelf(wk[w].pkt)
              /\ AnswerWith(w, "answer", 102, Idle)

(* A ping or a broadcast to the server itself. *)
AnswerPing(w) == /\ wk[w].pkt.to = Server /\ wk[w].pkt.kind = "ping"
                 /\ AnswerWith(w, "answer", 200, [wk[w] EXCEPT !.pc = "flush"])

AnswerBroadcast(w) == /\ wk[w].pkt.to = Server /\ wk[w].pkt.kind = "broadcast"
                      /\ AnswerWith(w, "answer", 200, [wk[w] EXCEPT !.pc = "len"])

(* Everything else needs an addressee. *)
Addressed(p) == ~ToSelf(p) /\ (p.to = Server => p.kind = "message")

(* map_at of to_uid: to_cli_ptr points into the map, and is read by Deliver.*)
LookUpAddressee(w) ==
    LET to == wk[w].pkt.to IN
    /\ Addressed(wk[w].pkt)
    /\ WorkerGoes(w, "answer",
                  IF Registered(to)
                  THEN [wk[w] EXCEPT !.pc = "found", !.tgt = EntryOf(to)]
                  ELSE [wk[w] EXCEPT !.pc = "nouser"])
    /\ UNCHANGED <<peer, mode, rq, wq, clients, tasks, ep, history>>

(* 101: dcn_clients had none. *)
AnswerNoUser(w) ==
    AnswerWith(w, "nouser", 101, [wk[w] EXCEPT !.pc = "flush"])

(* 200, and then the packet itself goes out. *)
AnswerFound(w) ==
    AnswerWith(w, "found", 200,
               IF wk[w].pkt.kind = "broadcast"
               THEN [wk[w] EXCEPT !.pc = "len", !.tgt = NoEntry]
               ELSE [wk[w] EXCEPT !.pc = "deliver"])

Copy(w, u) == [what |-> "forward", from |-> SenderUid(w), to |-> u,
               muid |-> wk[w].pkt.muid]

(* *to_cli_ptr, after the map was unlocked. *)
Deliver(w) ==
    /\ WorkerGoes(w, "deliver", [wk[w] EXCEPT !.pc = "flush", !.tgt = NoEntry])
    /\ \E t \in Pointee(wk[w].tgt) : PushOut(t.cli, Copy(w, wk[w].pkt.to))
    /\ UNCHANGED <<peer, mode, rq, clients, tasks, ep, history>>

(* The broadcast loop: the number of entries is read once ... *)
BroadcastLen(w) ==
    /\ WorkerGoes(w, "len", [wk[w] EXCEPT !.pc = "loop", !.i = 1,
                                          !.len = Len(clients)])
    /\ UNCHANGED <<peer, mode, rq, wq, clients, tasks, ep, history>>

InLoop(w) == wk[w].pc = "loop" /\ wk[w].i <= wk[w].len

(* Faulty variant: the sender is not left out of its own broadcast. *)
EligibleAll(w) == wk[w].i \in DOMAIN clients

(* The i-th entry, if there is one, unless it is the sender's.              *)
Eligible(w) == /\ wk[w].i \in DOMAIN clients
               /\ clients[wk[w].i].uid # SenderUid(w)
               /\ clients[wk[w].i].cli # wk[w].cli

(* ... each entry is read by its index at that time; the entry may be gone, *)
BroadcastSkip(w) ==
    /\ InLoop(w) /\ ~Eligible(w)
    /\ WorkerGoes(w, "loop", [wk[w] EXCEPT !.i = @ + 1])
    /\ UNCHANGED <<peer, mode, rq, wq, clients, tasks, ep, history>>

(* ... or its connection is switched to EPOLLOUT first ... *)
BroadcastMode(w) ==
    /\ InLoop(w) /\ Eligible(w)
    /\ WorkerGoes(w, "loop", [wk[w] EXCEPT !.pc = "copy",
                                           !.tgt = clients[wk[w].i]])
    /\ SetOut(clients[wk[w].i].cli)
    /\ UNCHANGED <<peer, rq, wq, clients, tasks, ep, history>>

(* Faulty variant: the copy keeps the address of the broadcast. *)
BroadcastCopyUnaddressed(w) ==
    /\ WorkerGoes(w, "copy", [wk[w] EXCEPT !.pc = "loop", !.tgt = NoEntry,
                                           !.i = @ + 1])
    /\ PushOut(wk[w].tgt.cli, Copy(w, wk[w].pkt.to))
    /\ UNCHANGED <<peer, mode, rq, clients, tasks, ep, history>>

(* ... and gets its copy. *)
BroadcastCopy(w) ==
    /\ WorkerGoes(w, "copy", [wk[w] EXCEPT !.pc = "loop", !.tgt = NoEntry,
                                           !.i = @ + 1])
    /\ PushOut(wk[w].tgt.cli, Copy(w, wk[w].tgt.uid))
    /\ UNCHANGED <<peer, mode, rq, clients, tasks, ep, history>>

BroadcastEnd(w) ==
    /\ wk[w].i > wk[w].len
    /\ WorkerGoes(w, "loop", [wk[w] EXCEPT !.pc = "flush"])
    /\ UNCHANGED <<peer, mode, rq, wq, clients, tasks, ep, history>>

(* change_climod(serv->epfd, cli, 1): the sender, never the addressee.      *)
Flush(w) == /\ WorkerGoes(w, "flush", Idle)
            /\ SetOut(wk[w].cli)
            /\ UNCHANGED <<peer, rq, wq, clients, tasks, ep, history>>

-----------------------------------------------------------------------------
PeerStep == \E c \in Conns : PeerClose(c) \/ \E m \in Sendable : Send(c, m)

EpollWork == Enqueue \/ Create \/ FreeWritten \/ ModeIn \/ Unregister \/ Close

EpollEvent == \E c \in Conns :
                 Accept(c) \/ Read(c) \/ Write(c) \/ WriteLast(c) \/ Hangup(c)

WorkerStep(w) ==
    \/ Start(w) \/ PopNone(w) \/ Pop(w) \/ PopLast(w) \/ FreeRead(w)
    \/ LookUpSender(w) \/ Compare(w) \/ Save(w) \/ Decline(w) \/ AnswerPing(w)
    \/ AnswerBroadcast(w) \/ LookUpAddressee(w) \/ AnswerNoUser(w)
    \/ AnswerFound(w) \/ Deliver(w) \/ BroadcastLen(w) \/ BroadcastSkip(w)
    \/ BroadcastMode(w) \/ BroadcastCopy(w) \/ BroadcastEnd(w) \/ Flush(w)

Next == PeerStep \/ EpollEvent \/ EpollWork \/ \E w \in Workers : WorkerStep(w)

Spec == Init /\ [][Next]_vars

(* The epoll thread finishes the event it is handling and the workers run.  *)
FairSpec == Spec /\ WF_vars(EpollWork) /\ \A w \in Workers : WF_vars(WorkerStep(w))
-----------------------------------------------------------------------------
Packets == {p \in Packet : [to |-> p.to, kind |-> p.kind] \in Sendable}

TypeOK == /\ conn \in [Conns -> {"none", "open", "closed"}]
          /\ eof \in [Conns -> BOOLEAN]
          /\ mode \in [Conns -> {"in", "out"}]
          /\ inbox \in [Conns -> Seq(Packets)]
          /\ rq \in [Conns -> Seq(Packets)]
          /\ wq \in [Conns -> Seq(Status \cup Forward)]
          /\ clients \in Seq(Entry)
          /\ tasks \in Seq(Conns)
          /\ ep \in [pc : {"wait", "push", "create", "free", "mode", "erase",
                           "close"},
                     c : Conns \cup {NoConn}, batch : Seq(Packets),
                     uid : Uids \cup {Server}]
          /\ wk \in [Workers ->
                [pc : {"idle", "pop", "free", "register", "compare", "save",
                       "answer", "nouser", "found", "deliver", "len", "loop",
                       "copy", "flush"},
                 cli : Conns \cup {NoConn}, pkt : Packets \cup {NoPacket},
                 tgt : Entry \cup {NoEntry}, i : Nat, len : Nat]]
          /\ sent \subseteq Packets /\ handled \subseteq Packets
          /\ quiet \subseteq Conns

(* dcn_clients maps a UID to one connection, the one registered last, and   *)
(* to one that sends from that UID, although two workers may both find the  *)
(* same UID missing, or another connection's, and register it.              *)
Registry == /\ \A i, j \in DOMAIN clients :
                  clients[i].uid = clients[j].uid => i = j
            /\ \A e \in Entries : UidOf[e.cli] = e.uid

(* A status answer goes to the connection the packet came from, and a       *)
(* packet only to a connection of the UID it is addressed to, never back to *)
(* its own sender: also when the entry changes between lookup and use.      *)
NoMisdelivery ==
    \A c \in Conns : \A k \in DOMAIN wq[c] :
        LET m == wq[c][k] IN
        IF m.what = "status"
        THEN \E p \in sent : p.muid = m.muid /\ p.src = c
        ELSE /\ m.to = UidOf[c] /\ m.from # m.to
             /\ \E p \in sent : /\ p.muid = m.muid /\ UidOf[p.src] = m.from
                                /\ p.to = m.to \/ p.kind = "broadcast"

(* The tasks that will still take blocks off the read queue of c. *)
Pending(c) == Cardinality({i \in DOMAIN tasks : tasks[i] = c})
                + Cardinality({w \in Workers :
                                 wk[w].pc \in {"pop", "free"} /\ wk[w].cli = c})
                + (IF ep.pc = "create" /\ ep.c = c THEN 1 ELSE 0)

(* No packet is left in a read queue without a task that will pop it,       *)
(* although tasks and blocks are not tied to each other and two workers may *)
(* pop each other's packet.                                                 *)
NoOrphanBlock == \A c \in Conns : Open(c) => Len(rq[c]) <= Pending(c)

(* A connection closed with nothing read and nothing in a worker's hands    *)
(* leaves no entry in dcn_clients to forward to; a later packet is answered *)
(* with 101.                                                                *)
CleanClose == \A e \in Entries :
                 conn[e.cli] = "closed" => e.cli \notin quiet

(* Whatever is pushed to a read queue is popped: once the peers fall silent *)
(* the read queues drain, whatever order blocks and tasks were taken in.    *)
ReadIsProcessed == []<>(\A c \in Conns : rq[c] = <<>>)

(* "if there this UID already, sent error code" (dnet/server.h:24): the UID *)
(* of a connection that is up is not given to another connection.           *)
EntryNotTaken ==
    [][\A e \in Entries : \A f \in Entries' :
          e.uid = f.uid /\ Open(e.cli) /\ ~eof[e.cli] => f.cli = e.cli]_vars

(* "2 == no blocks left" (netw/epldplx-c.c:341): when the epoll thread goes *)
(* back to EPOLLIN nothing is left to write.                                *)
NoBlocksLeft ==
    [][\A c \in Conns : (Open(c) /\ mode[c] = "out" /\ mode'[c] = "in")
                           => wq[c] = <<>> \/ conn'[c] = "closed"]_vars

(* "packet is pushed to WRITE QUEUE of to_uid client" (dnet/server.h:31):   *)
(* a packet the server has read is still on its way to a worker, or has     *)
(* been answered, or its connection has ended.                              *)
PacketIsHandled ==
    \A p \in sent :
        \/ p \in handled
        \/ eof[p.src]
        \/ \E k \in DOMAIN inbox[p.src] : inbox[p.src][k] = p
        \/ \E k \in DOMAIN ep.batch : ep.batch[k] = p
        \/ \E k \in DOMAIN rq[p.src] : rq[p.src][k] = p
        \/ \E w \in Workers : wk[w].pkt = p
=============================================================================
