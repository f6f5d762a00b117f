----------------------------- MODULE ThreadPool -----------------------------
(***************************************************************************)
(* The thread pool of thr-pool.c, which runs every coroutine of asyncio.c: *)
(* async_create submits a coroutine as a task with a future, a worker pops *)
(* it and runs it (__loop_worker), and await blocks on the future.         *)
(*                                                                         *)
(* A step is one access to shared state between two points where another   *)
(* thread can act.  The queue is only touched with blocks_mtx held, and no *)
(* worker reads anything else inside that critical section except          *)
(* is_active, so locking, testing the wait condition and popping are one   *)
(* step; the one place where a worker keeps the mutex across two steps is  *)
(* between the test that sends it to sleep and the sleep itself, because   *)
(* pool_free stores is_active and broadcasts without the mutex.            *)
(***************************************************************************)
EXTENDS Naturals, Sequences

CONSTANTS
    Workers,        \* the threads pool_start creates
    Submitters,     \* threads that call async_create / pool_sumbit and await
    Tasks,          \* tasks, each submitted at most once
    Futures,        \* the tasks submitted with an awaitable
    Refusable,      \* bound: the tasks push_block may have no memory for
    NoTask          \* what a thread holds before its first task

ASSUME WorkersAssumption == Workers # {}
ASSUME FuturesAssumption == Futures \subseteq Tasks /\ Refusable \subseteq Tasks
ASSUME NoTaskAssumption == NoTask \notin Tasks

VARIABLES
    q,          \* pool->q.blocks
    active,     \* pool->is_active
    wpc,        \* where each worker is in __thr_work
    cur,        \* the task a worker popped last
    spc,        \* where each submitter is in pool_sumbit / await_future
    job,        \* the task a submitter submitted last
    ready,      \* fut->is_ready
    freed,      \* futures __future_free has released
    stop,       \* how far pool_free has come
    submitted,  \* history: the tasks pushed so far
    refused,    \* history: the tasks push_block had no memory for
    runs        \* history: how often working_f has run a task

vars == <<q, active, wpc, cur, spc, job, ready, freed, stop, submitted, refused,
          runs>>
workerVars == <<wpc, cur, ready, runs>>
callerVars == <<spc, job, freed, submitted, refused>>
poolVars   == <<q, active, stop>>

WorkerPC    == {"loop", "lock", "parking", "waiting", "run", "ready",
                "notify", "exited"}
SubmitterPC == {"idle", "signal", "check", "parking", "asleep"}
StopPC      == {"running", "inactive", "broadcast", "drained", "joined"}

(* Faulty variant: no mutex between the wait condition and the sleep. *)
MutexForgotten == FALSE

(* A worker that decided to sleep and has not released blocks_mtx yet. *)
MutexHeld == \E w \in Workers : wpc[w] = "parking"

(* The workers asleep on has_tasks. *)
Waiting == {w \in Workers : wpc[w] = "waiting"}

InQueue(t) == \E i \in 1..Len(q) : q[i] = t
Running(w, t) == wpc[w] = "run" /\ cur[w] = t

Init == /\ q = <<>>
        /\ active = TRUE
        /\ wpc = [w \in Workers |-> "loop"]
        /\ cur = [w \in Workers |-> NoTask]
        /\ spc = [s \in Submitters |-> "idle"]
        /\ job = [s \in Submitters |-> NoTask]
        /\ ready = [t \in Tasks |-> FALSE]
        /\ freed = {}
        /\ stop = "running"
        /\ submitted = {}
        /\ refused = {}
        /\ runs = [t \in Tasks |-> 0]

WorkerGoes(w, from, to) == /\ wpc[w] = from
                           /\ wpc' = [wpc EXCEPT ![w] = to]

CallerGoes(s, from, to) == /\ spc[s] = from
                           /\ spc' = [spc EXCEPT ![s] = to]

-----------------------------------------------------------------------------
(* Faulty variants of the actions below, one for each property to catch. *)

(* pop_block hands out the last block and leaves it in the queue. *)
TakeKeepsLast(w) == /\ ~MutexHeld
                    /\ q # <<>>
                    /\ WorkerGoes(w, "lock", "run")
                    /\ cur' = [cur EXCEPT ![w] = Head(q)]
                    /\ q' = IF Len(q) = 1 THEN q ELSE Tail(q)
                    /\ UNCHANGED <<ready, runs, active, stop, callerVars>>

(* pop_block frees the queue although more than one block is in it. *)
TakeFreesAll(w) == /\ ~MutexHeld
                   /\ q # <<>>
                   /\ WorkerGoes(w, "lock", "run")
                   /\ cur' = [cur EXCEPT ![w] = Head(q)]
                   /\ q' = <<>>
                   /\ UNCHANGED <<ready, runs, active, stop, callerVars>>

(* pool_sumbit forgets to signal has_tasks. *)
SignalLost(s) == /\ CallerGoes(s, "signal", "idle")
                 /\ UNCHANGED <<wpc, cur, ready, runs, poolVars>>
                 /\ UNCHANGED <<job, freed, submitted, refused>>

(* await_future does not test is_ready. *)
CollectEarly(s) == /\ CallerGoes(s, "check", "idle")
                   /\ freed' = freed \cup {job[s]}
                   /\ UNCHANGED <<job, submitted, refused, poolVars, workerVars>>

(* await_future frees what every caller submitted last. *)
CollectAll(s) == /\ CallerGoes(s, "check", "idle")
                 /\ ready[job[s]]
                 /\ freed' = freed \cup {job[r] : r \in Submitters}
                 /\ UNCHANGED <<job, submitted, refused, poolVars, workerVars>>

(* A worker that finds the queue empty and the pool stopped takes the lock  *)
(* again without looking at is_active.                                      *)
GiveUpNever(w) == /\ ~MutexHeld
                  /\ q = <<>> /\ ~active
                  /\ WorkerGoes(w, "lock", "lock")
                  /\ UNCHANGED <<cur, ready, runs, poolVars, callerVars>>

(* pool_free goes on to free the queue of a pool it left active. *)
StayActive == /\ stop = "running"
              /\ stop' = "inactive"
              /\ UNCHANGED <<q, active, workerVars, callerVars>>

-----------------------------------------------------------------------------
(* __thr_work: the loop of a worker. *)

(* while (is_active) *)
Loop(w) == /\ WorkerGoes(w, "loop", IF active THEN "lock" ELSE "exited")
           /\ UNCHANGED <<cur, ready, runs, poolVars, callerVars>>

(* mtx_lock, then the queue is empty and the pool active: about to sleep. *)
Park(w) == /\ ~MutexHeld
           /\ q = <<>> /\ active
           /\ WorkerGoes(w, "lock", "parking")
           /\ UNCHANGED <<cur, ready, runs, poolVars, callerVars>>

(* mtx_lock, then the queue is empty and the pool stopped: unlock, continue. *)
GiveUp(w) == /\ ~MutexHeld
             /\ q = <<>> /\ ~active
             /\ WorkerGoes(w, "lock", "loop")
             /\ UNCHANGED <<cur, ready, runs, poolVars, callerVars>>

(* mtx_lock, pop_block and mtx_unlock.  The worker holds the recursive     *)
(* mutex around pop_block, so the queue_free of the last block is inside   *)
(* the critical section and its mtx_destroy is refused.                    *)
Take(w) == /\ ~MutexHeld
           /\ q # <<>>
           /\ WorkerGoes(w, "lock", "run")
           /\ cur' = [cur EXCEPT ![w] = Head(q)]
           /\ q' = Tail(q)
           /\ UNCHANGED <<ready, runs, active, stop, callerVars>>

(* cnd_wait releases the mutex and sleeps in one step. *)
Sleep(w) == /\ WorkerGoes(w, "parking", "waiting")
            /\ UNCHANGED <<cur, ready, runs, poolVars, callerVars>>

(* cnd_wait may return with nobody having signalled. *)
SpuriousWake(w) == /\ WorkerGoes(w, "waiting", "lock")
                   /\ UNCHANGED <<cur, ready, runs, poolVars, callerVars>>

(* working_f returns. *)
Run(w) == /\ WorkerGoes(w, "run",
                        IF cur[w] \in Futures THEN "ready" ELSE "loop")
          /\ runs' = [runs EXCEPT ![cur[w]] = @ + 1]
          /\ UNCHANGED <<cur, ready, poolVars, callerVars>>

(* atomic_store(&fut->is_ready, true), without fut->cond_mtx. *)
SetReady(w) == /\ WorkerGoes(w, "ready", "notify")
               /\ ready' = [ready EXCEPT ![cur[w]] = TRUE]
               /\ UNCHANGED <<cur, runs, poolVars, callerVars>>

(* cnd_signal(&fut->is_done): reaches the awaiter only if it sleeps now. *)
Notify(w) == /\ WorkerGoes(w, "notify", "loop")
             /\ spc' = [s \in Submitters |->
                          IF spc[s] = "asleep" /\ job[s] = cur[w]
                          THEN "check" ELSE spc[s]]
             /\ UNCHANGED <<cur, ready, runs, poolVars, job, freed, submitted,
                            refused>>

-----------------------------------------------------------------------------
(* pool_sumbit and await_future: a thread that uses the pool. *)

(* push_block, under blocks_mtx.  Nothing is submitted once queue_free has *)
(* destroyed the mutex: the programs stop their event loop first.          *)
Push(s, t) == /\ t \notin submitted \cup refused
              /\ stop \in {"running", "inactive", "broadcast"}
              /\ ~MutexHeld
              /\ CallerGoes(s, "idle", "signal")
              /\ job' = [job EXCEPT ![s] = t]
              /\ q' = Append(q, t)
              /\ submitted' = submitted \cup {t}
              /\ UNCHANGED <<active, stop, freed, refused, workerVars>>

(* push_block has no memory and returns -1, which pool_sumbit ignores: it   *)
(* signals all the same, and an awaiter of the future waits for good.       *)
PushFails(s, t) == /\ t \in Refusable \ (submitted \cup refused)
                   /\ stop \in {"running", "inactive", "broadcast"}
                   /\ ~MutexHeld
                   /\ CallerGoes(s, "idle", "signal")
                   /\ job' = [job EXCEPT ![s] = t]
                   /\ refused' = refused \cup {t}
                   /\ UNCHANGED <<poolVars, freed, submitted, workerVars>>

(* cnd_signal(&pool->has_tasks): wakes one sleeping worker, if any. *)
Signal(s) == /\ CallerGoes(s, "signal", "idle")
             /\ IF Waiting = {}
                THEN UNCHANGED wpc
                ELSE \E w \in Waiting : wpc' = [wpc EXCEPT ![w] = "lock"]
             /\ UNCHANGED <<cur, ready, runs, poolVars, job, freed, submitted,
                            refused>>

(* await: the thread that created the future waits for it. *)
Await(s) == /\ job[s] \in Futures \ freed
            /\ CallerGoes(s, "idle", "check")
            /\ UNCHANGED <<job, freed, submitted, refused, poolVars, workerVars>>

(* await_future finds is_ready: copies the result and frees the future. *)
Collect(s) == /\ CallerGoes(s, "check", "idle")
              /\ ready[job[s]]
              /\ freed' = freed \cup {job[s]}
              /\ UNCHANGED <<job, submitted, refused, poolVars, workerVars>>

(* await_future finds the future not ready: about to sleep on is_done. *)
AwaitPark(s) == /\ CallerGoes(s, "check", "parking")
                /\ ~ready[job[s]]
                /\ UNCHANGED <<job, freed, submitted, refused, poolVars,
                               workerVars>>

AwaitSleep(s) == /\ CallerGoes(s, "parking", "asleep")
                 /\ UNCHANGED <<job, freed, submitted, refused, poolVars,
                                workerVars>>

AwaitSpurious(s) == /\ CallerGoes(s, "asleep", "check")
                    /\ UNCHANGED <<job, freed, submitted, refused, poolVars,
                                   workerVars>>

-----------------------------------------------------------------------------
(* loop_stop / pool_free. *)

StopGoes(from, to) == /\ stop = from
                      /\ stop' = to

Deactivate == /\ StopGoes("running", "inactive")
              /\ active' = FALSE
              /\ UNCHANGED <<q, workerVars, callerVars>>

(* cnd_broadcast(&pool->has_tasks), without the mutex. *)
Broadcast == /\ StopGoes("inactive", "broadcast")
             /\ wpc' = [w \in Workers |->
                          IF wpc[w] = "waiting" THEN "lock" ELSE wpc[w]]
             /\ UNCHANGED <<q, active, cur, ready, runs, callerVars>>

(* queue_free: the blocks still queued are freed, unprocessed. *)
Drain == /\ StopGoes("broadcast", "drained")
         /\ ~MutexHeld
         /\ q' = <<>>
         /\ UNCHANGED <<active, workerVars, callerVars>>

(* thrd_join of every worker. *)
Join == /\ StopGoes("drained", "joined")
        /\ \A w \in Workers : wpc[w] = "exited"
        /\ UNCHANGED <<q, active, workerVars, callerVars>>

-----------------------------------------------------------------------------
WorkerStep(w) == \/ Loop(w) \/ Park(w) \/ GiveUp(w) \/ Take(w) \/ Sleep(w)
                 \/ Run(w) \/ SetReady(w) \/ Notify(w)

CallerStep(s) == \/ Signal(s) \/ Collect(s) \/ AwaitPark(s) \/ AwaitSleep(s)

(* pool_free once it has begun. *)
FreeStep == Broadcast \/ Drain \/ Join

StopStep == Deactivate \/ FreeStep

Next == \/ \E w \in Workers : WorkerStep(w) \/ SpuriousWake(w)
        \/ \E s \in Submitters : \/ CallerStep(s) \/ AwaitSpurious(s) \/ Await(s)
                                 \/ \E t \in Tasks : Push(s, t) \/ PushFails(s, t)
        \/ StopStep

Spec == Init /\ [][Next]_vars

(* Every thread keeps running: a worker that can step, steps (so working_f *)
(* returns), a caller that pushed a task goes on to signal, and the thread *)
(* in pool_free goes on.  Nobody is obliged to submit, to await or to stop *)
(* the pool.                                                               *)
Fairness == /\ \A w \in Workers : WF_vars(WorkerStep(w))
            /\ \A s \in Submitters : WF_vars(CallerStep(s))
            /\ WF_vars(FreeStep)

FairSpec == Spec /\ Fairness
-----------------------------------------------------------------------------
TypeOK == /\ q \in Seq(Tasks)
          /\ active \in BOOLEAN
          /\ wpc \in [Workers -> WorkerPC]
          /\ cur \in [Workers -> Tasks \cup {NoTask}]
          /\ spc \in [Submitters -> SubmitterPC]
          /\ job \in [Submitters -> Tasks \cup {NoTask}]
          /\ ready \in [Tasks -> BOOLEAN]
          /\ freed \subseteq Futures
          /\ stop \in StopPC
          /\ submitted \subseteq Tasks /\ refused \subseteq Refusable
          /\ runs \in [Tasks -> Nat]

(* Never a task that waits while every worker sleeps and nobody is about to *)
(* signal: push_block releases blocks_mtx before pool_sumbit signals, and a *)
(* worker tests bsize under the same mutex it sleeps on.                    *)
NoStrandedTask == (q # <<>> /\ \A w \in Workers : wpc[w] = "waiting")
                     => \E s \in Submitters : spc[s] = "signal"

(* A task is in one place only: queued once, or with one worker, or run,    *)
(* and never run twice, whatever workers race for the last block.           *)
NoTaskTwice ==
    /\ \A i, j \in 1..Len(q) : q[i] = q[j] => i = j
    /\ \A t \in Tasks :
         /\ runs[t] \in {0, 1}
         /\ InQueue(t) => /\ runs[t] = 0
                          /\ \A w \in Workers : ~Running(w, t)
         /\ \A v, w \in Workers : Running(v, t) /\ Running(w, t) => v = w
         /\ \A w \in Workers : Running(w, t) => runs[t] = 0

(* Until pool_free frees the queue, a submitted task is queued, with a      *)
(* worker or run: nothing is lost while submitters and workers race.        *)
NoTaskLost ==
    stop \in {"running", "inactive", "broadcast"} =>
        \A t \in submitted : \/ InQueue(t)
                             \/ runs[t] > 0
                             \/ \E w \in Workers : Running(w, t)

(* await copies out_block and frees the future only after working_f has     *)
(* returned, although is_ready is tested without the worker's knowledge;    *)
(* each future is freed by the one thread that submitted it.                *)
ResultBeforeFree ==
    /\ \A t \in Tasks : ready[t] => t \in Futures /\ runs[t] = 1
    /\ \A t \in freed : ready[t]
    /\ \A s \in Submitters : spc[s] \in {"check", "parking", "asleep"}
                                => job[s] \in Futures \ freed

(* pool_free stores is_active and broadcasts without blocks_mtx, so a       *)
(* worker that has tested is_active and not gone to sleep yet misses the    *)
(* broadcast.  The mutex it holds meanwhile lets one worker do so at most;  *)
(* every other one is awake from then on, whatever submitters still signal. *)
Asleep(w) == wpc[w] \in {"parking", "waiting"}

OneMissed == stop \in {"broadcast", "drained", "joined"} =>
                \A v, w \in Workers : Asleep(v) /\ Asleep(w) => v = w

(* pool_free returns (thrd_join of every worker), unless a worker has       *)
(* missed the broadcast: that one sleeps for good.                          *)
StopReturns == stop = "broadcast" ~>
                  (stop = "joined" \/ \E w \in Workers : wpc[w] = "waiting")

(* A submitted task is run, unless the pool is stopped: no wake-up is lost  *)
(* between pool_sumbit and __thr_work.                                      *)
SubmittedIsRun ==
    \A t \in Tasks : t \in submitted ~> (runs[t] > 0 \/ ~active)

(* An awaiter that sleeps on a future already ready is about to be woken.   *)
(* await_future promises this to every caller of await ("awaiting for get   *)
(* response", code/client.c:63); the worker stores is_ready and signals     *)
(* without fut->cond_mtx, so the signal can fall between test and sleep.    *)
AwaiterIsWoken ==
    \A s \in Submitters : spc[s] = "asleep" /\ ready[job[s]] =>
        \E w \in Workers : wpc[w] = "notify" /\ cur[w] = job[s]

-----------------------------------------------------------------------------
(* The pool implements TaskService: the stage of a task is where it is.     *)

Stage(t) == CASE t \notin submitted -> "new"
              [] t \in submitted /\ runs[t] > 0 -> "done"
              [] t \in submitted /\ runs[t] = 0 /\ InQueue(t) -> "queued"
              [] t \in submitted /\ runs[t] = 0 /\ ~InQueue(t) ->
                   IF \E w \in Workers : Running(w, t)
                   THEN "running" ELSE "discarded"

Service == INSTANCE TaskService
             WITH status <- [t \in Tasks |-> Stage(t)], open <- active

(* Every step of the pool is a step of TaskService or changes nothing of it: *)
(* tasks start once, and only a stopped pool discards.                       *)
ImplementsTaskService == Service!Spec
=============================================================================
