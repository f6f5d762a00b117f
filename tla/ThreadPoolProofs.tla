-------------------------- MODULE ThreadPoolProofs --------------------------
(***************************************************************************)
(* Proofs about ThreadPool for any number of workers, submitters and tasks.*)
(***************************************************************************)
EXTENDS ThreadPool, TLAPS

USE DEF WorkerPC, SubmitterPC, StopPC, workerVars, callerVars, poolVars

(* What one step of Next is, named action by action. *)
LEMMA NextCases ==
    ASSUME Next
    PROVE  \/ \E w \in Workers : \/ Loop(w) \/ Park(w) \/ GiveUp(w) \/ Take(w)
                                 \/ Sleep(w) \/ Run(w) \/ SetReady(w)
                                 \/ Notify(w) \/ SpuriousWake(w)
           \/ \E s \in Submitters : \/ Signal(s) \/ Collect(s) \/ AwaitPark(s)
                                    \/ AwaitSleep(s) \/ AwaitSpurious(s)
                                    \/ Await(s)
                                    \/ \E t \in Tasks : \/ Push(s, t)
                                                       \/ PushFails(s, t)
           \/ Deactivate \/ Broadcast \/ Drain \/ Join
BY DEF Next, WorkerStep, CallerStep, StopStep, FreeStep

-----------------------------------------------------------------------------
(* Types.  A worker past "lock" holds a task, and an awaiter a future.      *)

Holds == /\ \A w \in Workers : wpc[w] \in {"run", "ready", "notify"}
                                 => cur[w] \in Tasks
         /\ \A w \in Workers : wpc[w] \in {"ready", "notify"}
                                 => cur[w] \in Futures
         /\ \A s \in Submitters : spc[s] \in {"check", "parking", "asleep"}
                                 => job[s] \in Futures

TypeInv == TypeOK /\ Holds

LEMMA InitType == Init => TypeInv
BY FuturesAssumption DEF Init, TypeInv, TypeOK, Holds

LEMMA WorkerType ==
    ASSUME TypeInv, NEW w \in Workers,
           \/ Loop(w) \/ Park(w) \/ GiveUp(w) \/ Take(w) \/ Sleep(w)
           \/ Run(w) \/ SetReady(w) \/ Notify(w) \/ SpuriousWake(w)
    PROVE  TypeInv'
<1> USE FuturesAssumption DEF TypeInv, TypeOK, Holds, WorkerGoes
<1>1. CASE Loop(w) BY <1>1 DEF Loop
<1>2. CASE Park(w) BY <1>2 DEF Park
<1>3. CASE GiveUp(w) BY <1>3 DEF GiveUp
<1>4. CASE Take(w)
  <2>1. Head(q) \in Tasks /\ Tail(q) \in Seq(Tasks) BY <1>4 DEF Take
  <2> QED BY <1>4, <2>1 DEF Take
<1>5. CASE Sleep(w) BY <1>5 DEF Sleep
<1>6. CASE Run(w) BY <1>6 DEF Run
<1>7. CASE SetReady(w) BY <1>7 DEF SetReady
<1>8. CASE Notify(w) BY <1>8 DEF Notify
<1>9. CASE SpuriousWake(w) BY <1>9 DEF SpuriousWake
<1> QED BY <1>1, <1>2, <1>3, <1>4, <1>5, <1>6, <1>7, <1>8, <1>9

LEMMA CallerType ==
    ASSUME TypeInv, NEW s \in Submitters,
           \/ Signal(s) \/ Collect(s) \/ AwaitPark(s) \/ AwaitSleep(s)
           \/ AwaitSpurious(s) \/ Await(s)
           \/ \E t \in Tasks : Push(s, t) \/ PushFails(s, t)
    PROVE  TypeInv'
<1> USE FuturesAssumption DEF TypeInv, TypeOK, Holds, CallerGoes
<1>1. CASE Signal(s)
  <2>1. CASE Waiting = {} BY <1>1, <2>1 DEF Signal
  <2>2. CASE Waiting # {}
    <3>1. PICK w \in Waiting : wpc' = [wpc EXCEPT ![w] = "lock"]
          BY <1>1, <2>2 DEF Signal
    <3> QED BY <1>1, <3>1 DEF Signal, Waiting
  <2> QED BY <2>1, <2>2
<1>2. CASE Collect(s) BY <1>2 DEF Collect
<1>3. CASE AwaitPark(s) BY <1>3 DEF AwaitPark
<1>4. CASE AwaitSleep(s) BY <1>4 DEF AwaitSleep
<1>5. CASE AwaitSpurious(s) BY <1>5 DEF AwaitSpurious
<1>6. CASE Await(s) BY <1>6 DEF Await
<1>7. CASE \E t \in Tasks : Push(s, t) BY <1>7 DEF Push
<1>8. CASE \E t \in Tasks : PushFails(s, t) BY <1>8 DEF PushFails
<1> QED BY <1>1, <1>2, <1>3, <1>4, <1>5, <1>6, <1>7, <1>8

LEMMA StopType ==
    ASSUME TypeInv, Deactivate \/ Broadcast \/ Drain \/ Join
    PROVE  TypeInv'
<1> USE DEF TypeInv, TypeOK, Holds, StopGoes
<1>1. CASE Deactivate BY <1>1 DEF Deactivate
<1>2. CASE Broadcast BY <1>2 DEF Broadcast
<1>3. CASE Drain BY <1>3 DEF Drain
<1>4. CASE Join BY <1>4 DEF Join
<1> QED BY <1>1, <1>2, <1>3, <1>4

LEMMA TypeStep == TypeInv /\ [Next]_vars => TypeInv'
<1> SUFFICES ASSUME TypeInv, [Next]_vars PROVE TypeInv' OBVIOUS
<1>1. CASE Next BY <1>1, NextCases, WorkerType, CallerType, StopType
<1>2. CASE UNCHANGED vars BY <1>2 DEF TypeInv, TypeOK, Holds, vars
<1> QED BY <1>1, <1>2

(* Every reachable state is well typed, for any number of threads and tasks. *)
THEOREM TypeCorrect == Spec => []TypeOK
<1>1. TypeInv => TypeOK BY DEF TypeInv
<1> QED BY <1>1, InitType, TypeStep, PTL DEF Spec

-----------------------------------------------------------------------------
(* Lost wake-ups.  While a worker holds blocks_mtx on its way to sleep the  *)
(* queue stays empty, so no worker falls asleep in front of a task.         *)

MutexInv == /\ \A v, w \in Workers : wpc[v] = "parking" /\ wpc[w] = "parking"
                                        => v = w
            /\ MutexHeld => q = <<>>

AwakeInv == MutexInv /\ NoStrandedTask

LEMMA InitAwake == Init => AwakeInv
BY DEF Init, AwakeInv, MutexInv, MutexHeld, NoStrandedTask

LEMMA AwakeStep == TypeInv /\ AwakeInv /\ [Next]_vars => AwakeInv'
<1> SUFFICES ASSUME TypeInv, AwakeInv, [Next]_vars PROVE AwakeInv' OBVIOUS
<1> USE DEF TypeInv, TypeOK, AwakeInv, MutexInv, MutexHeld, NoStrandedTask,
            WorkerGoes, CallerGoes, StopGoes
<1>1. ASSUME NEW w \in Workers,
             \/ Loop(w) \/ GiveUp(w) \/ Sleep(w) \/ Run(w) \/ SetReady(w)
             \/ SpuriousWake(w)
      PROVE  AwakeInv'
  BY <1>1 DEF Loop, GiveUp, Sleep, Run, SetReady, SpuriousWake
<1>2. ASSUME NEW w \in Workers, Park(w) PROVE AwakeInv'
  BY <1>2 DEF Park
<1>3. ASSUME NEW w \in Workers, Take(w) PROVE AwakeInv'
  BY <1>3 DEF Take
<1>4. ASSUME NEW w \in Workers, Notify(w) PROVE AwakeInv'
  BY <1>4 DEF Notify
<1>5. ASSUME NEW s \in Submitters, Signal(s) PROVE AwakeInv'
  <2>1. CASE Waiting = {}
    <3>1. ~ \A w \in Workers : wpc[w] = "waiting"
          BY <2>1, WorkersAssumption DEF Waiting
    <3> QED BY <1>5, <2>1, <3>1 DEF Signal
  <2>2. CASE Waiting # {}
    <3>1. PICK w \in Waiting : wpc' = [wpc EXCEPT ![w] = "lock"]
          BY <1>5, <2>2 DEF Signal
    <3> QED BY <1>5, <3>1 DEF Signal, Waiting
  <2> QED BY <2>1, <2>2
<1>6. ASSUME NEW s \in Submitters,
             \/ Collect(s) \/ AwaitPark(s) \/ AwaitSleep(s)
             \/ AwaitSpurious(s) \/ Await(s)
             \/ \E t \in Tasks : PushFails(s, t)
      PROVE  AwakeInv'
  BY <1>6 DEF Collect, AwaitPark, AwaitSleep, AwaitSpurious, Await, PushFails
<1>7. ASSUME NEW s \in Submitters, NEW t \in Tasks, Push(s, t) PROVE AwakeInv'
  BY <1>7 DEF Push
<1>8. CASE Deactivate BY <1>8 DEF Deactivate
<1>9. CASE Broadcast BY <1>9 DEF Broadcast
<1>10. CASE Drain BY <1>10 DEF Drain
<1>11. CASE Join BY <1>11 DEF Join
<1>12. CASE UNCHANGED vars BY <1>12 DEF vars
<1> QED BY <1>1, <1>2, <1>3, <1>4, <1>5, <1>6, <1>7, <1>8, <1>9, <1>10,
           <1>11, <1>12, NextCases

(* No task waits while every worker sleeps and no submitter will signal,    *)
(* whatever the number of workers and submitters (thr-pool.c:84-105).       *)
THEOREM NeverStranded == Spec => []NoStrandedTask
<1>1. AwakeInv => NoStrandedTask BY DEF AwakeInv
<1> QED BY <1>1, InitType, TypeStep, InitAwake, AwakeStep, PTL DEF Spec

-----------------------------------------------------------------------------
(* Each task is run once.  The strengthening: whatever is queued, with a    *)
(* worker or run has been submitted, so Push can only bring a new task.     *)

Known == \A t \in Tasks :
            (InQueue(t) \/ runs[t] > 0 \/ \E w \in Workers : Running(w, t))
               => t \in submitted

OnceInv == Known /\ NoTaskTwice

LEMMA InitOnce == Init => OnceInv
BY DEF Init, OnceInv, Known, NoTaskTwice, InQueue, Running

(* What Take and Push do to membership of the queue. *)
LEMMA QueueTail ==
    ASSUME q \in Seq(Tasks), q # <<>>, q' = Tail(q),
           \A i, j \in 1..Len(q) : q[i] = q[j] => i = j
    PROVE  /\ \A i, j \in 1..Len(q') : q'[i] = q'[j] => i = j
           /\ \A t : InQueue(t)' <=> InQueue(t) /\ t # Head(q)
           /\ InQueue(Head(q))
<1>1. Len(q') = Len(q) - 1 /\ \A i \in 1..Len(q') : q'[i] = q[i + 1]
      OBVIOUS
<1>2. Len(q) \in Nat /\ Len(q) > 0 /\ Head(q) = q[1] OBVIOUS
<1>3. \A i, j \in 1..Len(q') : q'[i] = q'[j] => i = j BY <1>1, <1>2
<1>4. ASSUME NEW t PROVE InQueue(t)' <=> InQueue(t) /\ t # Head(q)
  <2>1. ASSUME NEW i \in 1..Len(q'), q'[i] = t PROVE InQueue(t) /\ t # Head(q)
        BY <1>1, <1>2, <2>1 DEF InQueue
  <2>2. ASSUME NEW i \in 1..Len(q), q[i] = t, t # Head(q) PROVE InQueue(t)'
    <3>1. i # 1 BY <1>2, <2>2
    <3>2. i - 1 \in 1..Len(q') /\ q'[i - 1] = t BY <1>1, <1>2, <2>2, <3>1
    <3> QED BY <3>2 DEF InQueue
  <2> QED BY <2>1, <2>2 DEF InQueue
<1>5. InQueue(Head(q)) BY <1>2 DEF InQueue
<1> QED BY <1>3, <1>4, <1>5

LEMMA QueueAppend ==
    ASSUME q \in Seq(Tasks), NEW t \in Tasks, q' = Append(q, t)
    PROVE  /\ Len(q') = Len(q) + 1
           /\ \A i \in 1..Len(q) : q'[i] = q[i]
           /\ q'[Len(q) + 1] = t
           /\ \A x : InQueue(x)' <=> InQueue(x) \/ x = t
<1>1. /\ Len(q) \in Nat /\ Len(q') = Len(q) + 1
      /\ \A i \in 1..Len(q) : q'[i] = q[i]
      /\ q'[Len(q) + 1] = t
      OBVIOUS
<1>2. ASSUME NEW x PROVE InQueue(x)' <=> InQueue(x) \/ x = t
      BY <1>1 DEF InQueue
<1> QED BY <1>1, <1>2

LEMMA OnceStep == TypeInv /\ OnceInv /\ [Next]_vars => OnceInv'
<1> SUFFICES ASSUME TypeInv, OnceInv, [Next]_vars PROVE OnceInv' OBVIOUS
<1> USE DEF TypeInv, TypeOK, Holds, OnceInv, Known, NoTaskTwice,
            WorkerGoes, CallerGoes, StopGoes
<1>1. ASSUME NEW w \in Workers,
             \/ Loop(w) \/ Park(w) \/ GiveUp(w) \/ Sleep(w) \/ SetReady(w)
             \/ Notify(w) \/ SpuriousWake(w)
      PROVE  OnceInv'
  <2>1. /\ UNCHANGED <<q, cur, runs, submitted>>
        /\ \A v \in Workers : wpc'[v] = "run" <=> wpc[v] = "run"
        BY <1>1 DEF Loop, Park, GiveUp, Sleep, SetReady, Notify, SpuriousWake
  <2> QED BY <2>1 DEF InQueue, Running
<1>2. ASSUME NEW w \in Workers, Take(w) PROVE OnceInv'
  <2> DEFINE h == Head(q)
  <2>1. h \in Tasks BY <1>2 DEF Take
  <2>2. /\ \A i, j \in 1..Len(q') : q'[i] = q'[j] => i = j
        /\ \A t : InQueue(t)' <=> InQueue(t) /\ t # h
        /\ InQueue(h)
        BY <1>2, QueueTail DEF Take
  <2>3. \A v \in Workers, t \in Tasks :
           Running(v, t)' <=> Running(v, t) \/ (v = w /\ t = h)
        BY <1>2 DEF Take, Running
  <2>4. runs' = runs /\ submitted' = submitted BY <1>2 DEF Take
  <2> HIDE DEF h
  <2>5. Known' BY <2>1, <2>2, <2>3, <2>4
  <2>6. NoTaskTwice' BY <2>1, <2>2, <2>3, <2>4
  <2> QED BY <2>5, <2>6
<1>3. ASSUME NEW w \in Workers, Run(w) PROVE OnceInv'
  <2>1. cur[w] \in Tasks /\ Running(w, cur[w]) BY <1>3 DEF Run, Running
  <2>2. \A v \in Workers, t \in Tasks :
           Running(v, t)' <=> Running(v, t) /\ v # w
        BY <1>3 DEF Run, Running
  <2>3. \A t \in Tasks : runs'[t] = IF t = cur[w] THEN runs[t] + 1 ELSE runs[t]
        BY <1>3 DEF Run
  <2>4. q' = q /\ submitted' = submitted BY <1>3 DEF Run, poolVars, callerVars
  <2>5. \A t : InQueue(t)' <=> InQueue(t) BY <2>4 DEF InQueue
  <2>6. Known'
    <3>1. cur[w] \in submitted BY <2>1
    <3> QED BY <2>1, <2>2, <2>3, <2>4, <2>5, <3>1
  <2>7. NoTaskTwice' BY <2>1, <2>2, <2>3, <2>4, <2>5
  <2> QED BY <2>6, <2>7
<1>4. ASSUME NEW s \in Submitters,
             \/ Signal(s) \/ Collect(s) \/ AwaitPark(s) \/ AwaitSleep(s)
             \/ AwaitSpurious(s) \/ Await(s)
             \/ \E t \in Tasks : PushFails(s, t)
      PROVE  OnceInv'
  <2>1. UNCHANGED <<q, cur, runs, submitted>>
        BY <1>4 DEF Signal, Collect, AwaitPark, AwaitSleep, AwaitSpurious, Await,
                    PushFails
  <2>2. \A v \in Workers : wpc'[v] = "run" <=> wpc[v] = "run"
    <3>1. CASE Signal(s) BY <3>1 DEF Signal, Waiting
    <3>2. CASE UNCHANGED wpc BY <3>2
    <3> QED BY <1>4, <3>1, <3>2
            DEF Collect, AwaitPark, AwaitSleep, AwaitSpurious, Await, PushFails
  <2> QED BY <2>1, <2>2 DEF InQueue, Running
<1>5. ASSUME NEW s \in Submitters, NEW t \in Tasks, Push(s, t) PROVE OnceInv'
  <2>1. UNCHANGED <<wpc, cur, runs>> /\ submitted' = submitted \cup {t}
        BY <1>5 DEF Push
  <2>2. /\ t \notin submitted /\ ~InQueue(t) /\ runs[t] = 0
        /\ \A w \in Workers : ~Running(w, t)
        BY <1>5 DEF Push
  <2>3. /\ Len(q') = Len(q) + 1
        /\ \A i \in 1..Len(q) : q'[i] = q[i]
        /\ q'[Len(q) + 1] = t
        /\ \A x : InQueue(x)' <=> InQueue(x) \/ x = t
        BY <1>5, QueueAppend DEF Push
  <2>4. Len(q) \in Nat BY <1>5
  <2>5. \A i, j \in 1..Len(q') : q'[i] = q'[j] => i = j
        BY <2>2, <2>3, <2>4 DEF InQueue
  <2>6. \A w \in Workers, x \in Tasks : Running(w, x)' <=> Running(w, x)
        BY <2>1 DEF Running
  <2> QED BY <2>1, <2>2, <2>3, <2>5, <2>6
<1>6. CASE Deactivate \/ Broadcast \/ Join
  <2>1. /\ UNCHANGED <<q, cur, runs, submitted>>
        /\ \A v \in Workers : wpc'[v] = "run" <=> wpc[v] = "run"
        BY <1>6 DEF Deactivate, Broadcast, Join
  <2> QED BY <2>1 DEF InQueue, Running
<1>7. CASE Drain
  <2>1. /\ UNCHANGED <<wpc, cur, runs, submitted>>
        /\ q' = <<>>
        BY <1>7 DEF Drain
  <2>2. \A t : ~InQueue(t)' BY <2>1 DEF InQueue
  <2>3. \A w \in Workers, t \in Tasks : Running(w, t)' <=> Running(w, t)
        BY <2>1 DEF Running
  <2>4. \A i, j \in 1..Len(q') : q'[i] = q'[j] => i = j BY <2>1
  <2> QED BY <2>1, <2>2, <2>3, <2>4
<1>8. CASE UNCHANGED vars BY <1>8 DEF vars, InQueue, Running
<1> QED BY <1>1, <1>2, <1>3, <1>4, <1>5, <1>6, <1>7, <1>8, NextCases

(* No task is run twice, or is in two places at once, for any number of     *)
(* workers racing for the queue (thr-pool.c:103-120).                       *)
THEOREM RunOnce == Spec => []NoTaskTwice
<1>1. OnceInv => NoTaskTwice BY DEF OnceInv
<1> QED BY <1>1, InitType, TypeStep, InitOnce, OnceStep, PTL DEF Spec

-----------------------------------------------------------------------------
(* Nothing is lost before pool_free frees the queue.                        *)

LEMMA LostStep == TypeInv /\ OnceInv /\ NoTaskLost /\ [Next]_vars => NoTaskLost'
<1> SUFFICES ASSUME TypeInv, OnceInv, NoTaskLost, [Next]_vars
             PROVE  NoTaskLost'
    OBVIOUS
<1> USE DEF TypeInv, TypeOK, Holds, NoTaskLost, WorkerGoes, CallerGoes, StopGoes
<1>1. ASSUME NEW w \in Workers,
             \/ Loop(w) \/ Park(w) \/ GiveUp(w) \/ Sleep(w) \/ SetReady(w)
             \/ Notify(w) \/ SpuriousWake(w)
      PROVE  NoTaskLost'
  <2>1. /\ UNCHANGED <<q, cur, runs, submitted, stop>>
        /\ \A v \in Workers : wpc'[v] = "run" <=> wpc[v] = "run"
        BY <1>1 DEF Loop, Park, GiveUp, Sleep, SetReady, Notify, SpuriousWake
  <2> QED BY <2>1 DEF InQueue, Running
<1>2. ASSUME NEW w \in Workers, Take(w) PROVE NoTaskLost'
  <2>1. \A t : InQueue(t)' <=> InQueue(t) /\ t # Head(q)
        BY <1>2, QueueTail DEF Take, OnceInv, NoTaskTwice
  <2>2. \A v \in Workers, t \in Tasks : Running(v, t) => Running(v, t)'
        BY <1>2 DEF Take, Running
  <2>3. \A t \in Tasks : t = Head(q) => Running(w, t)'
        BY <1>2 DEF Take, Running
  <2>4. UNCHANGED <<runs, submitted, stop>> BY <1>2 DEF Take
  <2> QED BY <2>1, <2>2, <2>3, <2>4
<1>3. ASSUME NEW w \in Workers, Run(w) PROVE NoTaskLost'
  <2>1. cur[w] \in Tasks BY <1>3 DEF Run
  <2>2. \A v \in Workers, t \in Tasks :
           Running(v, t) => Running(v, t)' \/ t = cur[w]
        BY <1>3 DEF Run, Running
  <2>3. /\ runs'[cur[w]] > 0
        /\ \A t \in Tasks : runs[t] > 0 => runs'[t] > 0
        BY <1>3, <2>1 DEF Run
  <2>4. UNCHANGED <<q, submitted, stop>> BY <1>3 DEF Run
  <2>5. \A t : InQueue(t)' <=> InQueue(t) BY <2>4 DEF InQueue
  <2> QED BY <2>2, <2>3, <2>4, <2>5
<1>4. ASSUME NEW s \in Submitters,
             \/ Signal(s) \/ Collect(s) \/ AwaitPark(s) \/ AwaitSleep(s)
             \/ AwaitSpurious(s) \/ Await(s)
             \/ \E t \in Tasks : PushFails(s, t)
      PROVE  NoTaskLost'
  <2>1. UNCHANGED <<q, cur, runs, submitted, stop>>
        BY <1>4 DEF Signal, Collect, AwaitPark, AwaitSleep, AwaitSpurious, Await,
                    PushFails
  <2>2. \A v \in Workers : wpc'[v] = "run" <=> wpc[v] = "run"
    <3>1. CASE Signal(s) BY <3>1 DEF Signal, Waiting
    <3>2. CASE UNCHANGED wpc BY <3>2
    <3> QED BY <1>4, <3>1, <3>2
            DEF Collect, AwaitPark, AwaitSleep, AwaitSpurious, Await, PushFails
  <2> QED BY <2>1, <2>2 DEF InQueue, Running
<1>5. ASSUME NEW s \in Submitters, NEW t \in Tasks, Push(s, t) PROVE NoTaskLost'
  <2>1. /\ UNCHANGED <<wpc, cur, runs, stop>>
        /\ submitted' = submitted \cup {t}
        BY <1>5 DEF Push
  <2>2. \A x : InQueue(x)' <=> InQueue(x) \/ x = t
        BY <1>5, QueueAppend DEF Push
  <2>3. \A v \in Workers, x \in Tasks : Running(v, x)' <=> Running(v, x)
        BY <2>1 DEF Running
  <2> QED BY <2>1, <2>2, <2>3
<1>6. CASE Deactivate \/ Broadcast \/ Join
  <2>1. /\ UNCHANGED <<q, cur, runs, submitted>>
        /\ \A v \in Workers : wpc'[v] = "run" <=> wpc[v] = "run"
        BY <1>6 DEF Deactivate, Broadcast, Join
  <2>2. stop' \in {"running", "inactive", "broadcast"}
           => stop \in {"running", "inactive", "broadcast"}
        BY <1>6 DEF Deactivate, Broadcast, Join
  <2> QED BY <2>1, <2>2 DEF InQueue, Running
<1>7. CASE Drain BY <1>7 DEF Drain
<1>8. CASE UNCHANGED vars BY <1>8 DEF vars, InQueue, Running
<1> QED BY <1>1, <1>2, <1>3, <1>4, <1>5, <1>6, <1>7, <1>8, NextCases

(* Every submitted task is queued, with a worker or run until pool_free     *)
(* frees the queue (thr-pool.c:59).                                         *)
THEOREM NothingLost == Spec => []NoTaskLost
<1>1. Init => NoTaskLost BY DEF Init, NoTaskLost
<1> QED BY <1>1, InitType, TypeStep, InitOnce, OnceStep, LostStep, PTL DEF Spec

-----------------------------------------------------------------------------
(* Futures.  Two callers never hold the same future, and a worker that is   *)
(* about to publish a result has produced it.                               *)

FutureInv ==
    /\ \A s \in Submitters : job[s] \in submitted \cup refused \cup {NoTask}
    /\ \A r, s \in Submitters : job[r] = job[s] /\ job[r] \in Tasks => r = s
    /\ \A w \in Workers : wpc[w] \in {"ready", "notify"} => runs[cur[w]] = 1
    /\ ResultBeforeFree

LEMMA InitFuture == Init => FutureInv
BY NoTaskAssumption DEF Init, FutureInv, ResultBeforeFree

LEMMA FutureStep == TypeInv /\ OnceInv /\ FutureInv /\ [Next]_vars => FutureInv'
<1> SUFFICES ASSUME TypeInv, OnceInv, FutureInv, [Next]_vars
             PROVE  FutureInv'
    OBVIOUS
<1> USE FuturesAssumption, NoTaskAssumption
        DEF TypeInv, TypeOK, Holds, FutureInv, ResultBeforeFree,
            WorkerGoes, CallerGoes, StopGoes
<1>1. ASSUME NEW w \in Workers,
             \/ Loop(w) \/ Park(w) \/ GiveUp(w) \/ Sleep(w) \/ SpuriousWake(w)
      PROVE  FutureInv'
  BY <1>1 DEF Loop, Park, GiveUp, Sleep, SpuriousWake
<1>2. ASSUME NEW w \in Workers, Take(w) PROVE FutureInv'
  BY <1>2 DEF Take
<1>3. ASSUME NEW w \in Workers, Run(w) PROVE FutureInv'
  <2>1. cur[w] \in Tasks /\ runs[cur[w]] = 0
        BY <1>3 DEF Run, OnceInv, NoTaskTwice, Running
  <2> QED BY <1>3, <2>1 DEF Run
<1>4. ASSUME NEW w \in Workers, SetReady(w) PROVE FutureInv'
  BY <1>4 DEF SetReady
<1>5. ASSUME NEW w \in Workers, Notify(w) PROVE FutureInv'
  BY <1>5 DEF Notify
<1>6. ASSUME NEW s \in Submitters, Signal(s) PROVE FutureInv'
  BY <1>6 DEF Signal, Waiting
<1>7. ASSUME NEW s \in Submitters, Collect(s) PROVE FutureInv'
  BY <1>7 DEF Collect
<1>8. ASSUME NEW s \in Submitters,
             AwaitPark(s) \/ AwaitSleep(s) \/ AwaitSpurious(s) \/ Await(s)
      PROVE  FutureInv'
  BY <1>8 DEF AwaitPark, AwaitSleep, AwaitSpurious, Await
<1>9. ASSUME NEW s \in Submitters, NEW t \in Tasks, Push(s, t) PROVE FutureInv'
  BY <1>9 DEF Push
<1>12. ASSUME NEW s \in Submitters, NEW t \in Tasks, PushFails(s, t)
       PROVE  FutureInv'
  BY <1>12 DEF PushFails
<1>10. CASE Deactivate \/ Broadcast \/ Drain \/ Join
  BY <1>10 DEF Deactivate, Broadcast, Drain, Join
<1>11. CASE UNCHANGED vars BY <1>11 DEF vars
<1> QED BY <1>1, <1>2, <1>3, <1>4, <1>5, <1>6, <1>7, <1>8, <1>9, <1>10,
           <1>11, <1>12, NextCases

(* await hands out a result, and frees the future, only after working_f has *)
(* produced it (thr-pool.c:122-126, 152-162).                               *)
THEOREM ResultsComplete == Spec => []ResultBeforeFree
<1>1. FutureInv => ResultBeforeFree BY DEF FutureInv
<1> QED BY <1>1, InitType, TypeStep, InitOnce, OnceStep, InitFuture, FutureStep,
           PTL DEF Spec

-----------------------------------------------------------------------------
(* How far pool_free has come, and who sleeps.  Once it has stored is_active*)
(* nobody decides to sleep, and its broadcast wakes all that sleep already. *)

StopInv == active <=> stop = "running"

LEMMA InitStop == Init => StopInv
BY DEF Init, StopInv

LEMMA StopStepInv == TypeInv /\ StopInv /\ [Next]_vars => StopInv'
<1> SUFFICES ASSUME TypeInv, StopInv, [Next]_vars PROVE StopInv' OBVIOUS
<1> USE DEF StopInv, TypeInv, TypeOK, StopGoes
<1>1. CASE Deactivate BY <1>1 DEF Deactivate
<1>2. CASE Broadcast \/ Drain \/ Join BY <1>2 DEF Broadcast, Drain, Join
<1>3. CASE UNCHANGED <<active, stop>> BY <1>3
<1>4. CASE UNCHANGED vars BY <1>4 DEF vars
<1> QED BY <1>1, <1>2, <1>3, <1>4, NextCases
        DEF Loop, Park, GiveUp, Take, Sleep, Run, SetReady, Notify, SpuriousWake,
            Signal, Collect, AwaitPark, AwaitSleep, AwaitSpurious, Await, Push,
            PushFails

LEMMA MissedStep ==
    TypeInv /\ AwakeInv /\ StopInv /\ OneMissed /\ [Next]_vars => OneMissed'
<1> SUFFICES ASSUME TypeInv, AwakeInv, StopInv, OneMissed, [Next]_vars
             PROVE  OneMissed'
    OBVIOUS
<1> USE DEF TypeInv, TypeOK, OneMissed, Asleep, StopInv,
            WorkerGoes, CallerGoes, StopGoes
(* Steps after which a worker is asleep only if it was before. *)
<1> DEFINE NoneFallsAsleep == /\ UNCHANGED stop
                              /\ \A w \in Workers : Asleep(w)' => Asleep(w)
<1>a. NoneFallsAsleep => OneMissed' OBVIOUS
<1>1. ASSUME NEW w \in Workers,
             \/ Loop(w) \/ GiveUp(w) \/ Take(w) \/ Sleep(w) \/ Run(w)
             \/ SetReady(w) \/ Notify(w) \/ SpuriousWake(w)
      PROVE  NoneFallsAsleep
  BY <1>1 DEF Loop, GiveUp, Take, Sleep, Run, SetReady, Notify, SpuriousWake
<1>2. ASSUME NEW w \in Workers, Park(w) PROVE OneMissed'
  <2>1. stop = "running" /\ stop' = stop BY <1>2 DEF Park
  <2> QED BY <2>1
<1>3. ASSUME NEW s \in Submitters, Signal(s) PROVE NoneFallsAsleep
  BY <1>3 DEF Signal, Waiting
<1>4. ASSUME NEW s \in Submitters,
             \/ Collect(s) \/ AwaitPark(s) \/ AwaitSleep(s)
             \/ AwaitSpurious(s) \/ Await(s)
             \/ \E t \in Tasks : Push(s, t) \/ PushFails(s, t)
      PROVE  NoneFallsAsleep
  BY <1>4 DEF Collect, AwaitPark, AwaitSleep, AwaitSpurious, Await, Push,
              PushFails
<1>5. CASE Deactivate BY <1>5 DEF Deactivate
<1>6. CASE Broadcast
  <2>1. \A w \in Workers : Asleep(w)' => wpc[w] = "parking"
        BY <1>6 DEF Broadcast
  <2> QED BY <2>1 DEF AwakeInv, MutexInv
<1>7. CASE Drain \/ Join
  <2>1. /\ UNCHANGED wpc
        /\ stop \in {"broadcast", "drained"}
        BY <1>7 DEF Drain, Join
  <2> QED BY <2>1
<1>8. CASE UNCHANGED vars BY <1>8, <1>a DEF vars
<1> QED BY <1>a, <1>1, <1>2, <1>3, <1>4, <1>5, <1>6, <1>7, <1>8, NextCases

(* pool_free's broadcast misses one worker at most, the one that holds the  *)
(* mutex between its test and its sleep (thr-pool.c:57-58, 103-105), for    *)
(* any number of workers and whatever is submitted meanwhile.               *)
THEOREM OneSleeperMissed == Spec => []OneMissed
<1>1. Init => OneMissed BY DEF Init, OneMissed
<1> QED BY <1>1, InitType, TypeStep, InitAwake, AwakeStep, InitStop, StopStepInv,
           MissedStep, PTL DEF Spec

-----------------------------------------------------------------------------
(* The pool implements TaskService.  StopInv tells the refinement where the *)
(* pool is in pool_free when it frees the queue.                            *)

StageMap == [t \in Tasks |-> Stage(t)]

(* A step that keeps the stage of every task keeps the mapped state.        *)
LEMMA StageStutter ==
    ASSUME UNCHANGED <<submitted, runs>>,
           \A t \in Tasks : InQueue(t)' <=> InQueue(t),
           \A t \in Tasks, w \in Workers : Running(w, t)' <=> Running(w, t)
    PROVE  StageMap' = StageMap
<1>1. ASSUME NEW t \in Tasks PROVE Stage(t)' = Stage(t)
      BY DEF Stage
<1> QED BY <1>1 DEF StageMap

(* A step that moves one task and keeps the others is an EXCEPT.            *)
LEMMA StageExcept ==
    ASSUME NEW t \in Tasks, NEW s, Stage(t)' = s,
           \A x \in Tasks : x # t => Stage(x)' = Stage(x)
    PROVE  StageMap' = [StageMap EXCEPT ![t] = s]
BY DEF StageMap

LEMMA ServiceInit == Init => Service!Init
<1> SUFFICES ASSUME Init PROVE Service!Init OBVIOUS
<1>1. \A t \in Tasks : Stage(t) = "new" BY DEF Init, Stage
<1> QED BY <1>1 DEF Init, Service!Init

LEMMA ServiceStep ==
    TypeInv /\ OnceInv /\ NoTaskLost /\ StopInv /\ [Next]_vars
        => [Service!Next]_(Service!vars)
<1> SUFFICES ASSUME TypeInv, OnceInv, NoTaskLost, StopInv, [Next]_vars
             PROVE  [Service!Next]_(Service!vars)
    OBVIOUS
<1> USE DEF TypeInv, TypeOK, Holds, WorkerGoes, CallerGoes, StopGoes
<1> DEFINE Stutter == UNCHANGED <<StageMap, active>>
<1>a. Stutter => [Service!Next]_(Service!vars)
      BY DEF Service!vars, StageMap
<1>1. ASSUME NEW w \in Workers,
             \/ Loop(w) \/ Park(w) \/ GiveUp(w) \/ Sleep(w) \/ SetReady(w)
             \/ Notify(w) \/ SpuriousWake(w)
      PROVE  Stutter
  <2>1. /\ UNCHANGED <<q, active, cur, runs, submitted>>
        /\ \A v \in Workers : wpc'[v] = "run" <=> wpc[v] = "run"
        BY <1>1 DEF Loop, Park, GiveUp, Sleep, SetReady, Notify, SpuriousWake
  <2> QED BY <2>1, StageStutter DEF InQueue, Running
<1>2. ASSUME NEW w \in Workers, Take(w) PROVE Service!Next
  <2> PICK h : h = Head(q) OBVIOUS
  <2>1. h \in Tasks BY <1>2 DEF Take
  <2>2. /\ \A t : InQueue(t)' <=> InQueue(t) /\ t # h
        /\ InQueue(h)
        BY <1>2, QueueTail DEF Take, OnceInv, NoTaskTwice
  <2>3. \A v \in Workers, t \in Tasks :
           Running(v, t)' <=> Running(v, t) \/ (v = w /\ t = h)
        BY <1>2 DEF Take, Running
  <2>4. UNCHANGED <<active, runs, submitted>> BY <1>2 DEF Take
  <2>5. runs[h] = 0 /\ h \in submitted
        BY <2>1, <2>2 DEF OnceInv, NoTaskTwice, Known
  <2>6. Stage(h) = "queued" BY <2>2, <2>5 DEF Stage
  <2>7. Running(w, h)' /\ ~InQueue(h)' BY <2>1, <2>2, <2>3
  <2>8. Stage(h)' = "running" BY <2>4, <2>5, <2>7 DEF Stage
  <2>9. ASSUME NEW t \in Tasks, t # h PROVE Stage(t)' = Stage(t)
    <3>1. InQueue(t)' <=> InQueue(t) BY <2>2, <2>9
    <3>2. \A v \in Workers : Running(v, t)' <=> Running(v, t) BY <2>3, <2>9
    <3> QED BY <2>4, <3>1, <3>2 DEF Stage
  <2>10. StageMap' = [StageMap EXCEPT ![h] = "running"]
         BY <2>1, <2>8, <2>9, StageExcept
  <2>11. Service!Start(h)
         BY <2>1, <2>4, <2>6, <2>10 DEF Service!Start, Service!Advance, StageMap
  <2> QED BY <2>1, <2>11 DEF Service!Next
<1>3. ASSUME NEW w \in Workers, Run(w) PROVE Service!Next
  <2> PICK c : c = cur[w] OBVIOUS
  <2>1. /\ c \in Tasks /\ Running(w, c) /\ runs[c] = 0 /\ c \in submitted
        /\ ~InQueue(c)
        BY <1>3 DEF Run, Running, OnceInv, NoTaskTwice, Known
  <2>2. \A v \in Workers, t \in Tasks :
           t # c => (Running(v, t)' <=> Running(v, t))
        BY <1>3 DEF Run, Running
  <2>3. runs' = [runs EXCEPT ![c] = 1] BY <1>3, <2>1 DEF Run
  <2>4. UNCHANGED <<q, active, submitted>> BY <1>3 DEF Run
  <2>5. Stage(c) = "running" BY <2>1 DEF Stage
  <2>6. Stage(c)' = "done" BY <2>1, <2>3, <2>4 DEF Stage
  <2>7. ASSUME NEW t \in Tasks, t # c PROVE Stage(t)' = Stage(t)
    <3>1. runs'[t] = runs[t] BY <2>3, <2>7
    <3>2. \A v \in Workers : Running(v, t)' <=> Running(v, t) BY <2>2, <2>7
    <3>3. InQueue(t)' <=> InQueue(t) BY <2>4 DEF InQueue
    <3> QED BY <2>4, <3>1, <3>2, <3>3 DEF Stage
  <2>8. StageMap' = [StageMap EXCEPT ![c] = "done"]
        BY <2>1, <2>6, <2>7, StageExcept
  <2>9. Service!Finish(c)
        BY <2>1, <2>4, <2>5, <2>8 DEF Service!Finish, Service!Advance, StageMap
  <2> QED BY <2>1, <2>9 DEF Service!Next
<1>4. ASSUME NEW s \in Submitters,
             \/ Signal(s) \/ Collect(s) \/ AwaitPark(s) \/ AwaitSleep(s)
             \/ AwaitSpurious(s) \/ Await(s)
             \/ \E t \in Tasks : PushFails(s, t)
      PROVE  Stutter
  <2>1. UNCHANGED <<q, active, cur, runs, submitted>>
        BY <1>4 DEF Signal, Collect, AwaitPark, AwaitSleep, AwaitSpurious, Await,
                    PushFails
  <2>2. \A v \in Workers : wpc'[v] = "run" <=> wpc[v] = "run"
    <3>1. CASE Signal(s) BY <3>1 DEF Signal, Waiting
    <3>2. CASE UNCHANGED wpc BY <3>2
    <3> QED BY <1>4, <3>1, <3>2
            DEF Collect, AwaitPark, AwaitSleep, AwaitSpurious, Await, PushFails
  <2> QED BY <2>1, <2>2, StageStutter DEF InQueue, Running
<1>5. ASSUME NEW s \in Submitters, NEW t \in Tasks, Push(s, t)
      PROVE  Service!Next
  <2>1. /\ UNCHANGED <<active, wpc, cur, runs>>
        /\ submitted' = submitted \cup {t}
        /\ t \notin submitted
        BY <1>5 DEF Push
  <2>2. \A x : InQueue(x)' <=> InQueue(x) \/ x = t
        BY <1>5, QueueAppend DEF Push
  <2>3. \A v \in Workers, x \in Tasks : Running(v, x)' <=> Running(v, x)
        BY <2>1 DEF Running
  <2>4. runs[t] = 0 BY <2>1 DEF OnceInv, Known, NoTaskTwice
  <2>5. Stage(t) = "new" BY <2>1 DEF Stage
  <2>6. Stage(t)' = "queued" BY <2>1, <2>2, <2>4 DEF Stage
  <2>7. ASSUME NEW x \in Tasks, x # t PROVE Stage(x)' = Stage(x)
        BY <2>1, <2>2, <2>3, <2>7 DEF Stage
  <2>8. StageMap' = [StageMap EXCEPT ![t] = "queued"]
        BY <2>6, <2>7, StageExcept
  <2>9. Service!Submit(t)
        BY <2>1, <2>5, <2>8 DEF Service!Submit, Service!Advance, StageMap
  <2> QED BY <2>9 DEF Service!Next
<1>6. CASE Deactivate
  <2>1. UNCHANGED <<q, wpc, cur, runs, submitted>> /\ active' = FALSE
        BY <1>6 DEF Deactivate
  <2>2. StageMap' = StageMap BY <2>1, StageStutter DEF InQueue, Running
  <2>3. Service!Close BY <2>1, <2>2 DEF Service!Close, StageMap
  <2> QED BY <2>3 DEF Service!Next
<1>7. CASE Broadcast \/ Join
  <2>1. /\ UNCHANGED <<q, active, cur, runs, submitted>>
        /\ \A v \in Workers : wpc'[v] = "run" <=> wpc[v] = "run"
        BY <1>7 DEF Broadcast, Join
  <2>2. Stutter BY <2>1, StageStutter DEF InQueue, Running
  <2> QED BY <2>2, <1>a
<1>8. CASE Drain
  <2>1. /\ UNCHANGED <<active, wpc, cur, runs, submitted>>
        /\ q' = <<>> /\ stop = "broadcast"
        BY <1>8 DEF Drain
  <2>2. ~active BY <2>1 DEF StopInv
  <2>3. ASSUME NEW t \in Tasks
        PROVE  Stage(t)' = IF Stage(t) = "queued" THEN "discarded" ELSE Stage(t)
    <3>1. ~InQueue(t)' BY <2>1 DEF InQueue
    <3>2. \A w \in Workers : Running(w, t)' <=> Running(w, t)
          BY <2>1 DEF Running
    <3>3. InQueue(t) => \A w \in Workers : ~Running(w, t)
          BY DEF OnceInv, NoTaskTwice
    <3> QED BY <2>1, <3>1, <3>2, <3>3 DEF Stage
  <2>4. Service!Discard
        BY <2>1, <2>2, <2>3 DEF Service!Discard, StageMap
  <2> QED BY <2>4 DEF Service!Next
<1>9. CASE UNCHANGED vars
  BY <1>9, <1>a, StageStutter DEF vars, InQueue, Running
<1> QED BY <1>a, <1>1, <1>2, <1>3, <1>4, <1>5, <1>6, <1>7, <1>8, <1>9, NextCases

(* The pool keeps TaskService's promise for any number of threads and tasks:*)
(* a task waits, starts once and finishes, and only a stopped pool discards *)
(* tasks (thr-pool.c:56-143).                                               *)
THEOREM Implements == Spec => ImplementsTaskService
<1>1. Init => NoTaskLost BY DEF Init, NoTaskLost
<1> QED BY <1>1, InitType, TypeStep, InitOnce, OnceStep, LostStep, InitStop,
           StopStepInv, ServiceInit, ServiceStep, PTL
        DEF Spec, ImplementsTaskService, Service!Spec
=============================================================================
