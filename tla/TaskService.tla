---------------------------- MODULE TaskService ----------------------------
(***************************************************************************)
(* What a caller of the task pool (pool_sumbit, async_create) is promised: *)
(* a submitted task waits, is started once and finishes; only a pool that  *)
(* has been closed may discard tasks that were still waiting.              *)
(***************************************************************************)

CONSTANT Tasks

VARIABLES
    status,     \* the stage each task has reached
    open        \* FALSE once the pool has been told to stop

vars == <<status, open>>

Stages == {"new", "queued", "running", "done", "discarded"}

Init == /\ status = [t \in Tasks |-> "new"]
        /\ open = TRUE

(* A task moves from one stage to the next. *)
Advance(t, from, to) == /\ status[t] = from
                        /\ status' = [status EXCEPT ![t] = to]
                        /\ UNCHANGED open

Submit(t) == Advance(t, "new", "queued")
Start(t)  == Advance(t, "queued", "running")
Finish(t) == Advance(t, "running", "done")

Close == /\ open' = FALSE
         /\ UNCHANGED status

(* The queue of a closed pool is emptied: everything that waits is gone. *)
Discard ==
    /\ ~open
    /\ status' = [t \in Tasks |->
                    IF status[t] = "queued" THEN "discarded" ELSE status[t]]
    /\ UNCHANGED open

Next == \/ \E t \in Tasks : Submit(t) \/ Start(t) \/ Finish(t)
        \/ Close
        \/ Discard

Spec == Init /\ [][Next]_vars
=============================================================================
