------------------------------ MODULE TaskPool ------------------------------
(***************************************************************************)
(* What ThreadPool promises to its callers, without locks and condition    *)
(* variables: a bounded FIFO of tasks, each accepted task handed to one    *)
(* worker, workers that leave only after a stop and only when the queue is *)
(* empty.  ThreadPool (the detailed module) is shown to implement it, and  *)
(* Router builds the whole process on it.                                  *)
(***************************************************************************)
EXTENDS Naturals, Sequences

CONSTANTS
    Tasks,          \* what can be submitted
    Workers,        \* worker_count threads
    MaxQueueDepth,  \* Options::max_queue_depth
    NoTask          \* "this worker is not inside task()"

VARIABLES
    queue,    \* queue_
    stopped,  \* stop_
    running,  \* running[w]: the task worker w is executing
    exited    \* workers whose worker_main has returned

poolVars == <<queue, stopped, running, exited>>

PoolInit ==
    /\ queue = <<>>
    /\ stopped = FALSE
    /\ running = [w \in Workers |-> NoTask]
    /\ exited = {}

Full == Len(queue) >= MaxQueueDepth

(* submit() returns true: the task is queued. *)
Submit(t) ==
    /\ ~stopped
    /\ ~Full
    /\ queue' = Append(queue, t)
    /\ UNCHANGED <<stopped, running, exited>>

(* A worker pops the front task. *)
Take(w) ==
    /\ w \notin exited
    /\ running[w] = NoTask
    /\ queue # <<>>
    /\ queue' = Tail(queue)
    /\ running' = [running EXCEPT ![w] = Head(queue)]
    /\ UNCHANGED <<stopped, exited>>

(* task() returns, normally or by an exception. *)
Finish(w) ==
    /\ running[w] # NoTask
    /\ running' = [running EXCEPT ![w] = NoTask]
    /\ UNCHANGED <<queue, stopped, exited>>

(* A worker leaves worker_main. *)
WorkerExit(w) ==
    /\ w \notin exited
    /\ running[w] = NoTask
    /\ stopped
    /\ queue = <<>>
    /\ exited' = exited \cup {w}
    /\ UNCHANGED <<queue, stopped, running>>

(* The locked part of stop(). *)
Stop ==
    /\ ~stopped
    /\ stopped' = TRUE
    /\ UNCHANGED <<queue, running, exited>>

(* The locked part of stop_no_drain(). *)
StopNoDrain ==
    /\ ~stopped
    /\ stopped' = TRUE
    /\ queue' = <<>>
    /\ UNCHANGED <<running, exited>>

PoolNext ==
    \/ \E t \in Tasks : Submit(t)
    \/ \E w \in Workers : Take(w) \/ Finish(w) \/ WorkerExit(w)
    \/ Stop
    \/ StopNoDrain

PoolSpec == PoolInit /\ [][PoolNext]_poolVars
=============================================================================
