----------------------------- MODULE ThreadPool -----------------------------
(***************************************************************************)
(* ThreadPool: a mutex, two condition variables and a bounded deque.  Every *)
(* access to the queue and to stop_ is made under mu_, so one action is one *)
(* critical section; a thread inside wait() is "asleep" until a notify or a *)
(* spurious wake-up makes it "awake", and then evaluates its predicate      *)
(* again.  The notify_all calls of stop() come after the unlock.            *)
(***************************************************************************)
EXTENDS Naturals, Sequences, FiniteSets

CONSTANTS
    Tasks, Workers,
    Producers,      \* threads that call submit()
    Stoppers,       \* threads that call stop(), stop_no_drain() or ~ThreadPool
    MaxQueueDepth,
    NoTask

ASSUME MaxQueueDepthAssumption == MaxQueueDepth \in Nat \ {0}
ASSUME WorkersFinite == IsFiniteSet(Workers)
ASSUME SomeWorker == Workers # {}  \* the constructor turns worker_count 0 into 1
ASSUME ProducersFinite == IsFiniteSet(Producers)
ASSUME NoTaskIsNoTask == NoTask \notin Tasks

VARIABLES
    reject_on_full, \* opts_.reject_on_full, chosen at construction
    queue,          \* queue_
    stop,           \* stop_
    drain_on_stop,  \* drain_on_stop_
    worker,         \* worker[w]: where w is in worker_main
    running,        \* running[w]: the task w executes
    producer,       \* producer[p]: where p is in submit()
    offered,        \* offered[p]: the task p submits
    stopper,        \* stopper[s]: where s is in stop()/stop_no_drain()
    result,         \* result[t]: what submit(t) returned
    ran,            \* ran[t]: how often t was executed
    discarded       \* tasks cleared by stop_no_drain()

vars == <<reject_on_full, queue, stop, drain_on_stop, worker, running, producer,
          offered, stopper, result, ran, discarded>>

WorkerPlaces == {"awake", "asleep", "run", "exited"}
ProducerPlaces == {"out", "awake", "asleep"}
StopperPlaces == {"out", "notify_empty", "notify_full", "join", "joined", "returned"}

Init ==
    /\ reject_on_full \in BOOLEAN
    /\ queue = <<>>
    /\ stop = FALSE
    /\ drain_on_stop = TRUE
    /\ worker = [w \in Workers |-> "awake"]
    /\ running = [w \in Workers |-> NoTask]
    /\ producer = [p \in Producers |-> "out"]
    /\ offered = [p \in Producers |-> NoTask]
    /\ stopper = [s \in Stoppers |-> "out"]
    /\ result = [t \in Tasks |-> "none"]
    /\ ran = [t \in Tasks |-> 0]
    /\ discarded = {}

Asleep(place) == {x \in DOMAIN place : place[x] = "asleep"}

FullOffByOne == Len(queue) > MaxQueueDepth

Full == Len(queue) >= MaxQueueDepth

(* place' is place after notify_one: some sleeper, if there is one, wakes. *)
NotifyOne(place, place2) ==
    \/ Asleep(place) = {} /\ place2 = place
    \/ \E x \in Asleep(place) : place2 = [place EXCEPT ![x] = "awake"]

NotifyAll(place) ==
    [x \in DOMAIN place |-> IF place[x] = "asleep" THEN "awake" ELSE place[x]]

-----------------------------------------------------------------------------
(* submit() *)

(* The caller enters with a task of its own. *)
SubmitCall(p, t) ==
    /\ producer[p] = "out"
    /\ result[t] = "none"
    /\ producer' = [producer EXCEPT ![p] = "awake"]
    /\ offered' = [offered EXCEPT ![p] = t]
    /\ result' = [result EXCEPT ![t] = "calling"]
    /\ UNCHANGED <<reject_on_full, queue, stop, drain_on_stop, worker, running,
                   stopper, ran, discarded>>

SubmitReturn(p, value) ==
    /\ result' = [result EXCEPT ![offered[p]] = value]
    /\ offered' = [offered EXCEPT ![p] = NoTask]

(* return false: stop_ is set, or reject_on_full and the queue is full. *)
Refuses == stop \/ (reject_on_full /\ Full)

SubmitRefused(p) ==
    /\ producer[p] = "awake"
    /\ Refuses
    /\ SubmitReturn(p, "refused")
    /\ producer' = [producer EXCEPT ![p] = "out"]
    /\ UNCHANGED <<reject_on_full, queue, stop, drain_on_stop, worker, running,
                   stopper, ran, discarded>>

(* not_full_.wait(): the queue is full and stop_ is not set. *)
SubmitWaits(p) ==
    /\ producer[p] = "awake"
    /\ ~Refuses
    /\ Full
    /\ producer' = [producer EXCEPT ![p] = "asleep"]
    /\ UNCHANGED <<reject_on_full, queue, stop, drain_on_stop, worker, running,
                   offered, stopper, result, ran, discarded>>

NotifyOnlyFromEmpty(place, place2) ==
    IF queue = <<>> THEN NotifyOne(place, place2) ELSE place2 = place

NotifyNotEmpty(place, place2) == NotifyOne(place, place2)

(* queue_.emplace_back(); not_empty_.notify_one(); return true *)
SubmitAccepted(p) ==
    /\ producer[p] = "awake"
    /\ ~Refuses
    /\ ~Full
    /\ queue' = Append(queue, offered[p])
    /\ NotifyNotEmpty(worker, worker')
    /\ SubmitReturn(p, "accepted")
    /\ producer' = [producer EXCEPT ![p] = "out"]
    /\ UNCHANGED <<reject_on_full, stop, drain_on_stop, running, stopper, ran,
                   discarded>>

-----------------------------------------------------------------------------
(* worker_main() *)

WorkerWaits(w) ==
    /\ worker[w] = "awake"
    /\ queue = <<>>
    /\ ~stop
    /\ worker' = [worker EXCEPT ![w] = "asleep"]
    /\ UNCHANGED <<reject_on_full, queue, stop, drain_on_stop, running, producer,
                   offered, stopper, result, ran, discarded>>

NotifyNobody(place, place2) == place2 = place

NotifyNotFull(place, place2) == NotifyOne(place, place2)

WorkerTakesWithoutPop(w) ==
    /\ worker[w] = "awake"
    /\ queue # <<>>
    /\ running' = [running EXCEPT ![w] = Head(queue)]
    /\ worker' = [worker EXCEPT ![w] = "run"]
    /\ UNCHANGED <<reject_on_full, queue, stop, drain_on_stop, producer, offered,
                   stopper, result, ran, discarded>>

(* The front task is popped; not_full_.notify_one(). *)
WorkerTakes(w) ==
    /\ worker[w] = "awake"
    /\ queue # <<>>
    /\ queue' = Tail(queue)
    /\ running' = [running EXCEPT ![w] = Head(queue)]
    /\ worker' = [worker EXCEPT ![w] = "run"]
    /\ NotifyNotFull(producer, producer')
    /\ UNCHANGED <<reject_on_full, stop, drain_on_stop, offered, stopper, result,
                   ran, discarded>>

(* task() returns or throws; either way the loop goes on. *)
WorkerRuns(w) ==
    /\ worker[w] = "run"
    /\ ran' = [ran EXCEPT ![running[w]] = @ + 1]
    /\ running' = [running EXCEPT ![w] = NoTask]
    /\ worker' = [worker EXCEPT ![w] = "awake"]
    /\ UNCHANGED <<reject_on_full, queue, stop, drain_on_stop, producer, offered,
                   stopper, result, discarded>>

WorkerMayExitEarly == stop

(* The queue is empty and stop_ is set: return, whatever drain_on_stop_ says. *)
WorkerMayExit == queue = <<>> /\ stop

WorkerExits(w) ==
    /\ worker[w] = "awake"
    /\ WorkerMayExit
    /\ worker' = [worker EXCEPT ![w] = "exited"]
    /\ UNCHANGED <<reject_on_full, queue, stop, drain_on_stop, running, producer,
                   offered, stopper, result, ran, discarded>>

-----------------------------------------------------------------------------
(* stop(), stop_no_drain() and the destructor *)

(* A second caller returns at once. *)
StopAgain(s) ==
    /\ stopper[s] = "out"
    /\ stop
    /\ stopper' = [stopper EXCEPT ![s] = "returned"]
    /\ UNCHANGED <<reject_on_full, queue, stop, drain_on_stop, worker, running,
                   producer, offered, result, ran, discarded>>

StopBegins(s) ==
    /\ stopper[s] = "out"
    /\ ~stop
    /\ stop' = TRUE
    /\ drain_on_stop' = TRUE
    /\ stopper' = [stopper EXCEPT ![s] = "notify_empty"]
    /\ UNCHANGED <<reject_on_full, queue, worker, running, producer, offered,
                   result, ran, discarded>>

StopNoDrainBegins(s) ==
    /\ stopper[s] = "out"
    /\ ~stop
    /\ stop' = TRUE
    /\ drain_on_stop' = FALSE
    /\ discarded' = {queue[i] : i \in DOMAIN queue}
    /\ queue' = <<>>
    /\ stopper' = [stopper EXCEPT ![s] = "notify_empty"]
    /\ UNCHANGED <<reject_on_full, worker, running, producer, offered, result, ran>>

WakeNobody(place) == place

WakeWorkers(place) == NotifyAll(place)

StopNotifiesWorkers(s) ==
    /\ stopper[s] = "notify_empty"
    /\ worker' = WakeWorkers(worker)
    /\ stopper' = [stopper EXCEPT ![s] = "notify_full"]
    /\ UNCHANGED <<reject_on_full, queue, stop, drain_on_stop, running, producer,
                   offered, result, ran, discarded>>

WakeProducers(place) == NotifyAll(place)

StopNotifiesProducers(s) ==
    /\ stopper[s] = "notify_full"
    /\ producer' = WakeProducers(producer)
    /\ stopper' = [stopper EXCEPT ![s] = "join"]
    /\ UNCHANGED <<reject_on_full, queue, stop, drain_on_stop, worker, running,
                   offered, result, ran, discarded>>

StopJoins(s) ==
    /\ stopper[s] = "join"
    /\ \A w \in Workers : worker[w] = "exited"
    /\ stopper' = [stopper EXCEPT ![s] = "joined"]
    /\ UNCHANGED <<reject_on_full, queue, stop, drain_on_stop, worker, running,
                   producer, offered, result, ran, discarded>>

-----------------------------------------------------------------------------
(* wait() may return without a notify. *)
SpuriousWake ==
    /\ \/ /\ \E w \in Asleep(worker) : worker' = [worker EXCEPT ![w] = "awake"]
          /\ UNCHANGED producer
       \/ /\ \E p \in Asleep(producer) : producer' = [producer EXCEPT ![p] = "awake"]
          /\ UNCHANGED worker
    /\ UNCHANGED <<reject_on_full, queue, stop, drain_on_stop, running, offered,
                   stopper, result, ran, discarded>>

ProducerStep(p) == SubmitRefused(p) \/ SubmitWaits(p) \/ SubmitAccepted(p)
WorkerStep(w) == WorkerWaits(w) \/ WorkerTakes(w) \/ WorkerRuns(w) \/ WorkerExits(w)
StopperStep(s) == StopNotifiesWorkers(s) \/ StopNotifiesProducers(s) \/ StopJoins(s)

(* No call is in progress and the workers wait for work or are gone. *)
Quiet ==
    /\ \A p \in Producers : producer[p] = "out"
    /\ \A s \in Stoppers : stopper[s] \in {"out", "joined", "returned"}
    /\ \A w \in Workers : worker[w] \in {"asleep", "exited"}
    /\ UNCHANGED vars

Next ==
    \/ \E p \in Producers, t \in Tasks : SubmitCall(p, t)
    \/ \E p \in Producers : ProducerStep(p)
    \/ \E w \in Workers : WorkerStep(w)
    \/ \E s \in Stoppers : StopBegins(s) \/ StopNoDrainBegins(s) \/ StopAgain(s) \/ StopperStep(s)
    \/ SpuriousWake
    \/ Quiet

Spec == Init /\ [][Next]_vars

(* The scheduler runs every thread that can run; nobody has to call submit()
   or stop(), and no spurious wake-up has to happen. *)
Fairness ==
    /\ \A p \in Producers : WF_vars(ProducerStep(p))
    /\ \A w \in Workers : WF_vars(WorkerStep(w))
    /\ \A s \in Stoppers : WF_vars(StopperStep(s))

FairSpec == Spec /\ Fairness

-----------------------------------------------------------------------------
(* Properties. *)

(* Type invariant; the queue never exceeds max_queue_depth. *)
TypeOK ==
    /\ reject_on_full \in BOOLEAN
    /\ queue \in Seq(Tasks)
    /\ Len(queue) <= MaxQueueDepth
    /\ stop \in BOOLEAN
    /\ drain_on_stop \in BOOLEAN
    /\ worker \in [Workers -> WorkerPlaces]
    /\ running \in [Workers -> Tasks \cup {NoTask}]
    /\ producer \in [Producers -> ProducerPlaces]
    /\ offered \in [Producers -> Tasks \cup {NoTask}]
    /\ stopper \in [Stoppers -> StopperPlaces]
    /\ result \in [Tasks -> {"none", "calling", "accepted", "refused"}]
    /\ ran \in [Tasks -> Nat]
    /\ discarded \in SUBSET Tasks

(* A task whose submit() returned true is in exactly one place: queued,
   running, executed once, or discarded by stop_no_drain(); any other task is
   in none of them. *)
ExactlyOnce ==
    \A t \in Tasks :
        Cardinality({i \in DOMAIN queue : queue[i] = t})
          + Cardinality({w \in Workers : running[w] = t})
          + ran[t]
          + (IF t \in discarded THEN 1 ELSE 0)
        = (IF result[t] = "accepted" THEN 1 ELSE 0)

(* No lost wake-up on not_empty_: while a worker sleeps, there is for every
   queued task a worker that is awake and will look at the queue; and a worker
   still asleep after stop_ was set has the notify_all yet to come. *)
WakeupsCoverQueue ==
    Asleep(worker) # {} =>
        /\ Len(queue) <= Cardinality({w \in Workers : worker[w] = "awake"})
        /\ stop => \E s \in Stoppers : stopper[s] = "notify_empty"

(* No lost wake-up on not_full_: while a submitter sleeps, there is for every
   free slot a submitter that is awake, or, after a stop, the notify_all is
   yet to come. *)
WakeupsCoverSpace ==
    Asleep(producer) # {} =>
        IF stop
        THEN \E s \in Stoppers : stopper[s] \in {"notify_empty", "notify_full"}
        ELSE MaxQueueDepth - Len(queue) <= Cardinality({p \in Producers : producer[p] = "awake"})

(* When the stop() that did the joining returns, every accepted task has been
   executed once, except those stop_no_drain() threw away. *)
JoinedMeansDrained ==
    \A s \in Stoppers : stopper[s] = "joined" =>
        /\ \A t \in Tasks : result[t] = "accepted" => ran[t] = 1 \/ t \in discarded
        /\ drain_on_stop => discarded = {}

(* Nobody waits on everybody: while a submit() is blocked on a full queue, or a
   stop() on its joins, some thread is awake inside the pool, runs a task or is yet
   to notify. *)
NoStandstill ==
    \/ Asleep(producer) # {}
    \/ \E s \in Stoppers : stopper[s] = "join" /\ \E w \in Workers : worker[w] # "exited"
    =>
    \/ \E p \in Producers : producer[p] = "awake"
    \/ \E w \in Workers : worker[w] \in {"awake", "run"}
    \/ \E s \in Stoppers : stopper[s] \in {"notify_empty", "notify_full"}

(* thread_pool.h:46, "drain the queue, join workers": when stop() returns, the
   workers have been joined. *)
StopReturnsAfterJoin ==
    \A s \in Stoppers : stopper[s] \in {"joined", "returned"} =>
        \A w \in Workers : worker[w] = "exited"

(* A stop() that got past its first check returns: no worker sleeps through
   the notify_all and none is stuck behind a full or an empty queue. *)
StopReturns ==
    \A s \in Stoppers : stopper[s] = "notify_empty" ~> stopper[s] = "joined"

(* A submit() blocked on a full queue returns. *)
SubmitReturns ==
    \A p \in Producers : producer[p] = "asleep" ~> producer[p] = "out"

(* An accepted task is executed or was discarded by stop_no_drain(). *)
AcceptedTaskRuns ==
    \A t \in Tasks : result[t] = "accepted" ~> ran[t] = 1 \/ t \in discarded

Abstract == INSTANCE TaskPool WITH
    stopped <- stop,
    exited <- {w \in Workers : worker[w] = "exited"}

(* Seen from outside, the lock, the condition variables and the wake-ups are
   invisible: the pool behaves as TaskPool, the pool Router is built on. *)
ThreadPoolImplementsTaskPool == Abstract!PoolSpec
=============================================================================
