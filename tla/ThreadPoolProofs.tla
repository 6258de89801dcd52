-------------------------- MODULE ThreadPoolProofs --------------------------
(***************************************************************************)
(* Proofs about ThreadPool, for any number of tasks, workers, submitters    *)
(* and stoppers and any queue depth.                                        *)
(***************************************************************************)
EXTENDS ThreadPool, FiniteSetTheorems, TLAPS

(* A worker runs a task exactly when it is at "run". *)
RunInv == \A w \in Workers : running[w] \in Tasks <=> worker[w] = "run"

(* A thread inside submit() has a task of its own, not yet accepted. *)
OfferInv ==
    /\ \A p \in Producers : producer[p] # "out" =>
          offered[p] \in Tasks /\ result[offered[p]] = "calling"
    /\ \A p, q \in Producers :
          producer[p] # "out" /\ producer[q] # "out" /\ offered[p] = offered[q] => p = q

Basic == TypeOK /\ RunInv /\ OfferInv

(* What a notify does to the threads waiting. *)
LEMMA NotifyOneEffect ==
    ASSUME NEW S, NEW P, NEW f \in [S -> P], NEW g, NotifyOne(f, g), "awake" \in P
    PROVE  /\ g \in [S -> P]
           /\ \A x \in S : g[x] = f[x] \/ (f[x] = "asleep" /\ g[x] = "awake")
           /\ \/ \A x \in S : f[x] # "asleep" /\ g = f
              \/ \E x \in S : f[x] = "asleep" /\ g = [f EXCEPT ![x] = "awake"]
<1>1. CASE Asleep(f) = {} /\ g = f
  BY <1>1 DEF Asleep
<1>2. ASSUME NEW x \in Asleep(f), g = [f EXCEPT ![x] = "awake"]
      PROVE  /\ g \in [S -> P]
             /\ \A y \in S : g[y] = f[y] \/ (f[y] = "asleep" /\ g[y] = "awake")
             /\ x \in S /\ f[x] = "asleep"
  BY <1>2 DEF Asleep
<1> QED BY <1>1, <1>2 DEF NotifyOne

(* notify_all() wakes exactly the sleepers. *)
LEMMA NotifyAllEffect ==
    ASSUME NEW S, NEW P, NEW f \in [S -> P], "awake" \in P
    PROVE  /\ NotifyAll(f) \in [S -> P]
           /\ \A x \in S : NotifyAll(f)[x] = IF f[x] = "asleep" THEN "awake" ELSE f[x]
BY DEF NotifyAll

-----------------------------------------------------------------------------
(* Types, and what the threads hold. *)

(* The constructor establishes the basic invariant. *)
LEMMA InitBasic == Init => Basic
<1> SUFFICES ASSUME Init PROVE Basic
  OBVIOUS
<1>1. TypeOK
  <2>1. queue \in Seq(Tasks) /\ Len(queue) <= MaxQueueDepth
    BY MaxQueueDepthAssumption DEF Init
  <2> QED BY Zenon, <2>1 DEF Init, TypeOK, WorkerPlaces, ProducerPlaces, StopperPlaces
<1>2. RunInv /\ OfferInv
  BY NoTaskIsNoTask DEF Init, RunInv, OfferInv
<1> QED BY <1>1, <1>2 DEF Basic

(* Every step of submit() keeps the basic invariant. *)
LEMMA SubmitBasic ==
    ASSUME Basic, NEW p \in Producers,
           (\E t \in Tasks : SubmitCall(p, t)) \/ ProducerStep(p)
    PROVE  Basic'
<1> USE DEF Basic
<1>1. ASSUME NEW t \in Tasks, SubmitCall(p, t) PROVE Basic'
  <2>1. TypeOK'
    BY <1>1 DEF SubmitCall, TypeOK, ProducerPlaces
  <2>2. RunInv'
    BY <1>1 DEF SubmitCall, RunInv
  <2>3. OfferInv'
    BY <1>1 DEF SubmitCall, OfferInv, TypeOK
  <2> QED BY <2>1, <2>2, <2>3
<1>2. CASE SubmitRefused(p)
  <2>1. TypeOK'
    BY Zenon, <1>2 DEF SubmitRefused, SubmitReturn, TypeOK, ProducerPlaces
  <2>2. RunInv'
    BY <1>2 DEF SubmitRefused, RunInv
  <2>3. OfferInv'
    BY <1>2 DEF SubmitRefused, SubmitReturn, OfferInv, TypeOK
  <2> QED BY <2>1, <2>2, <2>3
<1>3. CASE SubmitWaits(p)
  <2>1. TypeOK'
    BY <1>3 DEF SubmitWaits, TypeOK, ProducerPlaces
  <2>2. RunInv'
    BY <1>3 DEF SubmitWaits, RunInv
  <2>3. OfferInv'
    BY <1>3 DEF SubmitWaits, OfferInv, TypeOK
  <2> QED BY <2>1, <2>2, <2>3
<1>4. CASE SubmitAccepted(p)
  <2>1. worker' \in [Workers -> WorkerPlaces]
        /\ \A w \in Workers : worker'[w] = worker[w] \/ (worker[w] = "asleep" /\ worker'[w] = "awake")
    <3>1. worker \in [Workers -> WorkerPlaces] /\ NotifyOne(worker, worker') /\ "awake" \in WorkerPlaces
      BY <1>4 DEF SubmitAccepted, NotifyNotEmpty, TypeOK, WorkerPlaces
    <3> QED BY <3>1, NotifyOneEffect
  <2>2. queue' \in Seq(Tasks) /\ Len(queue') <= MaxQueueDepth
    <3>1. offered[p] \in Tasks /\ queue \in Seq(Tasks) /\ ~(Len(queue) >= MaxQueueDepth)
          /\ queue' = Append(queue, offered[p])
      BY <1>4 DEF SubmitAccepted, OfferInv, TypeOK, Full
    <3> QED BY <3>1, MaxQueueDepthAssumption
  <2>3. TypeOK'
    <3>1. producer' \in [Producers -> ProducerPlaces]
          /\ offered' \in [Producers -> Tasks \cup {NoTask}]
          /\ result' \in [Tasks -> {"none", "calling", "accepted", "refused"}]
      BY Zenon, <1>4 DEF SubmitAccepted, SubmitReturn, TypeOK, ProducerPlaces
    <3>2. UNCHANGED <<reject_on_full, stop, drain_on_stop, running, stopper, ran, discarded>>
      BY <1>4 DEF SubmitAccepted
    <3> QED BY <2>1, <2>2, <3>1, <3>2 DEF TypeOK
  <2>4. RunInv'
    BY <1>4, <2>1 DEF SubmitAccepted, RunInv
  <2>5. OfferInv'
    BY <1>4 DEF SubmitAccepted, SubmitReturn, OfferInv, TypeOK
  <2> QED BY <2>3, <2>4, <2>5
<1> QED BY <1>1, <1>2, <1>3, <1>4 DEF ProducerStep

(* Every step of worker_main() keeps the basic invariant. *)
LEMMA WorkerBasic ==
    ASSUME Basic, NEW w \in Workers, WorkerStep(w)
    PROVE  Basic'
<1> USE NoTaskIsNoTask DEF Basic
<1>1. CASE WorkerWaits(w)
  BY <1>1 DEF WorkerWaits, TypeOK, WorkerPlaces, RunInv, OfferInv
<1>2. CASE WorkerTakes(w)
  <2>1. producer' \in [Producers -> ProducerPlaces]
        /\ \A p \in Producers :
              producer'[p] = producer[p] \/ (producer[p] = "asleep" /\ producer'[p] = "awake")
    <3>1. producer \in [Producers -> ProducerPlaces] /\ NotifyOne(producer, producer')
          /\ "awake" \in ProducerPlaces
      BY <1>2 DEF WorkerTakes, NotifyNotFull, TypeOK, ProducerPlaces
    <3> QED BY <3>1, NotifyOneEffect
  <2>2. queue' \in Seq(Tasks) /\ Len(queue') <= MaxQueueDepth /\ Head(queue) \in Tasks
    BY <1>2, MaxQueueDepthAssumption DEF WorkerTakes, TypeOK
  <2>3. TypeOK'
    <3>1. worker' \in [Workers -> WorkerPlaces] /\ running' \in [Workers -> Tasks \cup {NoTask}]
      BY <1>2, <2>2 DEF WorkerTakes, TypeOK, WorkerPlaces
    <3>2. UNCHANGED <<reject_on_full, stop, drain_on_stop, offered, stopper, result, ran, discarded>>
      BY <1>2 DEF WorkerTakes
    <3> QED BY <2>1, <2>2, <3>1, <3>2 DEF TypeOK
  <2>4. RunInv'
    BY <1>2, <2>2 DEF WorkerTakes, RunInv, TypeOK
  <2>5. OfferInv'
    BY <1>2, <2>1 DEF WorkerTakes, OfferInv
  <2> QED BY <2>3, <2>4, <2>5
<1>3. CASE WorkerRuns(w)
  <2>1. TypeOK'
    <3>1. worker' \in [Workers -> WorkerPlaces] /\ running' \in [Workers -> Tasks \cup {NoTask}]
      BY <1>3 DEF WorkerRuns, TypeOK, WorkerPlaces
    <3>3. PICK t \in Tasks : t = running[w]
      BY <1>3 DEF WorkerRuns, RunInv
    <3>4. ran' = [ran EXCEPT ![t] = @ + 1] /\ ran \in [Tasks -> Nat]
      BY <1>3, <3>3 DEF WorkerRuns, TypeOK
    <3>5. ran' \in [Tasks -> Nat]
      BY <3>4
    <3>2. UNCHANGED <<reject_on_full, queue, stop, drain_on_stop, producer, offered, stopper,
                      result, discarded>>
      BY <1>3 DEF WorkerRuns
    <3> QED BY <3>1, <3>2, <3>5 DEF TypeOK
  <2>2. RunInv'
    BY <1>3 DEF WorkerRuns, RunInv, TypeOK
  <2>3. OfferInv'
    BY <1>3 DEF WorkerRuns, OfferInv
  <2> QED BY <2>1, <2>2, <2>3
<1>4. CASE WorkerExits(w)
  BY <1>4 DEF WorkerExits, TypeOK, WorkerPlaces, RunInv, OfferInv
<1> QED BY <1>1, <1>2, <1>3, <1>4 DEF WorkerStep

(* Every step of stop() and stop_no_drain() keeps the basic invariant. *)
LEMMA StopperBasic ==
    ASSUME Basic, NEW s \in Stoppers,
           StopBegins(s) \/ StopNoDrainBegins(s) \/ StopAgain(s) \/ StopperStep(s)
    PROVE  Basic'
<1> USE DEF Basic
<1>1. CASE StopBegins(s)
  BY <1>1 DEF StopBegins, TypeOK, StopperPlaces, RunInv, OfferInv
<1>2. CASE StopNoDrainBegins(s)
  <2>1. discarded' \in SUBSET Tasks /\ queue' \in Seq(Tasks) /\ Len(queue') <= MaxQueueDepth
    BY <1>2, MaxQueueDepthAssumption DEF StopNoDrainBegins, TypeOK
  <2>2. stopper' \in [Stoppers -> StopperPlaces] /\ stop' \in BOOLEAN /\ drain_on_stop' \in BOOLEAN
    BY Zenon, <1>2 DEF StopNoDrainBegins, TypeOK, StopperPlaces
  <2>3. UNCHANGED <<reject_on_full, worker, running, producer, offered, result, ran>>
    BY <1>2 DEF StopNoDrainBegins
  <2> QED BY <2>1, <2>2, <2>3 DEF TypeOK, RunInv, OfferInv
<1>3. CASE StopAgain(s)
  BY <1>3 DEF StopAgain, TypeOK, StopperPlaces, RunInv, OfferInv
<1>4. CASE StopNotifiesWorkers(s)
  <2>1. worker' \in [Workers -> WorkerPlaces]
        /\ \A w \in Workers : worker'[w] = IF worker[w] = "asleep" THEN "awake" ELSE worker[w]
    <3>1. worker \in [Workers -> WorkerPlaces] /\ worker' = NotifyAll(worker) /\ "awake" \in WorkerPlaces
      BY <1>4 DEF StopNotifiesWorkers, WakeWorkers, TypeOK, WorkerPlaces
    <3> QED BY <3>1, NotifyAllEffect
  <2>2. stopper' \in [Stoppers -> StopperPlaces]
        /\ UNCHANGED <<reject_on_full, queue, stop, drain_on_stop, running, producer, offered,
                       result, ran, discarded>>
    BY <1>4 DEF StopNotifiesWorkers, TypeOK, StopperPlaces
  <2>3. TypeOK'
    BY <2>1, <2>2 DEF TypeOK
  <2>4. RunInv' /\ OfferInv'
    BY <2>1, <2>2 DEF RunInv, OfferInv
  <2> QED BY <2>3, <2>4
<1>5. CASE StopNotifiesProducers(s)
  <2>1. producer' \in [Producers -> ProducerPlaces]
        /\ \A p \in Producers : producer'[p] = IF producer[p] = "asleep" THEN "awake" ELSE producer[p]
    <3>1. producer \in [Producers -> ProducerPlaces] /\ producer' = NotifyAll(producer)
          /\ "awake" \in ProducerPlaces
      BY <1>5 DEF StopNotifiesProducers, WakeProducers, TypeOK, ProducerPlaces
    <3> QED BY <3>1, NotifyAllEffect
  <2>2. stopper' \in [Stoppers -> StopperPlaces]
        /\ UNCHANGED <<reject_on_full, queue, stop, drain_on_stop, worker, running, offered,
                       result, ran, discarded>>
    BY <1>5 DEF StopNotifiesProducers, TypeOK, StopperPlaces
  <2>3. TypeOK'
    BY <2>1, <2>2 DEF TypeOK
  <2>4. RunInv' /\ OfferInv'
    BY <2>1, <2>2 DEF RunInv, OfferInv
  <2> QED BY <2>3, <2>4
<1>6. CASE StopJoins(s)
  BY <1>6 DEF StopJoins, TypeOK, StopperPlaces, RunInv, OfferInv
<1> QED BY <1>1, <1>2, <1>3, <1>4, <1>5, <1>6 DEF StopperStep

(* A spurious wake-up keeps the basic invariant. *)
LEMMA SpuriousBasic ==
    ASSUME Basic, SpuriousWake
    PROVE  Basic'
<1> USE DEF Basic
<1>1. ASSUME NEW w \in Workers, worker[w] = "asleep",
             worker' = [worker EXCEPT ![w] = "awake"], UNCHANGED producer
      PROVE  Basic'
  BY <1>1 DEF SpuriousWake, TypeOK, WorkerPlaces, RunInv, OfferInv
<1>2. ASSUME NEW p \in Producers, producer[p] = "asleep",
             producer' = [producer EXCEPT ![p] = "awake"], UNCHANGED worker
      PROVE  Basic'
  BY <1>2 DEF SpuriousWake, TypeOK, ProducerPlaces, RunInv, OfferInv
<1>3. DOMAIN worker = Workers /\ DOMAIN producer = Producers
  BY DEF TypeOK
<1> QED BY <1>1, <1>2, <1>3 DEF SpuriousWake, Asleep

(* So does a step that changes nothing. *)
LEMMA StutterBasic ==
    ASSUME Basic, UNCHANGED vars
    PROVE  Basic'
BY DEF Basic, vars, TypeOK, RunInv, OfferInv

(* The basic invariant is inductive. *)
LEMMA StepBasic == Basic /\ [Next]_vars => Basic'
<1> SUFFICES ASSUME Basic, [Next]_vars PROVE Basic'
  OBVIOUS
<1>1. CASE Quiet \/ UNCHANGED vars
  BY <1>1, StutterBasic DEF Quiet
<1> QED BY <1>1, SubmitBasic, WorkerBasic, StopperBasic, SpuriousBasic DEF Next

-----------------------------------------------------------------------------
(* Where each task is. *)

Fresh(t) == result[t] = "accepted" /\ ran[t] = 0 /\ t \notin discarded

Queued(t) == \E a \in 1..Len(queue) : queue[a] = t
Running(t) == \E w \in Workers : running[w] = t

TaskInv ==
    /\ \A a, b \in 1..Len(queue) : queue[a] = queue[b] => a = b
    /\ \A v, w \in Workers : running[v] = running[w] /\ running[v] \in Tasks => v = w
    /\ \A a \in 1..Len(queue) : Fresh(queue[a])
    /\ \A w \in Workers : running[w] \in Tasks =>
          Fresh(running[w]) /\ \A a \in 1..Len(queue) : queue[a] # running[w]
    /\ \A t \in Tasks : ran[t] \in {0, 1}
    /\ \A t \in Tasks : ran[t] = 1 => result[t] = "accepted" /\ t \notin discarded
    /\ \A t \in discarded : result[t] = "accepted"
    /\ \A t \in Tasks :
          result[t] = "accepted" => Queued(t) \/ Running(t) \/ ran[t] = 1 \/ t \in discarded

(* What a stop leaves behind. *)
StopInv ==
    /\ discarded # {} => stop /\ ~drain_on_stop
    /\ \A w \in Workers : worker[w] = "exited" => stop /\ queue = <<>>
    /\ \A s \in Stoppers : stopper[s] = "joined" => \A w \in Workers : worker[w] = "exited"

(* At the start no task is anywhere and nobody has stopped the pool. *)
LEMMA InitTask == Init => TaskInv /\ StopInv
BY NoTaskIsNoTask DEF Init, TaskInv, StopInv, Fresh, Queued, Running

(* A step that moves no task, and changes no result that matters. *)
LEMMA TasksStay ==
    ASSUME TaskInv, UNCHANGED <<queue, running, ran, discarded>>,
           \A t \in Tasks : result[t] = "accepted" <=> result'[t] = "accepted",
           Basic
    PROVE  TaskInv'
<1>1. \A a \in 1..Len(queue) : queue[a] \in Tasks
  BY DEF Basic, TypeOK
<1>2. discarded \subseteq Tasks
  BY DEF Basic, TypeOK
<1>3. \A t \in Tasks : Fresh(t)' = Fresh(t) /\ Queued(t)' = Queued(t) /\ Running(t)' = Running(t)
  BY DEF Fresh, Queued, Running
<1> QED BY <1>1, <1>2, <1>3 DEF TaskInv

(* push_back() in submit() puts the task in the queue and nowhere else. *)
LEMMA AcceptTask ==
    ASSUME Basic, TaskInv, NEW p \in Producers, SubmitAccepted(p)
    PROVE  TaskInv'
<1>1. PICK n \in Tasks : n = offered[p] /\ result[n] = "calling"
  BY DEF SubmitAccepted, Basic, OfferInv
<1>2. queue \in Seq(Tasks) /\ queue' = Append(queue, n)
      /\ UNCHANGED <<running, ran, discarded>>
      /\ result' = [result EXCEPT ![n] = "accepted"]
  BY <1>1 DEF SubmitAccepted, SubmitReturn, Basic, TypeOK
<1>3. /\ Len(queue) \in Nat /\ Len(queue') = Len(queue) + 1
      /\ \A a \in 1..Len(queue) : queue'[a] = queue[a] /\ queue[a] \in Tasks
      /\ queue'[Len(queue) + 1] = n
  BY <1>2
<1>4. result'[n] = "accepted" /\ \A t \in Tasks : t # n => result'[t] = result[t]
  BY <1>1, <1>2 DEF Basic, TypeOK
<1>5. ran[n] = 0 /\ n \notin discarded
  BY <1>1 DEF TaskInv
<1>6. \A a \in 1..Len(queue) : queue[a] # n
  BY <1>1 DEF TaskInv, Fresh
<1>7. \A w \in Workers : running[w] # n
  BY <1>1 DEF TaskInv, Fresh
<1>8. \A a \in 1..Len(queue') : a \in 1..Len(queue) \/ a = Len(queue) + 1
  BY <1>3
<1>9. \A t \in Tasks : Fresh(t) => Fresh(t)'
  BY <1>2, <1>4 DEF Fresh
<1>10. Fresh(n)'
  BY <1>2, <1>4, <1>5 DEF Fresh
<1>11. \A a, b \in 1..Len(queue') : queue'[a] = queue'[b] => a = b
  BY <1>3, <1>6, <1>8 DEF TaskInv
<1>12. \A a \in 1..Len(queue') : Fresh(queue[a])'
  <2> SUFFICES ASSUME NEW a \in 1..Len(queue'), NEW t \in Tasks, t = queue'[a] PROVE Fresh(t)'
    BY <1>3, <1>8 DEF Fresh
  <2>1. CASE a \in 1..Len(queue)
    <3>1. Fresh(t)
      BY <1>3, <2>1 DEF TaskInv
    <3> QED BY <1>9, <3>1
  <2>2. CASE a = Len(queue) + 1
    BY <1>3, <1>10, <2>2
  <2> QED BY <1>8, <2>1, <2>2
<1>13. \A w \in Workers : running'[w] \in Tasks =>
          Fresh(running[w])' /\ \A a \in 1..Len(queue') : queue'[a] # running'[w]
  <2> SUFFICES ASSUME NEW w \in Workers, running[w] \in Tasks
               PROVE  Fresh(running[w])' /\ \A a \in 1..Len(queue') : queue'[a] # running[w]
    BY <1>2
  <2>1. Fresh(running[w]) /\ \A a \in 1..Len(queue) : queue[a] # running[w]
    BY DEF TaskInv
  <2>2. Fresh(running[w])'
    BY <1>2, <1>4, <2>1 DEF Fresh
  <2>3. \A a \in 1..Len(queue') : queue'[a] # running[w]
    BY <1>3, <1>7, <1>8, <2>1
  <2> QED BY <2>2, <2>3
<1>14. \A t \in Tasks : ran'[t] = 1 => result'[t] = "accepted" /\ t \notin discarded'
  BY <1>2, <1>4 DEF TaskInv
<1>15. \A t \in discarded' : result'[t] = "accepted"
  BY <1>2, <1>4 DEF TaskInv, Basic, TypeOK
<1>16. ASSUME NEW t \in Tasks, result'[t] = "accepted"
       PROVE  Queued(t)' \/ Running(t)' \/ ran'[t] = 1 \/ t \in discarded'
  <2>1. CASE t = n
    <3>1. Len(queue) + 1 \in 1..Len(queue') /\ queue'[Len(queue) + 1] = t
      BY <1>3, <2>1
    <3> QED BY <3>1 DEF Queued
  <2>2. CASE t # n /\ Queued(t)
    <3>1. PICK a \in 1..Len(queue) : queue[a] = t
      BY <2>2 DEF Queued
    <3>2. a \in 1..Len(queue') /\ queue'[a] = t
      BY <1>3, <3>1
    <3> QED BY <3>2 DEF Queued
  <2>3. CASE t # n /\ ~Queued(t)
    BY <1>2, <1>4, <1>16, <2>3 DEF TaskInv, Running
  <2> QED BY <2>1, <2>2, <2>3
<1> QED BY <1>2, <1>11, <1>12, <1>13, <1>14, <1>15, <1>16 DEF TaskInv

(* pop_front() in worker_main() moves one task from the queue to one worker. *)
LEMMA TakeTask ==
    ASSUME Basic, TaskInv, NEW w \in Workers, WorkerTakes(w)
    PROVE  TaskInv'
<1>1. PICK h \in Tasks : h = Head(queue)
  BY DEF WorkerTakes, Basic, TypeOK
<1>2. queue \in Seq(Tasks) /\ queue # <<>> /\ queue' = Tail(queue)
      /\ running' = [running EXCEPT ![w] = h] /\ UNCHANGED <<result, ran, discarded>>
      /\ running \in [Workers -> Tasks \cup {NoTask}]
  BY <1>1 DEF WorkerTakes, Basic, TypeOK
<1>3. /\ Len(queue) \in Nat \ {0} /\ Len(queue') = Len(queue) - 1
      /\ \A a \in 1..Len(queue') : a + 1 \in 1..Len(queue) /\ queue'[a] = queue[a + 1]
      /\ h = queue[1] /\ 1 \in 1..Len(queue)
  BY <1>1, <1>2
<1>4. running'[w] = h /\ \A v \in Workers : v # w => running'[v] = running[v]
  BY <1>2
<1>5. \A t \in Tasks : Fresh(t)' = Fresh(t)
  BY <1>2 DEF Fresh
<1>6. Fresh(h) /\ \A v \in Workers : running[v] # h
  BY <1>3 DEF TaskInv
<1>7. \A a \in 1..Len(queue') : queue'[a] # h /\ Fresh(queue'[a]) /\ queue'[a] \in Tasks
  <2> SUFFICES ASSUME NEW a \in 1..Len(queue')
               PROVE  queue[a + 1] # h /\ Fresh(queue[a + 1]) /\ queue[a + 1] \in Tasks
    BY <1>3
  <2>1. a + 1 \in 1..Len(queue) /\ a + 1 # 1
    BY <1>3
  <2> QED BY <1>2, <1>3, <2>1 DEF TaskInv
<1>8. \A a, b \in 1..Len(queue') : queue'[a] = queue'[b] => a = b
  <2> SUFFICES ASSUME NEW a \in 1..Len(queue'), NEW b \in 1..Len(queue'),
                      queue[a + 1] = queue[b + 1]
               PROVE  a = b
    BY <1>3
  <2>1. a + 1 = b + 1
    BY <1>3 DEF TaskInv
  <2> QED BY <2>1
<1>9. \A u, v \in Workers : running'[u] = running'[v] /\ running'[u] \in Tasks => u = v
  BY <1>4, <1>6 DEF TaskInv
<1>10. \A a \in 1..Len(queue') : Fresh(queue[a])'
  <2> SUFFICES ASSUME NEW a \in 1..Len(queue'), NEW t \in Tasks, t = queue'[a] PROVE Fresh(t)'
    BY <1>7 DEF Fresh
  <2> QED BY <1>5, <1>7
<1>11. ASSUME NEW v \in Workers, NEW t \in Tasks, t = running'[v]
       PROVE  Fresh(t)' /\ \A a \in 1..Len(queue') : queue'[a] # t
  <2>1. CASE v = w
    BY <1>4, <1>5, <1>6, <1>7, <1>11, <2>1
  <2>2. CASE v # w
    <3>1. running[v] = t /\ Fresh(t) /\ \A a \in 1..Len(queue) : queue[a] # t
      BY <1>4, <1>11, <2>2 DEF TaskInv
    <3>2. \A a \in 1..Len(queue') : queue'[a] # t
      BY <1>3, <3>1
    <3> QED BY <1>5, <3>1, <3>2
  <2> QED BY <2>1, <2>2
<1>12. \A v \in Workers : running'[v] \in Tasks =>
          Fresh(running[v])' /\ \A a \in 1..Len(queue') : queue'[a] # running'[v]
  BY <1>11 DEF Fresh
<1>13. ASSUME NEW t \in Tasks, result'[t] = "accepted"
       PROVE  Queued(t)' \/ Running(t)' \/ ran'[t] = 1 \/ t \in discarded'
  <2>1. CASE t = h
    BY <1>4, <2>1 DEF Running
  <2>2. CASE t # h /\ Queued(t)
    <3>1. PICK a \in 1..Len(queue) : queue[a] = t
      BY <2>2 DEF Queued
    <3>2. a - 1 \in 1..Len(queue') /\ (a - 1) + 1 = a
      BY <1>3, <2>2, <3>1
    <3>3. queue'[a - 1] = t
      BY <1>3, <3>1, <3>2
    <3> QED BY <3>2, <3>3 DEF Queued
  <2>3. CASE t # h /\ Running(t)
    <3>1. PICK v \in Workers : running[v] = t
      BY <2>3 DEF Running
    <3>2. v # w
      <4>1. running[w] \notin Tasks
        BY DEF WorkerTakes, Basic, RunInv
      <4> QED BY <3>1, <4>1
    <3> QED BY <1>4, <3>1, <3>2 DEF Running
  <2>4. CASE ~Queued(t) /\ ~Running(t)
    BY <1>2, <1>13, <2>4 DEF TaskInv
  <2> QED BY <2>1, <2>2, <2>3, <2>4
<1> QED BY <1>2, <1>8, <1>9, <1>10, <1>12, <1>13 DEF TaskInv

(* A task that returns has run, and its worker is free. *)
LEMMA RunTask ==
    ASSUME Basic, TaskInv, NEW w \in Workers, WorkerRuns(w)
    PROVE  TaskInv'
<1>1. PICK n \in Tasks : n = running[w]
  BY DEF WorkerRuns, Basic, RunInv
<1>2. ran' = [ran EXCEPT ![n] = @ + 1] /\ running' = [running EXCEPT ![w] = NoTask]
      /\ UNCHANGED <<queue, result, discarded>>
      /\ running \in [Workers -> Tasks \cup {NoTask}] /\ ran \in [Tasks -> Nat]
      /\ queue \in Seq(Tasks)
  BY <1>1 DEF WorkerRuns, Basic, TypeOK
<1>3. Fresh(n) /\ \A a \in 1..Len(queue) : queue[a] # n
  BY <1>1 DEF TaskInv
<1>4. ran'[n] = 1 /\ \A t \in Tasks : t # n => ran'[t] = ran[t]
  BY <1>2, <1>3 DEF Fresh
<1>5. running'[w] \notin Tasks /\ \A v \in Workers : v # w => running'[v] = running[v]
  BY <1>2, NoTaskIsNoTask
<1>6. \A v \in Workers : running'[v] \in Tasks => running'[v] = running[v] /\ running[v] # n
  BY <1>1, <1>5 DEF TaskInv
<1>7. \A t \in Tasks : t # n => Fresh(t)' = Fresh(t)
  BY <1>2, <1>4 DEF Fresh
<1>8. \A a \in 1..Len(queue) : queue[a] \in Tasks
  BY <1>2
<1>9. \A a \in 1..Len(queue') : Fresh(queue[a])'
  <2> SUFFICES ASSUME NEW a \in 1..Len(queue), NEW t \in Tasks, t = queue[a] PROVE Fresh(t)'
    BY <1>2, <1>8 DEF Fresh
  <2>1. Fresh(t) /\ t # n
    BY <1>3 DEF TaskInv
  <2> QED BY <1>7, <2>1
<1>10. ASSUME NEW v \in Workers, NEW t \in Tasks, t = running'[v]
       PROVE  Fresh(t)' /\ \A a \in 1..Len(queue') : queue'[a] # t
  <2>1. t = running[v] /\ t # n
    BY <1>6, <1>10
  <2>2. Fresh(t) /\ \A a \in 1..Len(queue) : queue[a] # t
    BY <2>1 DEF TaskInv
  <2> QED BY <1>2, <1>7, <2>1, <2>2
<1>11. \A v \in Workers : running'[v] \in Tasks =>
          Fresh(running[v])' /\ \A a \in 1..Len(queue') : queue'[a] # running'[v]
  BY <1>10 DEF Fresh
<1>12. \A u, v \in Workers : running'[u] = running'[v] /\ running'[u] \in Tasks => u = v
  BY <1>6 DEF TaskInv
<1>13. \A t \in Tasks : ran'[t] \in {0, 1}
  BY <1>4 DEF TaskInv
<1>14. \A t \in Tasks : ran'[t] = 1 => result'[t] = "accepted" /\ t \notin discarded'
  BY <1>2, <1>3, <1>4 DEF TaskInv, Fresh
<1>15. ASSUME NEW t \in Tasks, result'[t] = "accepted"
       PROVE  Queued(t)' \/ Running(t)' \/ ran'[t] = 1 \/ t \in discarded'
  <2>1. CASE t = n
    BY <1>4, <2>1
  <2>2. CASE t # n /\ Running(t)
    <3>1. PICK v \in Workers : running[v] = t
      BY <2>2 DEF Running
    <3>2. v # w
      BY <1>1, <2>2, <3>1
    <3> QED BY <1>5, <3>1, <3>2 DEF Running
  <2>3. CASE t # n /\ ~Running(t)
    BY SMTT(30), <1>2, <1>4, <1>15, <2>3 DEF TaskInv, Queued
  <2> QED BY <2>1, <2>2, <2>3
<1>16. /\ \A a, b \in 1..Len(queue') : queue'[a] = queue'[b] => a = b
       /\ \A t \in discarded' : result'[t] = "accepted"
  BY <1>2 DEF TaskInv
<1>17. /\ \A a \in 1..Len(queue') : Fresh(queue[a])'
       /\ \A v \in Workers : running'[v] \in Tasks =>
             Fresh(running[v])' /\ \A a \in 1..Len(queue') : queue'[a] # running'[v]
  BY SMTT(30), <1>9, <1>11
<1> QED BY <1>12, <1>13, <1>14, <1>15, <1>16, <1>17 DEF TaskInv

(* The clear() of stop_no_drain() moves the queued tasks out of the queue. *)
LEMMA DiscardTasks ==
    ASSUME Basic, TaskInv, StopInv, NEW s \in Stoppers, StopNoDrainBegins(s)
    PROVE  TaskInv'
<1>1. queue \in Seq(Tasks) /\ queue' = <<>> /\ discarded = {}
      /\ discarded' = {queue[a] : a \in DOMAIN queue}
      /\ UNCHANGED <<running, result, ran>>
  BY DEF StopNoDrainBegins, StopInv, Basic, TypeOK
<1>2. 1..Len(queue') = {} /\ DOMAIN queue = 1..Len(queue)
  <2>1. Len(queue') = 0
    BY ONLY <1>1
  <2>2. DOMAIN queue = 1..Len(queue)
    BY ONLY <1>1
  <2> QED BY ONLY SMTT(30), <2>1, <2>2
<1>3. \A t \in discarded' : t \in Tasks /\ Fresh(t) /\ Queued(t)
  BY <1>1, <1>2 DEF TaskInv, Queued
<1>4. \A t \in Tasks : Queued(t) => t \in discarded'
  BY <1>1, <1>2 DEF Queued
<1>5. \A w \in Workers : running[w] \in Tasks => running[w] \notin discarded' /\ Fresh(running[w])
  BY <1>1, <1>2 DEF TaskInv
<1>6. \A w \in Workers : running'[w] \in Tasks => Fresh(running[w])'
  BY <1>1, <1>5 DEF Fresh
<1>7. \A t \in Tasks : ran'[t] = 1 => result'[t] = "accepted" /\ t \notin discarded'
  BY <1>1, <1>3 DEF TaskInv, Fresh
<1>8. \A t \in discarded' : result'[t] = "accepted"
  BY <1>1, <1>3 DEF Fresh
<1>9. \A t \in Tasks : result'[t] = "accepted" => Running(t)' \/ ran'[t] = 1 \/ t \in discarded'
  BY <1>1, <1>4 DEF TaskInv, Running
<1>10. \A v, w \in Workers : running'[v] = running'[w] /\ running'[v] \in Tasks => v = w
  BY <1>1 DEF TaskInv
<1>11. \A t \in Tasks : ran'[t] \in {0, 1}
  BY <1>1 DEF TaskInv
<1> QED BY Zenon, <1>2, <1>6, <1>7, <1>8, <1>9, <1>10, <1>11 DEF TaskInv

(* The steps that move no task. *)
Idle ==
    \/ \E p \in Producers : \/ \E t \in Tasks : SubmitCall(p, t)
                            \/ SubmitRefused(p) \/ SubmitWaits(p)
    \/ \E w \in Workers : WorkerWaits(w) \/ WorkerExits(w)
    \/ \E s \in Stoppers : StopBegins(s) \/ StopAgain(s) \/ StopperStep(s)
    \/ SpuriousWake
    \/ UNCHANGED vars

(* Every step moves a task, as one of the four operations that do, or moves none. *)
LEMMA NextCases ==
    ASSUME [Next]_vars
    PROVE  \/ Idle
           \/ \E p \in Producers : SubmitAccepted(p)
           \/ \E w \in Workers : WorkerTakes(w) \/ WorkerRuns(w)
           \/ \E s \in Stoppers : StopNoDrainBegins(s)
BY DEF Next, Idle, ProducerStep, WorkerStep, Quiet

(* A step that moves no task leaves each where it is. *)
LEMMA IdleTasks ==
    ASSUME Basic, TaskInv, Idle
    PROVE  TaskInv'
<1>1. ASSUME NEW p \in Producers, NEW t \in Tasks, SubmitCall(p, t) PROVE TaskInv'
  <2>1. UNCHANGED <<queue, running, ran, discarded>>
        /\ \A x \in Tasks : result[x] = "accepted" <=> result'[x] = "accepted"
    BY <1>1 DEF SubmitCall, Basic, TypeOK
  <2> QED BY <2>1, TasksStay
<1>2. ASSUME NEW p \in Producers, SubmitRefused(p) PROVE TaskInv'
  <2>1. UNCHANGED <<queue, running, ran, discarded>>
        /\ \A x \in Tasks : result[x] = "accepted" <=> result'[x] = "accepted"
    BY SMTT(30), <1>2 DEF SubmitRefused, SubmitReturn, Basic, TypeOK, OfferInv
  <2> QED BY <2>1, TasksStay
<1>3. ASSUME NEW p \in Producers, SubmitWaits(p) PROVE TaskInv'
  BY <1>3, TasksStay DEF SubmitWaits
<1>4. ASSUME NEW w \in Workers, WorkerWaits(w) \/ WorkerExits(w) PROVE TaskInv'
  BY <1>4, TasksStay DEF WorkerWaits, WorkerExits
<1>5. ASSUME NEW s \in Stoppers, StopBegins(s) \/ StopAgain(s) \/ StopperStep(s) PROVE TaskInv'
  <2>1. UNCHANGED <<queue, running, ran, discarded, result>>
    BY <1>5 DEF StopBegins, StopAgain, StopperStep, StopNotifiesWorkers, StopNotifiesProducers,
                StopJoins
  <2> QED BY <2>1, TasksStay
<1>6. CASE SpuriousWake
  BY <1>6, TasksStay DEF SpuriousWake
<1>7. CASE UNCHANGED vars
  BY <1>7, TasksStay DEF vars
<1> QED BY <1>1, <1>2, <1>3, <1>4, <1>5, <1>6, <1>7 DEF Idle

(* Workers that are gone stay gone, and no step but their own removes one. *)
LEMMA Exited ==
    ASSUME Basic, [Next]_vars
    PROVE  \A w \in Workers : \/ worker'[w] = "exited" <=> worker[w] = "exited"
                              \/ WorkerExits(w)
<1> USE DEF Basic, TypeOK
<1>1. ASSUME NEW p \in Producers, SubmitAccepted(p)
      PROVE  \A w \in Workers : worker'[w] = "exited" <=> worker[w] = "exited"
  <2>1. worker \in [Workers -> WorkerPlaces] /\ NotifyOne(worker, worker') /\ "awake" \in WorkerPlaces
    BY <1>1 DEF SubmitAccepted, NotifyNotEmpty, WorkerPlaces
  <2>2. \A w \in Workers : worker'[w] = worker[w] \/ (worker[w] = "asleep" /\ worker'[w] = "awake")
    BY <2>1, NotifyOneEffect
  <2> QED BY <2>2
<1>2. ASSUME NEW w \in Workers, WorkerTakes(w) \/ WorkerRuns(w)
      PROVE  \A v \in Workers : worker'[v] = "exited" <=> worker[v] = "exited"
  BY <1>2 DEF WorkerTakes, WorkerRuns
<1>3. ASSUME NEW s \in Stoppers, StopNoDrainBegins(s)
      PROVE  \A v \in Workers : worker'[v] = "exited" <=> worker[v] = "exited"
  BY <1>3 DEF StopNoDrainBegins
<1>4. ASSUME Idle PROVE \A w \in Workers : \/ worker'[w] = "exited" <=> worker[w] = "exited"
                                           \/ WorkerExits(w)
  <2>1. ASSUME NEW w \in Workers, WorkerWaits(w)
        PROVE  \A v \in Workers : worker'[v] = "exited" <=> worker[v] = "exited"
    BY <2>1 DEF WorkerWaits
  <2>2. ASSUME NEW w \in Workers, WorkerExits(w), NEW v \in Workers
        PROVE  (worker'[v] = "exited" <=> worker[v] = "exited") \/ v = w
    BY <2>2 DEF WorkerExits
  <2>3. ASSUME NEW s \in Stoppers, StopNotifiesWorkers(s)
        PROVE  \A v \in Workers : worker'[v] = "exited" <=> worker[v] = "exited"
    BY <2>3 DEF StopNotifiesWorkers, WakeWorkers, NotifyAll
  <2>4. CASE SpuriousWake
    BY <2>4 DEF SpuriousWake, Asleep
  <2>5. CASE \/ \E p \in Producers : \/ \E t \in Tasks : SubmitCall(p, t)
                                     \/ SubmitRefused(p) \/ SubmitWaits(p)
             \/ \E s \in Stoppers : StopBegins(s) \/ StopAgain(s)
                                    \/ StopNotifiesProducers(s) \/ StopJoins(s)
             \/ UNCHANGED vars
    <3>1. worker' = worker
      BY <2>5 DEF SubmitCall, SubmitRefused, SubmitWaits, StopBegins, StopAgain,
                  StopNotifiesProducers, StopJoins, vars
    <3> QED BY <3>1
  <2> QED BY <1>4, <2>1, <2>2, <2>3, <2>4, <2>5 DEF Idle, StopperStep
<1> QED BY <1>1, <1>2, <1>3, <1>4, NextCases

(* stop_ is never reset, and after it was set nothing enters the queue. *)
LEMMA StopStays ==
    ASSUME Basic, [Next]_vars
    PROVE  /\ stop => stop' /\ drain_on_stop' = drain_on_stop /\ discarded' = discarded
           /\ stop /\ queue = <<>> => queue' = <<>>
           /\ discarded' # {} => discarded' = discarded \/ (stop' /\ ~drain_on_stop')
           /\ ~stop /\ ~stop' => discarded' = discarded
<1>1. CASE Idle
  <2>1. UNCHANGED <<queue, discarded>> /\ (UNCHANGED <<stop, drain_on_stop>> \/ (~stop /\ stop'))
    BY <1>1 DEF Idle, SubmitCall, SubmitRefused, SubmitWaits, WorkerWaits, WorkerExits,
                StopBegins, StopAgain, StopperStep, StopNotifiesWorkers, StopNotifiesProducers,
                StopJoins, SpuriousWake, vars
  <2> QED BY SMTT(30), <2>1
<1>2. ASSUME NEW p \in Producers, SubmitAccepted(p)
      PROVE  ~stop /\ UNCHANGED <<stop, drain_on_stop, discarded>>
  BY <1>2 DEF SubmitAccepted, Refuses
<1>3. ASSUME NEW w \in Workers, WorkerTakes(w) \/ WorkerRuns(w)
      PROVE  /\ UNCHANGED <<stop, drain_on_stop, discarded>>
             /\ queue = <<>> => queue' = <<>>
  BY <1>3 DEF WorkerTakes, WorkerRuns
<1>4. ASSUME NEW s \in Stoppers, StopNoDrainBegins(s)
      PROVE  ~stop /\ stop' /\ ~drain_on_stop'
  BY <1>4 DEF StopNoDrainBegins
<1> QED BY <1>1, <1>2, <1>3, <1>4, NextCases

(* No step undoes a stop, queues a task after it or lets a worker leave early. *)
LEMMA StepStop ==
    ASSUME Basic, StopInv, [Next]_vars
    PROVE  StopInv'
<1>1. discarded' # {} => stop' /\ ~drain_on_stop'
  BY StopStays DEF StopInv, Basic, TypeOK
<1>2. ASSUME NEW w \in Workers, worker'[w] = "exited"
      PROVE  stop' /\ queue' = <<>>
  <2>1. stop /\ queue = <<>>
    <3>1. CASE worker[w] = "exited"
      BY <3>1 DEF StopInv
    <3>2. CASE WorkerExits(w)
      BY <3>2 DEF WorkerExits, WorkerMayExit
    <3> QED BY <1>2, <3>1, <3>2, Exited
  <2> QED BY <2>1, StopStays
<1>3. ASSUME NEW w \in Workers, worker[w] = "exited" PROVE worker'[w] = "exited"
  BY <1>3, Exited DEF WorkerExits
<1>4. ASSUME NEW s \in Stoppers, stopper'[s] = "joined"
      PROVE  \A w \in Workers : worker[w] = "exited"
  <2>1. stopper[s] = "joined" \/ StopJoins(s)
    <3> USE <1>4 DEF Basic, TypeOK
    <3>1. CASE \E r \in Stoppers : StopJoins(r)
      BY Zenon, <3>1 DEF StopJoins
    <3>2. CASE \E r \in Stoppers : StopBegins(r) \/ StopAgain(r) \/ StopNoDrainBegins(r)
                                    \/ StopNotifiesWorkers(r) \/ StopNotifiesProducers(r)
      BY <3>2 DEF StopBegins, StopAgain, StopNoDrainBegins, StopNotifiesWorkers,
                  StopNotifiesProducers
    <3>3. CASE UNCHANGED stopper
      BY <3>3
    <3>4. CASE Idle
      <4>1. ASSUME \/ \E p \in Producers : \/ \E t \in Tasks : SubmitCall(p, t)
                                           \/ SubmitRefused(p) \/ SubmitWaits(p)
                   \/ \E w \in Workers : WorkerWaits(w) \/ WorkerExits(w)
                   \/ SpuriousWake
                   \/ UNCHANGED vars
            PROVE  UNCHANGED stopper
        BY <4>1 DEF SubmitCall, SubmitRefused, SubmitWaits, WorkerWaits, WorkerExits,
                    SpuriousWake, vars
      <4> QED BY <3>1, <3>2, <3>3, <3>4, <4>1 DEF Idle, StopperStep
    <3>5. CASE \/ \E p \in Producers : SubmitAccepted(p)
               \/ \E w \in Workers : WorkerTakes(w) \/ WorkerRuns(w)
      <4>1. UNCHANGED stopper
        BY <3>5 DEF SubmitAccepted, WorkerTakes, WorkerRuns
      <4> QED BY <4>1, <3>3
    <3> QED BY <3>2, <3>4, <3>5, NextCases
  <2> QED BY <2>1 DEF StopInv, StopJoins
<1> QED BY <1>1, <1>2, <1>3, <1>4 DEF StopInv

(* Every step keeps each accepted task in one place. *)
LEMMA StepTask ==
    ASSUME Basic, TaskInv, StopInv, [Next]_vars
    PROVE  TaskInv'
BY NextCases, IdleTasks, AcceptTask, TakeTask, RunTask, DiscardTasks

-----------------------------------------------------------------------------
(* From where the tasks are to the properties. *)

(* The cardinality of an empty set. *)
LEMMA CountZero ==
    ASSUME NEW S, S = {} PROVE Cardinality(S) = 0
BY FS_EmptySet

(* The cardinality of a singleton. *)
LEMMA CountOne ==
    ASSUME NEW S, NEW a, S = {a} PROVE Cardinality(S) = 1
BY Zenon, FS_Singleton

(* The task invariant gives ExactlyOnce. *)
LEMMA TaskOnce ==
    ASSUME Basic, TaskInv
    PROVE  ExactlyOnce
<1> SUFFICES ASSUME NEW t \in Tasks
             PROVE  Cardinality({a \in DOMAIN queue : queue[a] = t})
                      + Cardinality({w \in Workers : running[w] = t})
                      + ran[t]
                      + (IF t \in discarded THEN 1 ELSE 0)
                    = (IF result[t] = "accepted" THEN 1 ELSE 0)
  BY DEF ExactlyOnce
<1> DEFINE Q == {a \in DOMAIN queue : queue[a] = t}
           W == {w \in Workers : running[w] = t}
<1>0. DOMAIN queue = 1..Len(queue) /\ ran[t] \in {0, 1}
  BY DEF Basic, TypeOK, TaskInv
<1>1. CASE result[t] # "accepted"
  <2>1. Q = {} /\ W = {} /\ ran[t] = 0 /\ t \notin discarded
    <3>1. ~Fresh(t)
      BY SMTT(30), <1>1 DEF Fresh
    <3>2. Q = {} /\ W = {}
      BY <1>0, <3>1 DEF TaskInv
    <3>3. ran[t] = 0 /\ t \notin discarded
      BY <1>0, <1>1 DEF TaskInv
    <3> QED BY <3>2, <3>3
  <2>2. Cardinality(Q) = 0 /\ Cardinality(W) = 0
    BY <2>1, CountZero
  <2> QED BY <1>1, <2>1, <2>2
<1>2. CASE Queued(t)
  <2>1. PICK a \in 1..Len(queue) : queue[a] = t
    BY <1>2 DEF Queued
  <2>2. Q = {a} /\ W = {}
    BY <1>0, <2>1 DEF TaskInv
  <2>3. Fresh(t)
    BY <2>1 DEF TaskInv
  <2>4. Cardinality(Q) = 1 /\ Cardinality(W) = 0
    BY Zenon, <2>2, CountZero, CountOne
  <2> QED BY <2>3, <2>4 DEF Fresh
<1>3. CASE Running(t)
  <2>1. PICK w \in Workers : running[w] = t
    BY <1>3 DEF Running
  <2>2. Q = {} /\ W = {w}
    BY <1>0, <2>1 DEF TaskInv
  <2>3. Fresh(t)
    BY <2>1 DEF TaskInv
  <2>4. Cardinality(Q) = 0 /\ Cardinality(W) = 1
    BY Zenon, <2>2, CountZero, CountOne
  <2> QED BY <2>3, <2>4 DEF Fresh
<1>4. CASE result[t] = "accepted" /\ (ran[t] = 1 \/ t \in discarded)
  <2>1. ~Fresh(t)
    BY <1>4 DEF Fresh
  <2>2. Q = {} /\ W = {}
    BY <1>0, <2>1 DEF TaskInv
  <2>3. Cardinality(Q) = 0 /\ Cardinality(W) = 0
    BY <2>2, CountZero
  <2>4. (ran[t] = 1 /\ t \notin discarded) \/ (ran[t] = 0 /\ t \in discarded)
    BY <1>0, <1>4 DEF TaskInv
  <2> QED BY <1>4, <2>3, <2>4
<1> QED BY <1>1, <1>2, <1>3, <1>4 DEF TaskInv

(* When every worker has left after a draining stop(), every accepted task has run. *)
LEMMA Drained ==
    ASSUME Basic, TaskInv, StopInv
    PROVE  JoinedMeansDrained
<1> SUFFICES ASSUME NEW s \in Stoppers, stopper[s] = "joined"
             PROVE  /\ \A t \in Tasks : result[t] = "accepted" => ran[t] = 1 \/ t \in discarded
                    /\ drain_on_stop => discarded = {}
  BY DEF JoinedMeansDrained
<1>1. \A w \in Workers : worker[w] = "exited"
  BY DEF StopInv
<1>2. queue = <<>>
  BY <1>1, SomeWorker DEF StopInv
<1>3. \A t \in Tasks : ~Queued(t) /\ ~Running(t)
  BY <1>1, <1>2 DEF Queued, Running, Basic, RunInv
<1> QED BY <1>3 DEF TaskInv, StopInv

-----------------------------------------------------------------------------
(* Wake-ups. *)

Awake(S, f) == {x \in S : f[x] = "awake"}

(* The woken threads can be counted. *)
LEMMA AwakeNat ==
    ASSUME NEW S, IsFiniteSet(S), NEW f
    PROVE  Cardinality(Awake(S, f)) \in Nat
BY FS_Subset, FS_CardinalityType DEF Awake

(* Waking one sleeper makes one more woken thread. *)
LEMMA AwakeAdds ==
    ASSUME NEW S, IsFiniteSet(S), NEW P, NEW f \in [S -> P], NEW x \in S, f[x] # "awake"
    PROVE  Cardinality(Awake(S, [f EXCEPT ![x] = "awake"])) = Cardinality(Awake(S, f)) + 1
<1>1. Awake(S, [f EXCEPT ![x] = "awake"]) = Awake(S, f) \cup {x} /\ x \notin Awake(S, f)
  BY DEF Awake
<1>2. IsFiniteSet(Awake(S, f))
  BY FS_Subset DEF Awake
<1> QED BY Zenon, <1>1, <1>2, FS_AddElement

(* A woken thread that goes on makes one fewer. *)
LEMMA AwakeLoses ==
    ASSUME NEW S, IsFiniteSet(S), NEW P, NEW f \in [S -> P], NEW x \in S, f[x] = "awake",
           NEW v, v # "awake"
    PROVE  Cardinality(Awake(S, [f EXCEPT ![x] = v])) = Cardinality(Awake(S, f)) - 1
<1>1. Awake(S, [f EXCEPT ![x] = v]) = Awake(S, f) \ {x} /\ x \in Awake(S, f)
  BY DEF Awake
<1>2. IsFiniteSet(Awake(S, f))
  BY FS_Subset DEF Awake
<1> QED BY Zenon, <1>1, <1>2, FS_RemoveElement

(* A notify_one adds an awake thread, or nobody slept. *)
LEMMA NotifyCounts ==
    ASSUME NEW S, IsFiniteSet(S), NEW P, NEW f \in [S -> P], NEW g, NotifyOne(f, g)
    PROVE  \/ Asleep(f) = {} /\ g = f
           \/ Cardinality(Awake(S, g)) = Cardinality(Awake(S, f)) + 1 /\ Asleep(f) # {}
<1>1. ASSUME NEW x \in Asleep(f), g = [f EXCEPT ![x] = "awake"]
      PROVE  Cardinality(Awake(S, g)) = Cardinality(Awake(S, f)) + 1
  <2>1. x \in S /\ f[x] # "awake"
    BY <1>1 DEF Asleep
  <2> QED BY Zenon, <1>1, <2>1, AwakeAdds
<1> QED BY <1>1 DEF NotifyOne

(* Nobody sleeps after notify_all(). *)
LEMMA AsleepAll ==
    ASSUME NEW S, NEW P, NEW f \in [S -> P]
    PROVE  Asleep(NotifyAll(f)) = {}
BY DEF NotifyAll, Asleep

(* The two wake-up invariants, with the counts named. *)
LEMMA CoverQueueDef ==
    WakeupsCoverQueue <=>
        (Asleep(worker) # {} =>
            /\ Len(queue) <= Cardinality(Awake(Workers, worker))
            /\ stop => \E s \in Stoppers : stopper[s] = "notify_empty")
BY DEF WakeupsCoverQueue, Awake

(* WakeupsCoverSpace in terms of the number of woken submitters. *)
LEMMA CoverSpaceDef ==
    WakeupsCoverSpace <=>
        (Asleep(producer) # {} =>
            IF stop
            THEN \E s \in Stoppers : stopper[s] \in {"notify_empty", "notify_full"}
            ELSE MaxQueueDepth - Len(queue) <= Cardinality(Awake(Producers, producer)))
BY DEF WakeupsCoverSpace, Awake

(* No step leaves a queued task without a woken worker while others sleep: the
   notify of submit() and those of stop() are enough. *)
LEMMA StepCoversQueue ==
    ASSUME Basic, WakeupsCoverQueue, [Next]_vars
    PROVE  WakeupsCoverQueue'
<1> DEFINE A == Cardinality(Awake(Workers, worker))
           B == Cardinality(Awake(Workers, worker'))
<1>0. /\ A \in Nat /\ B \in Nat /\ Len(queue) \in Nat
      /\ worker \in [Workers -> WorkerPlaces]
      /\ stopper \in [Stoppers -> StopperPlaces]
      /\ queue \in Seq(Tasks)
  <2>1. A \in Nat /\ B \in Nat
    BY AwakeNat, WorkersFinite
  <2> HIDE DEF A, B
  <2>2. worker \in [Workers -> WorkerPlaces]
    BY DEF Basic, TypeOK
  <2>3. Len(queue) \in Nat /\ queue \in Seq(Tasks)
    BY DEF Basic, TypeOK
  <2> QED BY <2>1, <2>2, <2>3 DEF Basic, TypeOK
<1>1. SUFFICES ASSUME Asleep(worker') # {}
               PROVE  /\ Len(queue') <= B
                      /\ stop' => \E s \in Stoppers : stopper'[s] = "notify_empty"
  BY DEF WakeupsCoverQueue, Awake, Asleep
<1>2. ASSUME Asleep(worker) # {}
      PROVE  /\ Len(queue) <= A
             /\ stop => \E s \in Stoppers : stopper[s] = "notify_empty"
  BY <1>2, CoverQueueDef
<1> HIDE DEF A, B
<1>3. ASSUME UNCHANGED <<queue, stop, worker, stopper>>
      PROVE  /\ Len(queue') <= B
             /\ stop' => \E s \in Stoppers : stopper'[s] = "notify_empty"
  BY <1>1, <1>2, <1>3 DEF A, B
<1>4. ASSUME NEW p \in Producers, SubmitAccepted(p)
      PROVE  Len(queue') <= B /\ ~stop'
  <2>1. NotifyOne(worker, worker') /\ ~stop' /\ Len(queue') = Len(queue) + 1
    BY <1>0, <1>4 DEF SubmitAccepted, NotifyNotEmpty, Refuses
  <2>2. B = A + 1 /\ Asleep(worker) # {}
    BY Zenon, <1>0, <1>1, <2>1, NotifyCounts, WorkersFinite DEF A, B
  <2> QED BY <1>0, <1>2, <2>1, <2>2
<1>5. ASSUME NEW w \in Workers, WorkerWaits(w)
      PROVE  Len(queue') <= B /\ ~stop'
  BY <1>0, <1>5 DEF WorkerWaits
<1>6. ASSUME NEW w \in Workers, WorkerTakes(w)
      PROVE  /\ Len(queue') <= B
             /\ stop' => \E s \in Stoppers : stopper'[s] = "notify_empty"
  <2>1. /\ worker[w] = "awake" /\ worker' = [worker EXCEPT ![w] = "run"]
        /\ UNCHANGED <<stop, stopper>> /\ Len(queue') = Len(queue) - 1
    BY <1>0, <1>6 DEF WorkerTakes
  <2>2. B = A - 1
    BY Zenon, <1>0, <2>1, AwakeLoses, WorkersFinite DEF A, B
  <2>3. Asleep(worker) # {}
    BY <1>0, <1>1, <2>1 DEF Asleep
  <2> QED BY <1>0, <1>2, <2>1, <2>2, <2>3
<1>7. ASSUME NEW w \in Workers, WorkerRuns(w)
      PROVE  /\ Len(queue') <= B
             /\ stop' => \E s \in Stoppers : stopper'[s] = "notify_empty"
  <2>1. /\ worker[w] = "run" /\ worker' = [worker EXCEPT ![w] = "awake"]
        /\ UNCHANGED <<stop, stopper, queue>>
    BY <1>7 DEF WorkerRuns
  <2>2. B = A + 1
    BY Zenon, <1>0, <2>1, AwakeAdds, WorkersFinite DEF A, B
  <2>3. Asleep(worker) # {}
    BY <1>0, <1>1, <2>1 DEF Asleep
  <2> QED BY <1>0, <1>2, <2>1, <2>2, <2>3
<1>8. ASSUME NEW w \in Workers, WorkerExits(w)
      PROVE  /\ Len(queue') <= B
             /\ stop' => \E s \in Stoppers : stopper'[s] = "notify_empty"
  <2>1. /\ worker[w] = "awake" /\ worker' = [worker EXCEPT ![w] = "exited"]
        /\ UNCHANGED <<stop, stopper>> /\ queue' = <<>>
    BY <1>8 DEF WorkerExits, WorkerMayExit
  <2>2. Asleep(worker) # {}
    BY <1>0, <1>1, <2>1 DEF Asleep
  <2> QED BY <1>0, <1>2, <2>1, <2>2
<1>9. ASSUME NEW s \in Stoppers, StopBegins(s) \/ StopNoDrainBegins(s)
      PROVE  Len(queue') <= B /\ stopper'[s] = "notify_empty"
  <2>1. worker' = worker /\ (queue' = queue \/ queue' = <<>>) /\ stopper'[s] = "notify_empty"
    BY <1>0, <1>9 DEF StopBegins, StopNoDrainBegins
  <2> QED BY <1>0, <1>1, <1>2, <2>1 DEF A, B
<1>10. ASSUME NEW s \in Stoppers, StopNotifiesWorkers(s) PROVE FALSE
  BY Zenon, <1>0, <1>1, <1>10, AsleepAll DEF StopNotifiesWorkers, WakeWorkers
<1>11. ASSUME NEW s \in Stoppers, StopAgain(s) \/ StopNotifiesProducers(s) \/ StopJoins(s)
       PROVE  /\ Len(queue') <= B
              /\ stop' => \E r \in Stoppers : stopper'[r] = "notify_empty"
  <2>1. /\ UNCHANGED <<worker, queue, stop>> /\ stopper[s] # "notify_empty"
        /\ \A r \in Stoppers : r # s => stopper'[r] = stopper[r]
    BY <1>0, <1>11 DEF StopAgain, StopNotifiesProducers, StopJoins
  <2> QED BY <1>1, <1>2, <2>1 DEF A, B
<1>12. CASE SpuriousWake
  <2>1. CASE UNCHANGED worker
    BY <1>3, <1>12, <2>1 DEF SpuriousWake
  <2>2. ASSUME NEW w \in Asleep(worker), worker' = [worker EXCEPT ![w] = "awake"]
        PROVE  Len(queue) <= B
    <3>1. w \in Workers /\ worker[w] # "awake"
      BY <1>0, <2>2 DEF Asleep
    <3>2. B = A + 1
      BY Zenon, <1>0, <2>2, <3>1, AwakeAdds, WorkersFinite DEF A, B
    <3> QED BY <1>0, <1>2, <2>2, <3>2
  <2>3. Asleep(worker) # {}
    BY <1>0, <1>1, <1>12 DEF Asleep, SpuriousWake
  <2> QED BY <1>2, <1>12, <2>1, <2>2, <2>3 DEF SpuriousWake
<1>13. CASE \E p \in Producers : \/ \E t \in Tasks : SubmitCall(p, t)
                                 \/ SubmitRefused(p) \/ SubmitWaits(p)
  <2>1. UNCHANGED <<queue, stop, worker, stopper>>
    BY <1>13 DEF SubmitCall, SubmitRefused, SubmitWaits
  <2> QED BY <2>1, <1>3
<1>14. CASE UNCHANGED vars
  BY <1>14, <1>3 DEF vars
<1> QED BY <1>4, <1>5, <1>6, <1>7, <1>8, <1>9, <1>10, <1>11, <1>12, <1>13, <1>14, NextCases
        DEF Idle, StopperStep

(* No step leaves free slots without a woken submitter while others sleep: one
   notify per pop is enough. *)
LEMMA StepCoversSpace ==
    ASSUME Basic, WakeupsCoverSpace, [Next]_vars
    PROVE  WakeupsCoverSpace'
<1> DEFINE A == Cardinality(Awake(Producers, producer))
           B == Cardinality(Awake(Producers, producer'))
           Goal == IF stop'
                   THEN \E s \in Stoppers : stopper'[s] \in {"notify_empty", "notify_full"}
                   ELSE MaxQueueDepth - Len(queue') <= B
<1>0. /\ A \in Nat /\ B \in Nat /\ Len(queue) \in Nat /\ MaxQueueDepth \in Nat
      /\ producer \in [Producers -> ProducerPlaces]
      /\ stopper \in [Stoppers -> StopperPlaces]
      /\ queue \in Seq(Tasks)
  <2>1. A \in Nat /\ B \in Nat
    BY AwakeNat, ProducersFinite
  <2> HIDE DEF A, B
  <2>2. producer \in [Producers -> ProducerPlaces]
    BY DEF Basic, TypeOK
  <2>3. Len(queue) \in Nat /\ queue \in Seq(Tasks)
    BY DEF Basic, TypeOK
  <2> QED BY <2>1, <2>2, <2>3, MaxQueueDepthAssumption DEF Basic, TypeOK
<1>1. SUFFICES ASSUME Asleep(producer') # {} PROVE Goal
  BY DEF WakeupsCoverSpace, Awake, Asleep
<1>2. ASSUME Asleep(producer) # {}
      PROVE  IF stop
             THEN \E s \in Stoppers : stopper[s] \in {"notify_empty", "notify_full"}
             ELSE MaxQueueDepth - Len(queue) <= A
  BY <1>2, CoverSpaceDef
<1> HIDE DEF A, B
(* A step of a submitter that leaves the queue and the stoppers alone. *)
<1>3. ASSUME UNCHANGED <<queue, stop, stopper>>, Asleep(producer) # {}, A <= B
      PROVE  Goal
  BY <1>0, <1>2, <1>3
<1>4. ASSUME UNCHANGED <<queue, stop, stopper>>, Asleep(producer) # {}, Full
      PROVE  Goal
  BY <1>0, <1>2, <1>4 DEF Full
<1>5. ASSUME NEW p \in Producers, NEW t \in Tasks, SubmitCall(p, t) PROVE Goal
  <2>1. producer[p] = "out" /\ producer' = [producer EXCEPT ![p] = "awake"]
        /\ UNCHANGED <<queue, stop, stopper>>
    BY <1>5 DEF SubmitCall
  <2>2. B = A + 1
    BY Zenon, <1>0, <2>1, AwakeAdds, ProducersFinite DEF A, B
  <2>3. Asleep(producer) # {}
    BY <1>0, <1>1, <2>1 DEF Asleep
  <2> QED BY <1>0, <1>3, <2>1, <2>2, <2>3
<1>6. ASSUME NEW p \in Producers, SubmitRefused(p) PROVE Goal
  <2>1. producer[p] = "awake" /\ producer' = [producer EXCEPT ![p] = "out"]
        /\ UNCHANGED <<queue, stop, stopper>> /\ (stop \/ Full)
    BY <1>6 DEF SubmitRefused, Refuses
  <2>2. Asleep(producer) # {}
    BY <1>0, <1>1, <2>1 DEF Asleep
  <2> QED BY <1>2, <1>4, <2>1, <2>2
<1>7. ASSUME NEW p \in Producers, SubmitWaits(p) PROVE Goal
  <2>1. ~stop' /\ queue' = queue /\ Full
    BY <1>7 DEF SubmitWaits, Refuses
  <2> QED BY <1>0, <2>1 DEF Full
<1>8. ASSUME NEW p \in Producers, SubmitAccepted(p) PROVE Goal
  <2>1. producer[p] = "awake" /\ producer' = [producer EXCEPT ![p] = "out"]
        /\ ~stop /\ ~stop' /\ Len(queue') = Len(queue) + 1
    BY <1>0, <1>8 DEF SubmitAccepted, Refuses
  <2>2. B = A - 1
    BY Zenon, <1>0, <2>1, AwakeLoses, ProducersFinite DEF A, B
  <2>3. Asleep(producer) # {}
    BY <1>0, <1>1, <2>1 DEF Asleep
  <2> QED BY <1>0, <1>2, <2>1, <2>2, <2>3
<1>9. ASSUME NEW w \in Workers, WorkerTakes(w) PROVE Goal
  <2>1. NotifyOne(producer, producer') /\ UNCHANGED <<stop, stopper>>
        /\ Len(queue') = Len(queue) - 1
    BY <1>0, <1>9 DEF WorkerTakes, NotifyNotFull
  <2>2. B = A + 1 /\ Asleep(producer) # {}
    BY Zenon, <1>0, <1>1, <2>1, NotifyCounts, ProducersFinite DEF A, B
  <2> QED BY <1>0, <1>2, <2>1, <2>2
<1>10. ASSUME NEW s \in Stoppers, StopBegins(s) \/ StopNoDrainBegins(s) PROVE Goal
  <2>1. stop' /\ stopper'[s] = "notify_empty"
    BY <1>0, <1>10 DEF StopBegins, StopNoDrainBegins
  <2> QED BY <2>1
<1>11. ASSUME NEW s \in Stoppers, StopNotifiesProducers(s) PROVE FALSE
  BY Zenon, <1>0, <1>1, <1>11, AsleepAll DEF StopNotifiesProducers, WakeProducers
<1>12. ASSUME NEW s \in Stoppers, StopAgain(s) \/ StopNotifiesWorkers(s) \/ StopJoins(s)
       PROVE  Goal
  <2>1. /\ UNCHANGED <<producer, queue, stop>>
        /\ stopper[s] \in {"notify_empty", "notify_full"} => stopper'[s] = "notify_full"
        /\ \A r \in Stoppers : r # s => stopper'[r] = stopper[r]
    BY <1>0, <1>12 DEF StopAgain, StopNotifiesWorkers, StopJoins
  <2>2. Asleep(producer) # {} /\ A = B
    BY <1>1, <2>1 DEF A, B
  <2> QED BY <1>2, <2>1, <2>2
<1>13. CASE SpuriousWake
  <2>1. UNCHANGED <<queue, stop, stopper>>
    BY <1>13 DEF SpuriousWake
  <2>2. CASE UNCHANGED producer
    BY <1>0, <1>1, <1>3, <2>1, <2>2 DEF A, B
  <2>3. ASSUME NEW p \in Asleep(producer), producer' = [producer EXCEPT ![p] = "awake"]
        PROVE  A <= B
    <3>1. p \in Producers /\ producer[p] # "awake"
      BY <1>0, <2>3 DEF Asleep
    <3>2. B = A + 1
      BY Zenon, <1>0, <2>3, <3>1, AwakeAdds, ProducersFinite DEF A, B
    <3> QED BY <1>0, <3>2
  <2>4. Asleep(producer) # {}
    BY <1>0, <1>1, <1>13 DEF Asleep, SpuriousWake
  <2> QED BY <1>3, <1>13, <2>1, <2>2, <2>3, <2>4 DEF SpuriousWake
<1>14. ASSUME UNCHANGED <<queue, stop, stopper, producer>> PROVE Goal
  BY <1>0, <1>1, <1>3, <1>14 DEF A, B
<1>15. CASE \E w \in Workers : WorkerWaits(w) \/ WorkerRuns(w) \/ WorkerExits(w)
  <2>1. UNCHANGED <<queue, stop, stopper, producer>>
    BY <1>15 DEF WorkerWaits, WorkerRuns, WorkerExits
  <2> QED BY <2>1, <1>14
<1>16. CASE UNCHANGED vars
  BY <1>16, <1>14 DEF vars
<1> QED BY <1>5, <1>6, <1>7, <1>8, <1>9, <1>10, <1>11, <1>12, <1>13, <1>15, <1>16, NextCases
        DEF Idle, StopperStep

(* At the start nobody sleeps. *)
LEMMA InitWakeups == Init => WakeupsCoverQueue /\ WakeupsCoverSpace
BY DEF Init, WakeupsCoverQueue, WakeupsCoverSpace, Asleep

-----------------------------------------------------------------------------
(* The theorems. *)

IInv == Basic /\ TaskInv /\ StopInv /\ WakeupsCoverQueue /\ WakeupsCoverSpace

(* The inductive invariant: where every task is, and whom a notify still has to
   reach. *)
THEOREM PoolInvariance == Spec => []IInv
<1>1. Init => IInv
  BY InitBasic, InitTask, InitWakeups DEF IInv
<1>2. IInv /\ [Next]_vars => IInv'
  BY StepBasic, StepTask, StepStop, StepCoversQueue, StepCoversSpace DEF IInv
<1> QED BY <1>1, <1>2, PTL DEF Spec

(* The state keeps its types, and queue_ never outgrows max_queue_depth. *)
THEOREM PoolTypes == Spec => []TypeOK
<1>1. IInv => TypeOK
  BY DEF IInv, Basic
<1> QED BY <1>1, PoolInvariance, PTL

(* A task whose submit() returned true is queued, running, executed once or
   discarded: never lost, never run twice, whatever stop() does meanwhile. *)
THEOREM TasksExactlyOnce == Spec => []ExactlyOnce
<1>1. IInv => ExactlyOnce
  BY TaskOnce DEF IInv
<1> QED BY <1>1, PoolInvariance, PTL

(* No lost wake-up on not_empty_: one notify_one per task is enough. *)
THEOREM NoTaskStranded == Spec => []WakeupsCoverQueue
<1>1. IInv => WakeupsCoverQueue
  BY DEF IInv
<1> QED BY <1>1, PoolInvariance, PTL

(* No lost wake-up on not_full_: one notify_one per popped task is enough. *)
THEOREM NoSubmitterStranded == Spec => []WakeupsCoverSpace
<1>1. IInv => WakeupsCoverSpace
  BY DEF IInv
<1> QED BY <1>1, PoolInvariance, PTL

(* The stop() that joins the workers returns with every accepted task executed,
   unless stop_no_drain() discarded it. *)
THEOREM StopDrains == Spec => []JoinedMeansDrained
<1>1. IInv => JoinedMeansDrained
  BY Drained DEF IInv
<1> QED BY <1>1, PoolInvariance, PTL

-----------------------------------------------------------------------------
(* No standstill. *)

(* stop() is past its first check only with stop_ set. *)
StopPast == \A s \in Stoppers : stopper[s] # "out" => stop

(* stop_ is never reset, and a stopper moves on only after it is set. *)
LEMMA StepPast == TypeOK /\ StopPast /\ [Next]_vars => StopPast'
<1> SUFFICES ASSUME TypeOK, StopPast, [Next]_vars PROVE StopPast'
  OBVIOUS
<1>1. ASSUME UNCHANGED <<stop, stopper>> PROVE StopPast'
  BY <1>1 DEF StopPast
<1>2. ASSUME NEW s \in Stoppers, StopBegins(s) \/ StopNoDrainBegins(s) PROVE StopPast'
  BY <1>2 DEF StopBegins, StopNoDrainBegins, StopPast
<1>3. ASSUME NEW s \in Stoppers, StopAgain(s) \/ StopperStep(s) PROVE StopPast'
  <2>1. stop /\ stop' = stop
    BY <1>3 DEF StopAgain, StopperStep, StopNotifiesWorkers, StopNotifiesProducers, StopJoins,
                StopPast
  <2> QED BY <2>1 DEF StopPast
<1>4. ASSUME NEW p \in Producers, (\E t \in Tasks : SubmitCall(p, t)) \/ ProducerStep(p)
      PROVE  UNCHANGED <<stop, stopper>>
  BY <1>4 DEF SubmitCall, ProducerStep, SubmitRefused, SubmitWaits, SubmitAccepted
<1>5. ASSUME NEW w \in Workers, WorkerStep(w) PROVE UNCHANGED <<stop, stopper>>
  BY <1>5 DEF WorkerStep, WorkerWaits, WorkerTakes, WorkerRuns, WorkerExits
<1>6. ASSUME SpuriousWake \/ Quiet \/ UNCHANGED vars PROVE UNCHANGED <<stop, stopper>>
  BY <1>6 DEF SpuriousWake, Quiet, vars
<1> QED BY <1>1, <1>2, <1>3, <1>4, <1>5, <1>6 DEF Next

(* A submitter sleeps: a free slot is promised to one that is awake, or the queue is
   full and a worker is awake for it, or the notify_all of a stop is to come. *)
LEMMA SleeperIsServed ==
    ASSUME IInv, Asleep(producer) # {}
    PROVE  \/ \E p \in Producers : producer[p] = "awake"
           \/ \E w \in Workers : worker[w] \in {"awake", "run"}
           \/ \E s \in Stoppers : stopper[s] \in {"notify_empty", "notify_full"}
<1>1. CASE stop
  BY <1>1 DEF IInv, WakeupsCoverSpace
<1>2. CASE ~stop /\ \A p \in Producers : producer[p] # "awake"
  <2>1. Cardinality({p \in Producers : producer[p] = "awake"}) = 0
    <3>1. {p \in Producers : producer[p] = "awake"} = {}
      BY <1>2
    <3> QED BY <3>1, FS_EmptySet
  <2>2. MaxQueueDepth - Len(queue) <= 0
    BY <1>2, <2>1 DEF IInv, WakeupsCoverSpace
  <2>3. Len(queue) \in Nat /\ Len(queue) > 0
    <3>1. Len(queue) \in Nat
      BY DEF IInv, Basic, TypeOK
    <3> QED BY <2>2, <3>1, MaxQueueDepthAssumption
  <2>4. \A w \in Workers : worker[w] # "exited"
    BY <1>2 DEF IInv, StopInv
  <2>5. CASE Asleep(worker) # {}
    <3>1. Len(queue) <= Cardinality({w \in Workers : worker[w] = "awake"})
      BY <2>5 DEF IInv, WakeupsCoverQueue
    <3>2. {w \in Workers : worker[w] = "awake"} # {}
      BY <2>3, <3>1, FS_EmptySet
    <3> QED BY <3>2
  <2>6. CASE Asleep(worker) = {}
    <3>1. PICK w \in Workers : TRUE
      BY SomeWorker
    <3>2. worker \in [Workers -> WorkerPlaces]
      BY DEF IInv, Basic, TypeOK
    <3>3. worker[w] # "asleep"
      BY <2>6, <3>2 DEF Asleep
    <3> QED BY <2>4, <3>2, <3>3 DEF WorkerPlaces
  <2> QED BY <2>5, <2>6
<1> QED BY <1>1, <1>2

(* No interleaving of submits, tasks and stops, of any number of threads, brings the
   pool to a point where everybody in it waits. *)
THEOREM PoolNeverStandsStill == Spec => []NoStandstill
<1>1. Init => StopPast
  BY DEF Init, StopPast
<1>2. ASSUME IInv, StopPast PROVE NoStandstill
  <2>1. ASSUME NEW s \in Stoppers, stopper[s] = "join", NEW w \in Workers, worker[w] # "exited"
        PROVE  \/ \E v \in Workers : worker[v] \in {"awake", "run"}
               \/ \E r \in Stoppers : stopper[r] \in {"notify_empty", "notify_full"}
    <3>1. worker \in [Workers -> WorkerPlaces] /\ stop
      BY <1>2, <2>1 DEF IInv, Basic, TypeOK, StopPast
    <3>2. CASE worker[w] \in {"awake", "run"}
      BY <3>2
    <3>3. CASE worker[w] = "asleep"
      <4>1. Asleep(worker) # {}
        BY <3>1, <3>3 DEF Asleep
      <4> QED BY <1>2, <3>1, <4>1 DEF IInv, WakeupsCoverQueue
    <3> QED BY <2>1, <3>1, <3>2, <3>3 DEF WorkerPlaces
  <2> QED BY <1>2, <2>1, SleeperIsServed DEF NoStandstill
<1>3. IInv => TypeOK
  BY DEF IInv, Basic
<1> QED BY <1>1, <1>2, <1>3, StepPast, PoolInvariance, PTL DEF Spec

-----------------------------------------------------------------------------
(* ThreadPool implements TaskPool. *)

Gone == {w \in Workers : worker[w] = "exited"}

(* A step of ThreadPool is a step of TaskPool or leaves what TaskPool sees alone. *)
LEMMA StepSimulates ==
    ASSUME Basic, [Next]_vars
    PROVE  [Abstract!PoolNext]_(Abstract!poolVars)
<1> USE DEF Basic
<1>1. ASSUME \A w \in Workers : ~WorkerExits(w) PROVE Gone' = Gone
  BY <1>1, Exited DEF Gone
<1>2. ASSUME UNCHANGED <<queue, stop, running, Gone>>
      PROVE  UNCHANGED Abstract!poolVars
  BY <1>2 DEF Abstract!poolVars, Gone
<1>3. ASSUME NEW w \in Workers, WorkerExits(w) PROVE Abstract!WorkerExit(w)
  <2>1. w \notin Gone /\ Gone' = Gone \cup {w}
    BY <1>3 DEF WorkerExits, Gone, TypeOK
  <2>2. running[w] = NoTask
    BY <1>3 DEF WorkerExits, RunInv, TypeOK
  <2>3. stop /\ queue = <<>> /\ UNCHANGED <<queue, stop, running>>
    BY <1>3 DEF WorkerExits, WorkerMayExit
  <2> QED BY <2>1, <2>2, <2>3 DEF Abstract!WorkerExit, Gone
<1> SUFFICES ASSUME \A w \in Workers : ~WorkerExits(w)
             PROVE  [Abstract!PoolNext]_(Abstract!poolVars)
  BY <1>3 DEF Abstract!PoolNext
<1>4. Gone' = Gone
  BY <1>1
<1>5. ASSUME NEW p \in Producers, SubmitAccepted(p) PROVE \E t \in Tasks : Abstract!Submit(t)
  <2>1. offered[p] \in Tasks
    BY SMTT(30), <1>5 DEF SubmitAccepted, OfferInv
  <2>2. Abstract!Submit(offered[p])
    BY <1>4, <1>5 DEF SubmitAccepted, Refuses, Full, Gone, Abstract!Submit, Abstract!Full
  <2> QED BY <2>1, <2>2
<1>6. ASSUME NEW w \in Workers, WorkerTakes(w) PROVE Abstract!Take(w)
  <2>1. running[w] = NoTask /\ w \notin Gone
    BY <1>6 DEF WorkerTakes, RunInv, TypeOK, Gone
  <2> QED BY <1>4, <1>6, <2>1 DEF WorkerTakes, Gone, Abstract!Take
<1>7. ASSUME NEW w \in Workers, WorkerRuns(w) PROVE Abstract!Finish(w)
  <2>1. running[w] # NoTask
    BY <1>7, NoTaskIsNoTask DEF WorkerRuns, RunInv
  <2> QED BY <1>4, <1>7, <2>1 DEF WorkerRuns, Gone, Abstract!Finish
<1>8. ASSUME NEW s \in Stoppers, StopNoDrainBegins(s) PROVE Abstract!StopNoDrain
  BY <1>4, <1>8 DEF StopNoDrainBegins, Gone, Abstract!StopNoDrain
<1>9. ASSUME NEW s \in Stoppers, StopBegins(s) PROVE Abstract!Stop
  BY SMTT(30), <1>4, <1>9 DEF StopBegins, Gone, Abstract!Stop
<1>10. ASSUME Idle, \A s \in Stoppers : ~StopBegins(s) PROVE UNCHANGED <<queue, stop, running>>
  BY <1>10 DEF Idle, SubmitCall, SubmitRefused, SubmitWaits, WorkerWaits, WorkerExits,
               StopAgain, StopperStep, StopNotifiesWorkers, StopNotifiesProducers,
               StopJoins, SpuriousWake, vars
<1> QED BY SMTT(30), <1>2, <1>4, <1>5, <1>6, <1>7, <1>8, <1>9, <1>10, NextCases DEF Abstract!PoolNext

(* Every behaviour of the pool with its mutex and condition variables is, seen
   from outside, one of TaskPool, which Router is built on. *)
THEOREM PoolRefinement == Spec => ThreadPoolImplementsTaskPool
<1>1. Init => Abstract!PoolInit
  BY DEF Init, Abstract!PoolInit
<1>2. IInv /\ [Next]_vars => [Abstract!PoolNext]_(Abstract!poolVars)
  BY StepSimulates DEF IInv
<1> QED BY <1>1, <1>2, PoolInvariance, PTL
        DEF Spec, ThreadPoolImplementsTaskPool, Abstract!PoolSpec
=============================================================================
