------------------------------- MODULE Router -------------------------------
(***************************************************************************)
(* The running process: the acceptor thread, the worker pool (TaskPool),   *)
(* the handlers (Handler) and the drain protocol of main().  Clients       *)
(* connect whenever they like and SIGTERM/SIGINT may come at any time.     *)
(***************************************************************************)
EXTENDS Handler, FiniteSets, Sequences

CONSTANTS
    Workers,        \* --threads
    MaxQueueDepth,  \* ThreadPool::Options::max_queue_depth, 4096 in main()
    NoTask

ASSUME ConnsFinite == IsFiniteSet(Conns)
ASSUME SomeWorker == Workers # {}
ASSUME NoTaskFresh == NoTask \notin Conns
ASSUME QueueDepth == MaxQueueDepth \in Nat \ {0}

VARIABLES
    queue, stopped, running, exited,   \* the worker pool, see TaskPool
    listening,     \* the listen socket is open
    wake,          \* the eventfd of the acceptor is readable
    acceptor_stop, \* Acceptor::stop_
    acceptor,      \* where the acceptor thread is in loop_()
    events,        \* epoll events still to be handled in this iteration
    accepted,      \* Metrics::accepted_
    dropped,       \* Metrics::dropped_
    requested,     \* Shutdown::requested_
    main,          \* where main() is, named for what comes next
    grace_expired  \* the clock has passed grace_end

Pool == INSTANCE TaskPool WITH Tasks <- Conns

poolVars == <<queue, stopped, running, exited>>
acceptorVars == <<listening, wake, acceptor_stop, acceptor, events, accepted>>
mainVars == <<dropped, requested, main, grace_expired>>
vars == <<handlerVars, poolVars, acceptorVars, mainVars>>

AcceptorPlaces == {"check", "epoll_wait", "dispatch", "accept", "submit", "exited"}
MainPlaces == {"wait", "stop_flag", "wake", "join", "close", "poll", "check",
               "count", "pool_stop", "pool_join", "backend_shutdown", "exit"}

(* What a successful start-up leaves behind (module Startup): clients may have
   connected or been refused meanwhile, and a signal may have come. *)
Init ==
    /\ HandlerInit
    /\ Pool!PoolInit
    /\ listening = TRUE
    /\ wake = FALSE
    /\ acceptor_stop = FALSE
    /\ acceptor = "check"
    /\ events = {}
    /\ accepted = 0
    /\ dropped = 0
    /\ requested \in BOOLEAN
    /\ main = "wait"
    /\ grace_expired = FALSE

-----------------------------------------------------------------------------
(* The environment. *)

(* A client connects: the kernel queues the connection on the listen socket,
   or refuses it once that socket is closed. *)
Connect(c) ==
    /\ Goto(c, "none", IF listening THEN "backlog" ELSE "refused")
    /\ UNCHANGED <<lease, reply, closes, in_flight, completed, errored,
                   poolVars, acceptorVars, mainVars>>

(* SIGTERM or SIGINT, in the case that the handler returns: request() takes a lock
   (shutdown.cpp:40), and a handler that interrupts a holder of it on its own thread
   never returns.  Module Shutdown has that case; it is left out here. *)
Signal ==
    /\ ~requested
    /\ requested' = TRUE
    /\ UNCHANGED <<handlerVars, poolVars, acceptorVars, dropped, main, grace_expired>>

(* The clock passes grace_end. *)
GraceExpires ==
    /\ main \in {"poll", "check", "count"}
    /\ ~grace_expired
    /\ grace_expired' = TRUE
    /\ UNCHANGED <<handlerVars, poolVars, acceptorVars, dropped, requested, main>>

-----------------------------------------------------------------------------
(* The acceptor thread. *)

AcceptorGoto(from, to) ==
    /\ acceptor = from
    /\ acceptor' = to

(* while (!stop_) *)
LoopCheck ==
    /\ AcceptorGoto("check", IF acceptor_stop THEN "exited" ELSE "epoll_wait")
    /\ UNCHANGED <<handlerVars, poolVars, listening, wake, acceptor_stop,
                   events, accepted, mainVars>>

Ready == {e \in {"wake", "listen"} :
             \/ e = "wake" /\ wake
             \/ e = "listen" /\ \E c \in Conns : stage[c] = "backlog"}

(* epoll_wait() returns what is ready, or nothing: its timeout or EINTR. *)
EpollReturns ==
    /\ AcceptorGoto("epoll_wait", "dispatch")
    /\ events' \in {Ready, {}}
    /\ UNCHANGED <<handlerVars, poolVars, listening, wake, acceptor_stop, accepted, mainVars>>

(* epoll_wait() fails for good: the loop is left. *)
EpollFails ==
    /\ AcceptorGoto("epoll_wait", "exited")
    /\ UNCHANGED <<handlerVars, poolVars, listening, wake, acceptor_stop,
                   events, accepted, mainVars>>

(* One iteration of the loop over the events, or its end. *)
Dispatch ==
    /\ acceptor = "dispatch"
    /\ \/ /\ events = {}
          /\ acceptor' = "check"
          /\ UNCHANGED <<wake, events>>
       \/ /\ "wake" \in events
          /\ events' = events \ {"wake"}
          /\ wake' = FALSE
          /\ UNCHANGED acceptor
       \/ /\ "listen" \in events
          /\ events' = events \ {"listen"}
          /\ acceptor' = "accept"
          /\ UNCHANGED wake
    /\ UNCHANGED <<handlerVars, poolVars, listening, acceptor_stop, accepted, mainVars>>

(* accept4() succeeds; inc_accepted(); on_accept_ is entered.  stop_ is not
   looked at in this inner loop, which goes on as long as clients are waiting: it
   ends here because Conns is finite and each client connects once. *)
AcceptConn(c) ==
    /\ AcceptorGoto("accept", "submit")
    /\ Goto(c, "backlog", "submitting")
    /\ accepted' = accepted + 1
    /\ UNCHANGED <<lease, reply, closes, in_flight, completed, errored,
                   poolVars, listening, wake, acceptor_stop, events, mainVars>>

(* accept4() returns EAGAIN or fails: the inner loop is left. *)
AcceptEnds ==
    /\ AcceptorGoto("accept", "dispatch")
    /\ UNCHANGED <<handlerVars, poolVars, listening, wake, acceptor_stop,
                   events, accepted, mainVars>>

(* on_accept_: pool.submit() blocks while the queue is full, and returns false
   once the pool is stopped; then the connection is closed and counted. *)
SubmitConn(c) ==
    /\ AcceptorGoto("submit", "accept")
    /\ Goto(c, "submitting", IF stopped THEN "turned_away" ELSE "queued")
    /\ IF stopped
       THEN /\ closes' = [closes EXCEPT ![c] = @ + 1]
            /\ errored' = errored + 1
            /\ UNCHANGED poolVars
       ELSE /\ Pool!Submit(c)
            /\ UNCHANGED <<closes, errored>>
    /\ UNCHANGED <<lease, reply, in_flight, completed, listening, wake,
                   acceptor_stop, events, accepted, mainVars>>

AcceptorStep ==
    \/ LoopCheck
    \/ EpollReturns
    \/ EpollFails
    \/ Dispatch
    \/ AcceptEnds
    \/ \E c \in Conns : AcceptConn(c) \/ SubmitConn(c)

-----------------------------------------------------------------------------
(* The workers. *)

WorkerTake(w) ==
    /\ Pool!Take(w)
    /\ Goto(Head(queue), "queued", "taken")
    /\ UNCHANGED <<lease, reply, closes, in_flight, completed, errored, acceptorVars, mainVars>>

WorkerLocal(w) ==
    /\ running[w] # NoTask
    /\ LocalStep(running[w])
    /\ UNCHANGED <<poolVars, acceptorVars, mainVars>>

WorkerSend(w) ==
    /\ running[w] # NoTask
    /\ SendStep(running[w])
    /\ UNCHANGED <<poolVars, acceptorVars, mainVars>>

(* The task returns.  A task that throws, which worker_main swallows, is left out:
   handle_one reports its errors by value, and a failed allocation is not modelled. *)
WorkerFinish(w) ==
    /\ Pool!Finish(w)
    /\ stage[running[w]] = "done"
    /\ UNCHANGED <<handlerVars, acceptorVars, mainVars>>

WorkerLeaves(w) ==
    /\ Pool!WorkerExit(w)
    /\ UNCHANGED <<handlerVars, acceptorVars, mainVars>>

-----------------------------------------------------------------------------
(* main() after start-up. *)

MainGoto(from, to) ==
    /\ main = from
    /\ main' = to

(* The wait loop ends: Acceptor::stop() is entered. *)
SeeRequest ==
    /\ requested
    /\ MainGoto("wait", "stop_flag")
    /\ UNCHANGED <<handlerVars, poolVars, acceptorVars, dropped, requested, grace_expired>>

StopAcceptorUnflagged ==
    /\ MainGoto("stop_flag", "wake")
    /\ UNCHANGED <<handlerVars, poolVars, acceptorVars, dropped, requested, grace_expired>>

StopAcceptor ==
    /\ MainGoto("stop_flag", "wake")
    /\ acceptor_stop' = TRUE
    /\ UNCHANGED <<handlerVars, poolVars, listening, wake, acceptor, events,
                   accepted, dropped, requested, grace_expired>>

WakeAcceptor ==
    /\ MainGoto("wake", "join")
    /\ wake' = TRUE
    /\ UNCHANGED <<handlerVars, poolVars, listening, acceptor_stop, acceptor,
                   events, accepted, dropped, requested, grace_expired>>

JoinAcceptorSkipped ==
    /\ MainGoto("join", "close")
    /\ UNCHANGED <<handlerVars, poolVars, acceptorVars, dropped, requested, grace_expired>>

JoinAcceptor ==
    /\ MainGoto("join", "close")
    /\ acceptor = "exited"
    /\ UNCHANGED <<handlerVars, poolVars, acceptorVars, dropped, requested, grace_expired>>

(* The listen socket is closed; the kernel resets what is in its backlog. *)
CloseListener ==
    /\ MainGoto("close", "poll")
    /\ listening' = FALSE
    /\ stage' = [c \in Conns |-> IF stage[c] = "backlog" THEN "refused" ELSE stage[c]]
    /\ UNCHANGED <<lease, reply, closes, in_flight, completed, errored, poolVars,
                   wake, acceptor_stop, acceptor, events, accepted, dropped,
                   requested, grace_expired>>

(* while (in_flight() > 0 && now < grace_end): the loop is left. *)
PollEnds ==
    /\ in_flight = 0 \/ grace_expired
    /\ MainGoto("poll", "check")
    /\ UNCHANGED <<handlerVars, poolVars, acceptorVars, dropped, requested, grace_expired>>

(* if (in_flight() > 0): a second, independent load. *)
CheckInFlight ==
    /\ MainGoto("check", IF in_flight > 0 THEN "count" ELSE "pool_stop")
    /\ UNCHANGED <<handlerVars, poolVars, acceptorVars, dropped, requested, grace_expired>>

(* remaining = in_flight(), a third load, and that many inc_dropped(). *)
CountDropped ==
    /\ MainGoto("count", "pool_stop")
    /\ dropped' = dropped + in_flight
    /\ UNCHANGED <<handlerVars, poolVars, acceptorVars, requested, grace_expired>>

StopPoolDiscarding ==
    /\ MainGoto("pool_stop", "pool_join")
    /\ Pool!StopNoDrain
    /\ UNCHANGED <<handlerVars, acceptorVars, dropped, requested, grace_expired>>

(* pool.stop() up to its joins. *)
StopPool ==
    /\ MainGoto("pool_stop", "pool_join")
    /\ Pool!Stop
    /\ UNCHANGED <<handlerVars, acceptorVars, dropped, requested, grace_expired>>

JoinWorkersSkipped ==
    /\ MainGoto("pool_join", "backend_shutdown")
    /\ UNCHANGED <<handlerVars, poolVars, acceptorVars, dropped, requested, grace_expired>>

JoinWorkers ==
    /\ MainGoto("pool_join", "backend_shutdown")
    /\ exited = Workers
    /\ UNCHANGED <<handlerVars, poolVars, acceptorVars, dropped, requested, grace_expired>>

(* backend_set.shutdown(), the final log line and return 0. *)
ShutdownBackends ==
    /\ MainGoto("backend_shutdown", "exit")
    /\ UNCHANGED <<handlerVars, poolVars, acceptorVars, dropped, requested, grace_expired>>

MainStep ==
    \/ SeeRequest
    \/ StopAcceptor
    \/ WakeAcceptor
    \/ JoinAcceptor
    \/ CloseListener
    \/ PollEnds
    \/ CheckInFlight
    \/ CountDropped
    \/ StopPool
    \/ JoinWorkers
    \/ ShutdownBackends

(* The process has exited. *)
Exited ==
    /\ main = "exit"
    /\ UNCHANGED vars

-----------------------------------------------------------------------------
Next ==
    \/ \E c \in Conns : Connect(c)
    \/ Signal
    \/ GraceExpires
    \/ AcceptorStep
    \/ \E w \in Workers :
          \/ WorkerTake(w)
          \/ WorkerLocal(w)
          \/ WorkerSend(w)
          \/ WorkerFinish(w)
          \/ WorkerLeaves(w)
    \/ MainStep
    \/ Exited

Spec == Init /\ [][Next]_vars

(* Threads are scheduled and the clock runs.  A worker's step is local, a read
   under a poll() deadline, or a wait with a deadline.  A send() on a blocking
   socket ends only when the peer reads, which nothing guarantees here. *)
DeafPeerSpec ==
    /\ Spec
    /\ WF_vars(MainStep)
    /\ WF_vars(GraceExpires)
    /\ WF_vars(AcceptorStep)
    /\ \A w \in Workers :
          WF_vars(WorkerTake(w) \/ WorkerLocal(w) \/ WorkerFinish(w) \/ WorkerLeaves(w))

-----------------------------------------------------------------------------
(* Properties. *)

(* Type invariant.  The metrics are Nat: dec_in_flight never takes the
   uint64_t counter below zero. *)
RouterTypeOK ==
    /\ stage \in [Conns -> Stages]
    /\ lease \in [Conns -> BOOLEAN]
    /\ reply \in [Conns -> {"none", "response", "error"}]
    /\ closes \in [Conns -> Nat]
    /\ in_flight \in Nat /\ completed \in Nat /\ errored \in Nat
    /\ accepted \in Nat /\ dropped \in Nat
    /\ queue \in Seq(Conns)
    /\ stopped \in BOOLEAN
    /\ running \in [Workers -> Conns \cup {NoTask}]
    /\ exited \in SUBSET Workers
    /\ listening \in BOOLEAN /\ wake \in BOOLEAN /\ acceptor_stop \in BOOLEAN
    /\ acceptor \in AcceptorPlaces
    /\ events \in SUBSET {"wake", "listen"}
    /\ requested \in BOOLEAN /\ grace_expired \in BOOLEAN
    /\ main \in MainPlaces

(* The invariant the chaos test samples at one point: when main() returns,
   completed + errored = accepted, whatever was queued, running or blocked in
   submit() when the signal came, and whether or not the grace period ended. *)
ExitAccounted ==
    main = "exit" => completed + errored = accepted

(* At exit no accepted connection has been forgotten: each one was handled to
   the end and its client descriptor is closed. *)
ExitLeavesNothingOpen ==
    main = "exit" =>
        \A c \in Conns : stage[c] \notin Outside => stage[c] = "done" /\ closes[c] = 1

(* A client descriptor is closed at most once: by the handler, by a failed
   TLS handshake, or by the refusal branch of main()'s callback.  A second
   close() could hit a descriptor the kernel has given to another thread. *)
FdClosedOnce ==
    \A c \in Conns : closes[c] <= 1

(* in_flight, the only thing the drain loop looks at, is the number of
   connections inside handle_one. *)
InFlightExact ==
    in_flight = Cardinality({c \in Conns : stage[c] \in InHandler})

(* completed counts exactly the requests whose response reached the client
   in full, among those that have been counted. *)
CompletedMeansAnswered ==
    completed = Cardinality({c \in Conns : stage[c] \in Counted /\ reply[c] = "response"})

(* The refusal branch of the accept callback is never taken: main() joins the
   acceptor before it stops the pool. *)
SubmitNeverRefused ==
    \A c \in Conns : stage[c] # "turned_away"

(* When main() shuts the backend connections down, no handler holds one and
   none will ask for one any more. *)
BackendsIdleAtShutdown ==
    main \in {"backend_shutdown", "exit"} =>
        \A c \in Conns : ~lease[c] /\ stage[c] \notin Waiting \cup InHandler

(* docs/shutdown.md:34 and main.cpp:274: the grace deadline is the only way to
   a non-zero dropped. *)
DroppedOnlyAfterGrace ==
    dropped > 0 => grace_expired

(* docs/shutdown.md:26: when in_flight reached 0 in time, pool.stop() finds the
   queue empty. *)
QueueEmptyAtStop ==
    main = "pool_stop" /\ ~grace_expired => queue = <<>>

(* ARCHITECTURE.md:33-34: once Acceptor::stop() was called, "New `accept()` calls
   stop immediately". *)
NoAcceptAfterStop ==
    [][acceptor_stop => accepted' = accepted]_vars

(* metrics.h:14: dropped counts requests given up on without a response, so no
   request is counted both as dropped and as completed or errored. *)
DroppedNotAnswered ==
    completed + errored + dropped <= accepted

(* What inc_dropped() amounts to: it counts connections that were accepted, at most
   once each, and at exit it has not cost anyone the reply, since those counted as
   dropped have all been handled to the end and counted again. *)
DroppedWithinAccepted ==
    dropped <= accepted /\ (main = "exit" => dropped <= completed + errored)

(* docs/shutdown.md:38: once requests were dropped at the deadline, the pool
   is stopped without draining: no worker starts a queued task any more. *)
NoTaskStartsAfterDrop ==
    [][dropped > 0 /\ stopped =>
          \A w \in Workers : running[w] = NoTask => running'[w] = NoTask]_vars

(* docs/shutdown.md:42, "give up after 30s no matter what": once the grace
   period is over the process exits. *)
GraceBoundsExit ==
    grace_expired ~> main = "exit"

(* A connection the acceptor took is handled to the end, blocked in submit() or
   queued behind others as it may be. *)
AcceptedIsHandled ==
    \A c \in Conns : stage[c] = "submitting" ~> stage[c] = "done"

(* The router implements NoDrop. *)
Abstract == INSTANCE NoDrop WITH
    phase <- CASE main \in {"wait", "stop_flag", "wake", "join"} -> "serving"
               [] main \in {"close", "poll", "check", "count", "pool_stop"} -> "draining"
               [] main \in {"pool_join", "backend_shutdown"} -> "stopping"
               [] main = "exit" -> "exited",
    outstanding <- {c \in Conns : stage[c] \in Waiting \cup InHandler},
    answered <- {c \in Conns : stage[c] \in {"done", "turned_away"}}

(* Every accepted connection is answered or closed before the process exits,
   and none is accepted after the drain began. *)
RouterImplementsNoDrop == Abstract!NoDropSpec
=============================================================================
