------------------------------ MODULE Startup -------------------------------
(***************************************************************************)
(* main() from the installed signal handlers to its wait loop, composed     *)
(* with Router: the pools, the TLS context and Acceptor::start(), each of   *)
(* which may fail.  A failure returns from main(), so the destructors run   *)
(* in reverse order of construction while the workers are already there     *)
(* and the kernel may already be queueing clients on the listen socket.     *)
(***************************************************************************)
EXTENDS Router

VARIABLE boot  \* where main() is in its start-up or its early return

startupVars == <<vars, boot>>

StartupInit ==
    /\ HandlerInit
    /\ stage = [c \in Conns |-> "none"]
    /\ Pool!PoolInit
    /\ listening = FALSE /\ wake = FALSE /\ acceptor_stop = FALSE
    /\ acceptor = "none" /\ events = {}
    /\ accepted = 0 /\ dropped = 0
    /\ requested = FALSE /\ main = "wait" /\ grace_expired = FALSE
    /\ boot = "construct"

BootGoto(from, to) ==
    /\ boot = from
    /\ boot' = to

(* BackendSet and ThreadPool are built; the workers wait for work. *)
Construct ==
    /\ BootGoto("construct", IF Tls THEN "init_tls" ELSE "listen")
    /\ UNCHANGED vars

(* --tls without a certificate or key, or TlsContext::init_server(), which gives
   up at the first of its calls that fails. *)
InitTls(ok) ==
    /\ BootGoto("init_tls", IF ok THEN "listen" ELSE "unwind")
    /\ UNCHANGED vars

ListenLaunchesThread(ok) ==
    /\ BootGoto("listen", IF ok THEN "set_up" ELSE "unwind")
    /\ listening' = ok
    /\ acceptor' = IF ok THEN "check" ELSE acceptor
    /\ UNCHANGED <<handlerVars, poolVars, wake, acceptor_stop, events, accepted, mainVars>>

(* listen_tcp(): the first address that can be bound, or none. *)
Listen(ok) ==
    /\ BootGoto("listen", IF ok THEN "set_up" ELSE "unwind")
    /\ listening' = ok
    /\ UNCHANGED <<handlerVars, poolVars, wake, acceptor_stop, acceptor, events,
                   accepted, mainVars>>

(* The rest of Acceptor::start(): O_NONBLOCK, eventfd, epoll; the thread is
   launched when nothing can fail any more. *)
SetUp(ok) ==
    /\ BootGoto("set_up", IF ok THEN "up" ELSE "unwind")
    /\ acceptor' = IF ok THEN "check" ELSE acceptor
    /\ UNCHANGED <<handlerVars, poolVars, listening, wake, acceptor_stop, events,
                   accepted, mainVars>>

(* ~Acceptor: stop() returns at once, because start() did not get to the thread,
   and closes nothing.  ~ThreadPool: stop() up to its joins. *)
Unwind ==
    /\ BootGoto("unwind", "join")
    /\ Pool!Stop
    /\ UNCHANGED <<handlerVars, acceptorVars, mainVars>>

(* The workers are joined, ~BackendSet, return 1 or 2; the kernel closes what
   is open and resets the connections queued on the listen socket. *)
ReturnEarly ==
    /\ BootGoto("join", "gone")
    /\ exited = Workers
    /\ listening' = FALSE
    /\ stage' = [c \in Conns |-> IF stage[c] = "backlog" THEN "refused" ELSE stage[c]]
    /\ UNCHANGED <<lease, reply, closes, in_flight, completed, errored, poolVars,
                   wake, acceptor_stop, acceptor, events, accepted, mainVars>>

BootStep ==
    \/ Construct
    \/ \E ok \in BOOLEAN : InitTls(ok) \/ Listen(ok) \/ SetUp(ok)
    \/ Unwind
    \/ ReturnEarly

WorkerStep(w) == WorkerTake(w) \/ WorkerLocal(w) \/ WorkerFinish(w) \/ WorkerLeaves(w)

(* Threads and clients go on during the start-up; main()'s own steps follow it. *)
OtherStep ==
    /\ boot # "gone"
    /\ \/ \E c \in Conns : Connect(c)
       \/ Signal
       \/ GraceExpires
       \/ AcceptorStep
       \/ \E w \in Workers : WorkerStep(w) \/ WorkerSend(w)
    /\ UNCHANGED boot

ServeStep == boot = "up" /\ MainStep /\ UNCHANGED boot

Over == (boot = "gone" \/ main = "exit") /\ UNCHANGED startupVars

StartupNext ==
    \/ BootStep
    \/ OtherStep
    \/ ServeStep
    \/ Over

StartupSafety == StartupInit /\ [][StartupNext]_startupVars

(* The fairness of Router, a start-up in which every call returns, and peers
   that read what is sent to them. *)
StartupSpec ==
    /\ StartupSafety
    /\ WF_startupVars(BootStep)
    /\ WF_startupVars(ServeStep)
    /\ WF_startupVars(GraceExpires /\ UNCHANGED boot)
    /\ WF_startupVars(AcceptorStep /\ UNCHANGED boot)
    /\ \A w \in Workers : /\ WF_startupVars(WorkerStep(w) /\ UNCHANGED boot)
                          /\ WF_startupVars(WorkerSend(w) /\ UNCHANGED boot)

-----------------------------------------------------------------------------
(* A signal whose handler returns ends the process: one that finds main() still
   starting up is seen by the wait loop, an early return is not held up by it, and
   neither a full queue nor an acceptor in the middle of its accepts keeps main() in
   its joins.  It needs two things of the environment.  Arrivals cease: Conns is
   finite and a client connects once, for the inner loop at acceptor.cpp:126-136
   does not look at stop_, and clients that keep coming would hold main() in the
   join at acceptor.cpp:75, before main.cpp:266 starts the grace clock.  And the
   handler returns, which fails for a signal that interrupts a holder of mu_ on its
   own thread (SelfDeadlock in module Shutdown). *)
SignalEndsProcess ==
    requested ~> main = "exit" \/ boot = "gone"

(* The state in which main() reaches its wait loop is one Router starts from,
   whatever clients and signals did during the start-up. *)
StartEstablishesRouter ==
    [][boot # "up" /\ boot' = "up" => Init']_startupVars

(* A start-up that fails serves nobody: no connection was taken off the listen
   socket, those the kernel queued there are refused, and the workers are gone
   before the objects they use. *)
FailedStartServesNobody ==
    boot = "gone" =>
        /\ accepted = 0
        /\ \A c \in Conns : stage[c] \in {"none", "refused"}
        /\ exited = Workers
=============================================================================
