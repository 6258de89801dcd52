------------------------------ MODULE Shutdown ------------------------------
(***************************************************************************)
(* Shutdown: the signal handler, request() and the wait loop of main().     *)
(* signal_handler calls request(), which locks mu_, on whichever thread the *)
(* kernel delivers the signal to.  mu_ is a plain std::mutex: a thread that *)
(* locks it while holding it blocks for ever (what glibc does).  A signal   *)
(* is blocked while its own handler runs on that thread; sa_mask is empty,  *)
(* so the other signal may interrupt the handler.                           *)
(***************************************************************************)
EXTENDS Naturals, Sequences

CONSTANTS
    Threads,       \* threads of the process, Main among them
    Main,
    Signals,       \* {SIGTERM, SIGINT}
    Targets,       \* threads the kernel may deliver a signal to
    MaxDeliveries, \* bound on the number of signals sent
    Nobody         \* mu_ is free

ASSUME MainAssumption == Main \in Threads /\ Targets \subseteq Threads
ASSUME NobodyAssumption == Nobody \notin Threads
ASSUME DeliveriesAssumption == MaxDeliveries \in Nat

VARIABLES
    requested,  \* requested_
    mu,         \* holder of mu_
    main,       \* where main() is in the wait loop
    frames,     \* frames[t]: handler frames on thread t, innermost last
    deliveries

vars == <<requested, mu, main, frames, deliveries>>

Init ==
    /\ requested = FALSE
    /\ mu = Nobody
    /\ main = "test"
    /\ frames = [t \in Threads |-> <<>>]
    /\ deliveries = 0

-----------------------------------------------------------------------------
(* Signals.  A frame is [signal, at], at naming the next step of request(). *)

Interrupted(t) == frames[t] # <<>>

Top(t) == frames[t][Len(frames[t])]

At(t, place) == Interrupted(t) /\ Top(t).at = place

Advance(t, place) == frames' = [frames EXCEPT ![t][Len(frames[t])].at = place]

Deliver(t, s) ==
    /\ deliveries < MaxDeliveries
    /\ \A i \in DOMAIN frames[t] : frames[t][i].signal # s
    /\ frames' = [frames EXCEPT ![t] = Append(@, [signal |-> s, at |-> "store"])]
    /\ deliveries' = deliveries + 1
    /\ UNCHANGED <<requested, mu, main>>

(* requested_.store(true) *)
RequestStores(t) ==
    /\ At(t, "store")
    /\ requested' = TRUE
    /\ Advance(t, "lock")
    /\ UNCHANGED <<mu, main, deliveries>>

RequestSkipsLock(t) ==
    /\ At(t, "lock")
    /\ Advance(t, "notify")
    /\ UNCHANGED <<requested, mu, main, deliveries>>

(* lock_guard lock(mu_): blocks also when t itself holds mu_. *)
RequestLocks(t) ==
    /\ At(t, "lock")
    /\ mu = Nobody
    /\ mu' = t
    /\ Advance(t, "notify")
    /\ UNCHANGED <<requested, main, deliveries>>

(* cv_.notify_all(), unlock, return from the handler. *)
RequestNotifies(t) ==
    /\ At(t, "notify")
    /\ main' = IF main = "asleep" THEN "relock" ELSE main
    /\ mu' = Nobody
    /\ frames' = [frames EXCEPT ![t] = SubSeq(@, 1, Len(@) - 1)]
    /\ UNCHANGED <<requested, deliveries>>

-----------------------------------------------------------------------------
(* main(): while (!requested()) wait(1000ms).  Not run while interrupted. *)

MainGoto(from, to) ==
    /\ ~Interrupted(Main)
    /\ main = from
    /\ main' = to

LoopTest ==
    /\ MainGoto("test", IF requested THEN "drain" ELSE "lock")
    /\ UNCHANGED <<requested, mu, frames, deliveries>>

WaitLocks ==
    /\ MainGoto("lock", "predicate")
    /\ mu = Nobody
    /\ mu' = Main
    /\ UNCHANGED <<requested, frames, deliveries>>

WaitUnconditionally ==
    /\ MainGoto("predicate", "sleep")
    /\ UNCHANGED <<requested, mu, frames, deliveries>>

(* wait_for() evaluates its predicate with mu_ held. *)
WaitPredicate ==
    /\ MainGoto("predicate", IF requested THEN "return" ELSE "sleep")
    /\ UNCHANGED <<requested, mu, frames, deliveries>>

(* Release mu_ and block, in one step. *)
WaitSleeps ==
    /\ MainGoto("sleep", "asleep")
    /\ mu' = Nobody
    /\ UNCHANGED <<requested, frames, deliveries>>

(* The timeout, or a spurious wake-up. *)
WaitTimesOut ==
    /\ MainGoto("asleep", "relock")
    /\ UNCHANGED <<requested, mu, frames, deliveries>>

(* mu_ is taken again; after a timeout the predicate is evaluated once more
   and wait_for() returns, otherwise its loop goes on. *)
WaitRelocks ==
    /\ \/ MainGoto("relock", "predicate")
       \/ MainGoto("relock", "return")
    /\ mu = Nobody
    /\ mu' = Main
    /\ UNCHANGED <<requested, frames, deliveries>>

(* wait() returns and mu_ is released. *)
WaitReturns ==
    /\ MainGoto("return", "test")
    /\ mu' = Nobody
    /\ UNCHANGED <<requested, frames, deliveries>>

-----------------------------------------------------------------------------
HandlerStep(t) == RequestStores(t) \/ RequestLocks(t) \/ RequestNotifies(t)

MainRuns ==
    \/ LoopTest
    \/ WaitLocks
    \/ WaitPredicate
    \/ WaitSleeps
    \/ WaitRelocks
    \/ WaitReturns

Next ==
    \/ \E t \in Targets, s \in Signals : Deliver(t, s)
    \/ \E t \in Threads : HandlerStep(t)
    \/ MainRuns
    \/ WaitTimesOut
    \/ main = "drain" /\ UNCHANGED vars

Spec == Init /\ [][Next]_vars

(* Every thread is scheduled; the 1 s timer of wait_for() fires. *)
FairSpec ==
    /\ Spec
    /\ WF_vars(MainRuns)
    /\ WF_vars(WaitTimesOut)
    /\ \A t \in Threads : WF_vars(HandlerStep(t))

(* The same without relying on the timer. *)
NoTimerSpec ==
    /\ Spec
    /\ WF_vars(MainRuns)
    /\ \A t \in Threads : WF_vars(HandlerStep(t))

-----------------------------------------------------------------------------
(* Type invariant; a thread has at most one handler frame per signal. *)
TypeOK ==
    /\ requested \in BOOLEAN
    /\ mu \in Threads \cup {Nobody}
    /\ main \in {"test", "lock", "predicate", "sleep", "asleep", "relock", "return", "drain"}
    /\ frames \in [Threads -> Seq([signal : Signals, at : {"store", "lock", "notify"}])]
    /\ \A t \in Threads : \A i, j \in DOMAIN frames[t] :
          frames[t][i].signal = frames[t][j].signal => i = j
    /\ deliveries \in 0..MaxDeliveries

(* A signal handler that has stored the request and has yet to notify. *)
Notifying(t) == \E i \in DOMAIN frames[t] : frames[t][i].at \in {"lock", "notify"}

(* No lost wake-up: when main() has found no request and goes to sleep, or sleeps,
   although there is one, a handler is still to call notify_all().  This is what
   the lock around the notify in request() is for. *)
NoLostWakeup ==
    requested /\ main \in {"sleep", "asleep"} => \E t \in Threads : Notifying(t)

(* The handler on t waits for mu_, held by main()'s wait() or by an outer handler
   frame of the same thread: both resume only when the handler returns. *)
SelfDeadlock(t) == At(t, "lock") /\ mu = t

(* A handler, or main() outside its sleep, has a step to take. *)
SomeoneRuns ==
    \/ \E t \in Threads : At(t, "store") \/ At(t, "notify") \/ (At(t, "lock") /\ mu = Nobody)
    \/ /\ ~Interrupted(Main)
       /\ \/ main \in {"test", "predicate", "sleep", "return"}
          \/ main \in {"lock", "relock"} /\ mu = Nobody

(* A request stalls for one reason only: a handler waiting for a lock its own thread
   holds.  Whichever threads the two signals reach and however they nest, there is
   no other wait on mu_ that nobody ends, and no sleep that nobody interrupts. *)
StuckOnlyOnItself ==
    requested /\ main # "drain" => SomeoneRuns \/ \E t \in Threads : SelfDeadlock(t)

(* A self-deadlock has one of two causes: the handler interrupted main() between
   the lock and the unlock of wait(), or it interrupted the handler of the other
   signal between its lock and its return.  docs/shutdown.md:16-18 counts on neither. *)
SelfDeadlockByNesting ==
    \A t \in Threads : SelfDeadlock(t) =>
        \/ t = Main /\ main \in {"predicate", "sleep", "return"}
        \/ \E i \in DOMAIN frames[t] : i # Len(frames[t]) /\ frames[t][i].at = "notify"

(* Unless a handler deadlocks on its own thread, a request reaches main() without
   the help of the one-second timer, whichever threads the signals reach. *)
DrainsUnlessSelfDeadlocked ==
    requested ~> main = "drain" \/ \E t \in Threads : SelfDeadlock(t)

(* A shutdown request reaches main() and the drain begins, as docs/shutdown.md:18-20
   promises for a signal on any thread. *)
RequestStartsDrain ==
    requested ~> main = "drain"
=============================================================================
