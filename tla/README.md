# A TLA+ verification of inference-router

TLA+ modules that model the router from the start of `main()` to its exit, TLC
configurations that check them on small instances, and TLAPS proofs of the
main results for every instance. Source files are named as in the repository's
`src/` directory (`main.cpp` is the router's), documents by their path.

## 1. The system

One process accepts client connections, reads one length-prefixed request from
each, forwards it over a pooled backend connection and writes the reply back.

| part | state | operations | modelled by |
| --- | --- | --- | --- |
| Start-up (`main.cpp`, `acceptor.cpp`) | how far `main()` is | build pools, TLS context, `Acceptor::start()`, early returns | `Startup` |
| Acceptor (`acceptor.cpp`) | listen socket, eventfd, `stop_` | epoll loop, `stop()` | `Router` |
| Accept callback, drain (`main.cpp`) | where `main()` is, grace deadline | submit or turn away; stop acceptor, poll `in_flight`, count dropped, stop pool, shut backends down | `Router`, `NoDrop` |
| Worker pool (`thread_pool.cpp`) | queue, `stop_`, two condition variables | `submit`, `worker_main`, `stop`, `stop_no_drain` | `ThreadPool`, `TaskPool` |
| Handler (`handler.cpp`) | where each request is, its backend lease, its descriptor | `handle_one`, both overloads and transports | `Handler`, `RequestPath` |
| Metrics (`metrics.h`) | five counters | increments, one decrement | `Handler`, `Router` |
| Shutdown (`shutdown.cpp`) | `requested_`, `mu_`, handler frames | signal handler, `request()`, `wait()` | `Shutdown` |
| Backend set (`backend_set.cpp`) | per-backend load, `pick_mu_` | weighted pick, `borrow`, `release` | `BackendSet` |
| Backend pool (`backend_pool.cpp`) | idle list, `in_use_`, the reaper's deques, open descriptors | `borrow`, `release`, `shutdown`, reaper | `BackendPool` |
| Wire protocol (`connection.cpp`, `tls.cpp`) | partially read or written frame | `read_message`, `write_message`, `parse_frame` | `Wire` |
| TLS (`tls.cpp`) | `SSL*` per client | handshake, stream I/O, `close_stream`, `init_server` | `Handler`, `Wire`, `Startup` |
| Echo backend (`tools/backend_echo`) | messages of a connection | `serve_one` | `RequestPath`, `Wire` |

The threads are the acceptor, the workers, one reaper per backend and `main()`;
signals arrive on any of them. What is hard here: the drain decides from a
counter that does not see queued work; the acceptor may be blocked in `submit()`
while it is being joined; locks are dropped around dials, pings and closes; loads
change while they are compared; replies carry no identification; a signal handler
takes a lock; notifications are single.

## 2. Modules

- **Handler**: `stage[c]` is the program counter of the request on connection
  `c`. Each I/O call is one step with an arbitrary outcome `ok`; each metrics
  update, each `release` and each close is a step of its own, because other
  threads look at the counters in between. The plaintext and the TLS path differ
  in the handshake, which closes the descriptor itself when it fails
  (`count_handshake` skips `close`).
- **TaskPool**: the worker pool as its callers see it. **ThreadPool**: the same
  with its mutex and condition variables. A waiting thread is `asleep` or
  `awake`; `notify_one` wakes an arbitrary sleeper; one action is one critical
  section of `mu_`; the `notify_all` calls of `stop()` are separate steps because
  they follow the unlock. `ThreadPool` implements `TaskPool`.
- **Router**: acceptor, accept callback, workers and `main()`, over `Handler`
  and an `INSTANCE` of `TaskPool`. `main` and `acceptor` are program counters.
  The three loads of `in_flight` in `main()` are three actions. It starts where
  a successful start-up ends: clients may be waiting, a signal may have come.
- **Startup**: `Router` preceded by the start-up, `boot` being its program
  counter. Each call that can fail may; a failure runs the destructors while
  workers, clients and signals go on. A start-up that succeeds ends in an initial
  state of `Router` (`StartEstablishesRouter`).
- **NoDrop**: the promise of `docs/shutdown.md` without threads: what was
  accepted is answered or closed before exit; nothing is accepted after the
  acceptor was joined. `Router` implements it.
- **Shutdown**: signal frames on threads, `mu_` and the wait loop. `Router`'s
  action `Signal` is the outcome of this module when the handler returns; that it
  may not is Shutdown's subject, not Router's.
- **BackendSet**: callers that pick, borrow and release. The scan of
  `pick_lowest_load_locked_` is one action per atomic load, since `release()`
  decrements without `pick_mu_`. The products are taken modulo `Wrap` (2^64).
  `start` (the loads when the scan began) and `shrunk` (something was released)
  are for properties only. A pool's own `borrow()` succeeds or fails.
- **BackendPool**: borrowers, the caller of `shutdown()` and the reaper; one
  action per critical section of `mu_` or unlocked step. Descriptors are reused
  as the kernel does. `Swept` is the loop of the reaper's scan over the idle
  deque, slot by slot. `health_check` is chosen in `Init`. For properties only, `birth`
  and `returned` record what the pool itself forgets, and `missed` what was under a
  ping or in a `release()` past its load of `shutting_down_` when `shutdown()` held
  `mu_`.
- **RequestPath**: `BackendPool` with what travels on its connections: the
  handler's exchange, the reaper's ping, and a backend that answers in order,
  late or never. A message is a token that says whose it is; the program does
  not see the token, the property does.
- **Wire**: one direction of one connection, a writer and a reader, over a
  stream that hands bytes on in pieces of any size. `Radix` and `HeaderBytes`
  scale the length prefix down; encoding it goes through shifts, memory order and
  the byte swap as in the code. A plaintext `send()` that has begun has no deadline;
  `SSL_write` on the non-blocking socket has.
- **RouterProofs** (Router and Startup), **ThreadPoolProofs, BackendSetProofs,
  BackendPoolProofs, RequestPathProofs, WireProofs, ShutdownProofs**: the theorems.
  **Induction**: what the provers need to reason about recursive functions.
- **MC...**: instances for TLC, with the symmetry sets.

An operator placed before a definition whose name extends that definition's
(`HasRoomOffByOne`, `StopPoolDiscarding`, ...) is a plausible wrong version of
it. No specification uses these; they show that a property notices the mistake.

## 3. Runs

Passing:

| cfg | instance | what it shows |
| --- | --- | --- |
| RouterSafety | 3 clients, 2 workers, queue 1, TLS | counters exact; at exit `completed + errored = accepted` and nothing open; each descriptor closed once; no submit refused; backends idle at their shutdown |
| RouterLive | 3 clients, 1 worker, queue 1, TLS, from the start-up on | a failed start-up serves nobody; a successful one reaches `Router`; implements `NoDrop`; a signal ends the process, under the assumptions of section 4; accepted connections are handled |
| ThreadPoolAll | 3 tasks, 2 workers, 2 submitters, 2 stoppers, queue 2, both modes of a full queue | each accepted task in exactly one place; no lost wake-up; never is everybody waiting; the joining `stop()` drains; `stop()` and `submit()` return; tasks run; implements `TaskPool` |
| BackendPoolSafety | 3 borrowers, 3 descriptors, `max_size` 2, pings on or off, expiry, shutdown at any time | one owner per open connection; `in_use_` exact; a scan closes and keeps by the time since the last return; only what `shutdown()` missed stays open; without pings `max_size` respected |
| BackendSet | 5 threads, 3 backends of weights 2, unset and 1 | loads exact; the pick not above what any backend's weighted load was when the scan began; without releases, shares follow the weights |
| Wire | scripts with an empty, a longest allowed, a too long and an unencodable payload; buffer of 4 bytes; plaintext and TLS | whole messages in order whatever the pieces; agreement with `parse_frame`; reads and writes return |
| RequestPath | 2 handlers, `max_size` 1, pings, late, torn and missing answers | nobody reads a reply meant for another |
| ShutdownAnyThread | `main()` and 2 workers, 3 deliveries of two signals to any of them | a request starts the drain without the timer, or a handler waits for a mutex its own thread holds; nothing else stalls it; `main()` never sleeps on a request nobody is about to notify |

Expected violations: places where the code and a statement about it disagree.
The `findings` of `PROJECT.json` quote both sides.

| cfg | what TLC finds |
| --- | --- |
| RouterDroppedOnlyAfterGrace | a connection popped but not yet in `in_flight` enters the handler between two loads and is counted as dropped, with no deadline passed |
| RouterGraceBoundsExit | a worker blocked in `send()` keeps the process alive after the deadline |
| BackendPoolMaxSize | a dial during a health check exceeds the "hard upper bound" of `docs/pool.md:13`; `docs/pool.md:55-57` calls such dials deliberate, so the two passages disagree |
| ShutdownOnMain | the signal handler blocks on a mutex its own thread holds; this is what glibc's plain mutex does, by the C++ standard it is undefined. `ARCHITECTURE.md:28-31` says the handler neither locks nor notifies; `shutdown.cpp:40-41` does both |

Further disagreements that TLC shows when the named property is put in a cfg with
the given constants; they have no run of their own:

- `QueueEmptyAtStop`, `DroppedNotAnswered`, `NoTaskStartsAfterDrop` (constants of
  RouterDroppedOnlyAfterGrace): `pool.stop()` can find queued connections, a
  "dropped" request is also counted as errored or completed, and queued requests
  are started after the forced drop (`docs/shutdown.md:27`, `metrics.h:14`,
  `docs/shutdown.md:38`).
- `StopReturnsAfterJoin` (two stoppers): a second `stop()` does not wait for the
  joins (`thread_pool.h:46`).
- `NoAcceptAfterStop` (constants of RouterSafety): the inner loop of the acceptor
  does not test `stop_`, so connections are accepted after `Acceptor::stop()` set it
  (`ARCHITECTURE.md:33-34`). They are served; but see section 4.
- `NothingOpenAfterShutdown` (two borrowers, `MaxSize = 2`, timeouts 0, `MaxNow = 1`):
  survivors of a ping, or a connection whose `release()` read `shutting_down_` too
  early, go on the idle list after it was emptied (`ARCHITECTURE.md:39`,
  `backend_pool.h:53-55`). `main()` never turns health checks off, so the first can
  happen at every exit. `OnlyMissedStayOpen` shows that these two cases are all.
- `ScanKeepsMinIdle` (the same constants): the reaper does not look at `min_idle`,
  which `docs/pool.md:14` calls a floor when reaping.
- `ScanRecyclesOldConns` (one borrower, timeouts 1, `MaxNow = 3`): a connection
  outlives `max_lifetime` because `release()` resets `created`
  (`docs/pool.md:16`).
- `SleepsOnlyWhenFull`: the reaper puts survivors back without a notify
  (`backend_pool.cpp:174`), so a borrower sleeps beside an idle connection,
  against `docs/pool.md:19`; and, without pings, with three borrowers and
  `MaxSize = 1`, a notified borrower whose `wait_until()` reports a timeout leaves
  without looking at the pool, and the notification is lost to the next one.
- `RequestStartsDrain` with `Targets = {t1}` and two signals: SIGINT interrupts the
  SIGTERM handler inside its critical section (`sa_mask` is empty). With one signal
  that reaches only workers it holds, without the timer.

One divergence in the other direction: `docs/pool.md:86-90` describes a selection
without a lock, in which two borrowers can race onto the same pool. The code picks
and counts under `pick_mu_` (`backend_set.cpp:60-66`, as `backend_set.h:33-35`
explains), and `WeightedShare` holds of it; it would not hold of what the document
describes (the wrong version `BumpScanned`).

Bounds. A queue of one makes `submit()` block with three clients; two workers
give every pair of handlers. A queue of two is needed to tell a notify per task
from a notify when the queue becomes non-empty; two submitters and two workers
make both condition variables matter. Borrowers must outnumber `max_size`, or
nobody ever finds the pool full: three for two connections give a holder, a
dialler and a sleeper at once. Expiry is strict (`>`), so `MaxNow` exceeds the
timeouts where expiry matters. Five callers fill three backends beyond one round
of the weights. In Wire the buffer is smaller than the longest frame, so writes
stall, and three header bytes of radix two encode lengths up to seven, above
`MaxPayload`. `MaxDeliveries` bounds the signals sent. Symmetry is used in safety
runs only. Deadlock checking is off in Wire, where a closed connection is the
end, and in the two Shutdown runs, where a handler may block for ever. Only the
theorems of section 5 cover other sizes.

## 4. Fairness

- Startup (with Router): every thread that can step does (weak fairness per
  thread), the calls of the start-up return and the clock passes the deadline.
  Reads end because each chunk is read under a `poll()` deadline and a frame has
  a bounded length (`ReadReturns` of Wire); `borrow()` ends because its wait and
  its dial have deadlines. A plaintext `send()` has none, so its progress is an
  assumption about the peers: `StartupSpec` has it as fairness of `WorkerSend`,
  `DeafPeerSpec` of Router does not, and there the grace deadline fails to bound
  the exit. Clients need not connect and signals need not come.
- `SignalEndsProcess` assumes two more things. Arrivals cease: the clients are
  finite and each connects once. The inner accept loop (`acceptor.cpp:126-136`) does
  not test `stop_`, so clients that keep connecting without a pause would hold
  `main()` in the join at `acceptor.cpp:75`, before `main.cpp:266` starts the grace
  clock: not even the deadline would end the process. And the signal handler
  returns: one that interrupts a holder of `mu_` on its own thread does not
  (ShutdownOnMain); delivered to `main()` inside `wait()`, the process stays.
- ThreadPool: weak fairness per thread. Nobody has to call anything and no
  spurious wake-up has to happen, so no liveness result depends on one.
- Wire: both threads are scheduled and `poll()` honours its timeout. The peer
  need not close, and a deaf reader never reads.
- Shutdown: `NoTimerSpec` leaves out the fairness of the one-second timer, to show
  that the notify suffices; `FairSpec` has it, to show that it does not rescue a deadlock.

## 5. Proofs

**RouterProofs**, for any finite set of clients, any non-empty set of workers,
any queue depth, TLS on or off: the type invariant, `InFlightExact`,
`FdClosedOnce`, `SubmitNeverRefused`, `ExitAccounted`, `ExitLeavesNothingOpen`,
`BackendsIdleAtShutdown`, `CompletedMeansAnswered`, `DroppedWithinAccepted` and
that the router implements `NoDrop`. A comment at `main.cpp:233-234` calls the
refusal branch of the accept callback "reachable only as a tiny race window"; `NeverRefused` shows it is not
reachable at all. `IInv` adds to the type invariant what the steps need:

- `QueueInv`, `RunningInv`: the queue holds exactly the connections in stage
  `queued`, each once; each connection being handled has exactly one worker.
- `PhaseInv`: how far `main()` is says which threads are gone; a worker that
  exited saw the pool stopped and the queue empty; at most one connection is in
  `submit()`, and only while the acceptor is there.
- `ClosesInv`, `LeaseInv`: descriptor and lease follow from the stage.
- `CountInv`: each counter is the number of connections in a set of stages.

`HandlerForward` shows that every step of `handle_one` moves one connection
forward and changes the counters by what the move implies, and `MoveCounts` turns
such a move into a change of cardinality. Exit then goes: all workers exited and
there is at least one, so the queue is empty and nobody runs anything, so every
accepted connection is `done` (`JoinedMeansDone`). The refinement maps
`JoinAcceptor`, `StopPool` and `ShutdownBackends` to the three phase changes and
uses the same lemma for the last. `DroppedWithinAccepted` needs one fact more, that
nothing is dropped before `CountDropped` (`DropInv`): what is counted there is in
the handler, so it was accepted, and at exit it is among the completed and errored.

`RouterUsesPool` shows that what the acceptor, the workers and `main()` do to the
queue is a behaviour of `TaskPool`, the specification that `PoolRefinement` below
proves of `ThreadPool`: user and implementation of the pool meet in it.

The second part of **RouterProofs** carries this to the whole process, start-up
included. `BootInv` says that before
`boot = "up"` nothing has been touched but the backlog and the request flag, that
a failed start-up stays so, and that from `"up"` on Router's `IInv` holds. From it
follow `FailedStartServesNobody`, `StartEstablishesRouter` and, for every behaviour
that begins with `main()`'s first step, all of the above: the safety properties
(`ProcessAccounted`, `ProcessSafe`, `ProcessCountersExact`), the refinement of
`NoDrop` (`ProcessImplementsNoDrop`: the start-up is a stutter of its initial
state) and the use of the pool (`ProcessUsesPool`, with the `stop()` of
`~ThreadPool` after a failure). The properties are stated once, in Router.

**ThreadPoolProofs**: types, `ExactlyOnce`, `WakeupsCoverQueue`,
`WakeupsCoverSpace`, `JoinedMeansDrained`, `NoStandstill` and the refinement of
`TaskPool`, for any tasks, finite submitters, finite non-empty workers, any stoppers and queue
depth. `TaskInv` says where each task is, in quantifiers instead of the
cardinalities of `ExactlyOnce`; `StopInv` says that a worker that exited saw
`stop_` and an empty queue, and that a stopper past its joins saw all exits. The two wake-up invariants are
inductive with these: a step that queues a task either wakes a sleeper or finds
none. They give `NoStandstill`: a submitter sleeping with nobody awake beside it
faces a full queue, so there are tasks, so a worker is awake or running one; and
while a `stop()` joins (`StopPast`: `stop_` is set), a worker asleep has a notifier
still to come. That is the safety part of `StopReturns` and `SubmitReturns`: the
pool cannot deadlock, and what is left to fairness is that threads run on.

**BackendSetProofs**: `LoadExact`, `PickJustified`, `WeightedShare`, for any
finite set of callers and any weights. `MutexInv`: the scanner holds `pick_mu_`,
so loads only fall during a scan. `ScanInv`: `best` is justified against the
backends scanned so far, by the transitivity of cross-multiplied comparison.
`NoOverflow` (callers times weight below 2^64) makes the modulo vanish.

**BackendPoolProofs**: types, `InUseExact`, `OwnedExactlyOnce`, `ScanByLastReturn`,
`WithinMaxSizeUnpinged` and `OnlyMissedStayOpen`, for any finite set of borrowers,
any descriptors, `max_size`, timeouts and clock bound. The conjuncts of `IInv`:

- `CountInv`: `in_use_` is a cardinality, so the guarded decrement always fires.
- `ReaperInv`: which of the reaper's deques are empty where it is; it carries the
  others across its unlocked steps.
- `HolderInv`: a borrower has a descriptor exactly between dial and close, and no
  two have the same.
- `OwnInv`: the open descriptors are the disjoint union of the idle deque, the
  reaper's four deques and the borrowers' descriptors, none of them twice in a
  deque. This is `OwnedExactlyOnce` in sets instead of cardinalities; a dial may
  reuse a number only because a closed one is in none of them.
- `AgeInv`: a slot's `created` is the connection's last return, and `last_used` is
  the same or, if there are pings, later; so what the scan decides by the slot it
  decides by the last return (`AgeOfSlot`).
- `WithinMaxSizeUnpinged` is inductive with these, since without pings a slot only
  moves between the idle deque and a counted borrower.
- `MissedInv`: after `shutdown()` the idle deque, the reaper's deques on their way
  back to it and the releases that will not close hold only what it missed. A later
  `release()` closes, a later `borrow()` fails and the reaper scans no more.

The scan is a recursive function, and what it computes for every deque (its
descriptors are those of the input that are kept, in order, none twice) is proved
by induction. The library's induction theorems take an operator, which the
provers cannot instantiate; **Induction** derives from the well-foundedness of the
naturals an induction over a *set* of naturals, and with it the existence of a
function defined by recursion on `0..m`.

**RequestPathProofs**: `NoCrossTalk`, for any handlers, descriptors and message
losses. Each step of the path is a step of the pool or leaves it alone
(`PathUsesPool`), so the pool's `IInv` and its theorems hold along the path
(`PathOwnedOnce`, `PathPoolSafe`). `ExchangeInv` adds
that a connection carries nothing before a request and after its reply, and in
between the one message of its holder or, if the reaper has it, the ping
(`HandlerInv`, `WaitingInv`); a connection whose exchange did not end so is closed
and not put back. That a step on one connection disturbs no other exchange is the
ownership result (`HeldIsPrivate`, `PingedIsPrivate`).

**WireProofs**: types, `FramesInOrder` and `AgreesWithParseFrame`, for any radix
above 1, any number of header bytes, payload limit, buffer and set of scripts.
`HeaderCarriesLength` proves the codec: the bytes of a number and the number of
some bytes are inverse to each other, and reversing them twice changes nothing.
`Flat[n]` is the stream the first `n` payloads make. `WireInv` says: the bytes
handed over begin some `Flat[k]` whose lengths all fit, and what the writer still
has in hand completes the frame (`WriterInv`); the wire is the end of what was
sent (`StreamInv`); the reader stands at the end of frame `Delivered`, or as far
into the next as it has bytes of it, and the reason for its last return can still
be read off the stream (`ReaderInv`). `StreamSays` turns this into: the header the
reader sees is the next payload's, and the bytes behind it are that payload. A
reset loses only bytes that were not consumed, which `ReaderKeeps` shows the reader
cannot notice.

**ShutdownProofs**: types, `NoLostWakeup`, `StuckOnlyOnItself` and
`SelfDeadlockByNesting`, for any threads, targets, signals, nesting and number of
deliveries.
`SafeInv` says that the frames of a thread are a stack of distinct signals, so a
delivery never nests in itself. `MutexInv` says who may hold `mu_`: the one handler
frame that is past its lock, or `main()` between its lock and its sleep. With it
`WakeupInv` is inductive: a request that `main()` did not see when it evaluated the
predicate was stored while `main()` held `mu_`, so its handler has yet to lock, and
so to notify. From the two follows `StuckOnlyOnItself`: if `mu_` is free, a handler or
`main()` can step, since a `main()` asleep has a handler left to notify it; if it is
held, its holder can step, unless a handler on top of it waits for it. That is the
safety part of `DrainsUnlessSelfDeadlocked`: what is left to fairness is that threads
run on. `SelfDeadlockNeedsNesting` names the two ways into the exception, a handler on
top of `main()` inside `wait()` or on top of the other signal's handler; both happen
(ShutdownOnMain and the list in section 3), and one signal that reaches only workers
excludes both.

The inductive invariants were checked by TLC on the instances of section 3 before
they were proved.

A leaf names its backend (`Zenon`, `SMTT(30)`) where the default one would run out of
its five seconds or comes near. Most of a run is `tlapm` translating the context of a
leaf, so a module with proofs extends no more than it uses; Wire writes out the three
facts about sequences it needs for that reason.

Assumptions are the named ASSUMEs of the modules: finite sets, at least one worker
(the constructor raises 0 to 1), a positive queue depth, `max_size` and buffer, a
radix above 1, scripts made of bytes, fresh null values, and `NoOverflow`. Router's
theorems take the pool to be `TaskPool`, which `PoolRefinement` proves of
`ThreadPool`, and the outcomes of I/O and `borrow()` to be arbitrary.

Every safety property of a passing run is proved. Only model-checked are the
liveness properties (`SignalEndsProcess`, `AcceptedIsHandled`, `StopReturns`,
`SubmitReturns`, `AcceptedTaskRuns`, `WriteReturns`, `ReadReturns`,
`DrainsUnlessSelfDeadlocked`): the prover has no rule for fairness or `ENABLED`.

## 6. Not modelled

- Option and address parsing: strings to numbers, once, before the system exists.
- Logging, `Metrics::snapshot_string`, the pool and backend counters that are only
  reported, and the test-only `reset_for_test`.
- The inside of `dial_tcp` (address list, non-blocking connect) and of OpenSSL:
  their outcomes are modelled.
- `BackendSet::shutdown()`, a loop over the pools' `shutdown()`; the echo backend's
  accept loop.
- The load generator and `regress.py`: measurement tools outside the router.
- A task that throws: `worker_main` swallows the exception (`thread_pool.cpp:86-92`).
  `handle_one` reports errors by value, but a failed allocation inside it would take
  this path and leave `in_flight` counted and the client's descriptor open. Router
  assumes it does not happen; with it, `InFlightExact` and `ExitAccounted` fail and
  the drain waits for the deadline.
- The return of `parse_frame` for a null buffer (`connection.cpp:142`).
- A crash of the process: nothing is persisted.
