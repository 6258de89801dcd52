---------------------------- MODULE BackendPool -----------------------------
(***************************************************************************)
(* BackendPool: borrow(), release(), shutdown() and the reaper thread.  One *)
(* action is one critical section of mu_, or one step made without it:      *)
(* the dial, the load of shutting_down_ at the head of release(), close()   *)
(* and the health pings.  Descriptors are those of the kernel: a closed one *)
(* may be handed out again by the next dial.                                *)
(***************************************************************************)
EXTENDS Naturals, Sequences, FiniteSets

CONSTANTS
    Borrowers,      \* threads that call borrow() and release()
    Fds,            \* descriptors the process may have open
    MaxSize,        \* Options::max_size
    IdleTimeout,    \* Options::idle_timeout, in ticks
    MaxLifetime,    \* Options::max_lifetime, in ticks
    MaxNow,         \* bound on the clock
    NoFd            \* the -1 of an int fd

ASSUME MaxSizeAssumption == MaxSize \in Nat \ {0}
ASSUME ClockAssumption == IdleTimeout \in Nat /\ MaxLifetime \in Nat /\ MaxNow \in Nat
ASSUME BorrowersFinite == IsFiniteSet(Borrowers)
ASSUME NoFdAssumption == NoFd \notin Fds

VARIABLES
    idle,           \* idle_: slots [fd, created, last_used]
    in_use,         \* in_use_
    shutting_down,  \* shutting_down_
    health_check,   \* opts_.enable_health_check, chosen at construction
    borrower,       \* borrower[b]: where b is in borrow() or release()
    fd,             \* fd[b]: the descriptor b holds
    close_it,       \* close_it[b]: release()'s local variable
    shutter,        \* where the caller of shutdown() is
    missed,         \* descriptors that shutdown() did not find (for properties only)
    reaper,         \* where the reaper thread is in reaper_main_
    victims, to_check, survivors, dead,  \* the reaper's local deques
    open,           \* descriptors the process has open to the backend
    now,            \* steady_clock
    birth,          \* birth[f]: when f was dialled (not known to the pool)
    returned        \* returned[f]: when f was last given back (ditto)

poolState == <<idle, in_use, shutting_down>>
borrowerState == <<borrower, fd, close_it>>
reaperState == <<reaper, victims, to_check, survivors, dead>>
shutterState == <<shutter, missed, health_check>>
clockState == <<now, birth, returned>>
vars == <<poolState, borrowerState, shutterState, reaperState, open, clockState>>

Slot == [fd : Fds, created : Nat, last_used : Nat]
BorrowerPlaces == {"out", "enter", "asleep", "woken", "dial", "hold", "release", "close"}
ReaperPlaces == {"wait", "close_victims", "ping", "close_dead", "push", "exited"}

Init ==
    /\ idle = <<>>
    /\ in_use = 0
    /\ shutting_down = FALSE
    /\ health_check \in BOOLEAN
    /\ missed = {}
    /\ borrower = [b \in Borrowers |-> "out"]
    /\ fd = [b \in Borrowers |-> NoFd]
    /\ close_it = [b \in Borrowers |-> FALSE]
    /\ shutter = "out"
    /\ reaper = "wait"
    /\ victims = <<>> /\ to_check = <<>> /\ survivors = <<>> /\ dead = <<>>
    /\ open = {}
    /\ now = 0
    /\ birth = [f \in Fds |-> 0]
    /\ returned = [f \in Fds |-> 0]

FdsOf(slots) == {slots[i].fd : i \in DOMAIN slots}

Asleep == {b \in Borrowers : borrower[b] = "asleep"}

(* b moves to place and one of the sleepers on cv_, if any, is woken. *)
MoveAndNotifyOne(b, place) ==
    \/ /\ Asleep = {}
       /\ borrower' = [borrower EXCEPT ![b] = place]
    \/ \E x \in Asleep : borrower' = [borrower EXCEPT ![b] = place, ![x] = "woken"]

Move(b, place) == borrower' = [borrower EXCEPT ![b] = place]

-----------------------------------------------------------------------------
(* borrow() *)

BorrowCall(b) ==
    /\ borrower[b] = "out"
    /\ Move(b, "enter")
    /\ UNCHANGED <<poolState, fd, close_it, shutterState, reaperState, open, clockState>>

InLoop(b) == borrower[b] \in {"enter", "woken"}

(* errno = ECONNABORTED *)
BorrowAborted(b) ==
    /\ InLoop(b)
    /\ shutting_down
    /\ Move(b, "out")
    /\ UNCHANGED <<poolState, fd, close_it, shutterState, reaperState, open, clockState>>

(* An idle connection: the front of the deque. *)
BorrowIdle(b) ==
    /\ InLoop(b)
    /\ ~shutting_down
    /\ idle # <<>>
    /\ fd' = [fd EXCEPT ![b] = Head(idle).fd]
    /\ idle' = Tail(idle)
    /\ in_use' = in_use + 1
    /\ Move(b, "hold")
    /\ UNCHANGED <<shutting_down, close_it, shutterState, reaperState, open, clockState>>

HasRoomOffByOne == in_use + Len(idle) <= MaxSize

HasRoom == in_use + Len(idle) < MaxSize

(* Room for one more: counted before the lock is dropped to dial. *)
BorrowDials(b) ==
    /\ InLoop(b)
    /\ ~shutting_down
    /\ idle = <<>>
    /\ HasRoom
    /\ in_use' = in_use + 1
    /\ Move(b, "dial")
    /\ UNCHANGED <<idle, shutting_down, fd, close_it, shutterState, reaperState, open, clockState>>

(* The pool is full: wait_until() on cv_. *)
BorrowWaits(b) ==
    /\ InLoop(b)
    /\ ~shutting_down
    /\ idle = <<>>
    /\ ~HasRoom
    /\ Move(b, "asleep")
    /\ UNCHANGED <<poolState, fd, close_it, shutterState, reaperState, open, clockState>>

(* wait_until() says timeout: ETIMEDOUT, the pool is not looked at again.  The
   deadline may also pass between a notify and the return of wait_until(). *)
BorrowTimesOut(b) ==
    /\ borrower[b] \in {"asleep", "woken"}
    /\ Move(b, "out")
    /\ UNCHANGED <<poolState, fd, close_it, shutterState, reaperState, open, clockState>>

(* wait_until() returns without a notify. *)
SpuriousWake(b) ==
    /\ borrower[b] = "asleep"
    /\ Move(b, "woken")
    /\ UNCHANGED <<poolState, fd, close_it, shutterState, reaperState, open, clockState>>

(* dial_one_() succeeds and borrow() returns; shutting_down_ is not looked at. *)
DialSucceeds(b) ==
    /\ borrower[b] = "dial"
    /\ \E f \in Fds \ open :
          /\ open' = open \cup {f}
          /\ fd' = [fd EXCEPT ![b] = f]
          /\ birth' = [birth EXCEPT ![f] = now]
    /\ Move(b, "hold")
    /\ UNCHANGED <<poolState, close_it, shutterState, reaperState, now, returned>>

DialFailsUncounted(b) ==
    /\ borrower[b] = "dial"
    /\ MoveAndNotifyOne(b, "out")
    /\ UNCHANGED <<poolState, fd, close_it, shutterState, reaperState, open, clockState>>

(* dial_one_() fails: the count is taken back and a waiter is woken. *)
DialFails(b) ==
    /\ borrower[b] = "dial"
    /\ in_use' = in_use - 1
    /\ MoveAndNotifyOne(b, "out")
    /\ UNCHANGED <<idle, shutting_down, fd, close_it, shutterState, reaperState, open, clockState>>

-----------------------------------------------------------------------------
(* release() *)

(* close_it is decided before mu_ is taken. *)
ReleaseCall(b, ok) ==
    /\ borrower[b] = "hold"
    /\ close_it' = [close_it EXCEPT ![b] = ~ok \/ shutting_down]
    /\ Move(b, "release")
    /\ UNCHANGED <<poolState, fd, shutterState, reaperState, open, clockState>>

ReturnedToIdleAlways(b) ==
    Append(idle, [fd |-> fd[b], created |-> now, last_used |-> now])

(* The slot gets a new creation time whatever the age of the connection. *)
ReturnedToIdle(b) ==
    IF close_it[b]
    THEN idle
    ELSE Append(idle, [fd |-> fd[b], created |-> now, last_used |-> now])

ReleaseLocked(b) ==
    /\ borrower[b] = "release"
    /\ in_use' = IF in_use > 0 THEN in_use - 1 ELSE in_use
    /\ idle' = ReturnedToIdle(b)
    /\ returned' = [returned EXCEPT ![fd[b]] = now]
    /\ MoveAndNotifyOne(b, IF close_it[b] THEN "close" ELSE "out")
    /\ fd' = [fd EXCEPT ![b] = IF close_it[b] THEN @ ELSE NoFd]
    /\ close_it' = [close_it EXCEPT ![b] = FALSE]
    /\ UNCHANGED <<shutting_down, shutterState, reaperState, open, now, birth>>

(* safe_close() after the lock is dropped. *)
ReleaseCloses(b) ==
    /\ borrower[b] = "close"
    /\ open' = open \ {fd[b]}
    /\ fd' = [fd EXCEPT ![b] = NoFd]
    /\ Move(b, "out")
    /\ UNCHANGED <<poolState, close_it, shutterState, reaperState, clockState>>

-----------------------------------------------------------------------------
(* shutdown() *)

ClosedAtShutdownNone == {}

ClosedAtShutdown == FdsOf(idle)

(* On their way back to the idle list, and not stopped by shutting_down_: what the
   reaper is pinging, and what a release() past its load of the flag gives back. *)
Returning ==
    FdsOf(to_check) \cup FdsOf(survivors)
      \cup {fd[b] : b \in {x \in Borrowers : borrower[x] = "release" /\ ~close_it[x]}}

(* Under mu_: the flag, and every idle connection is closed. *)
ShutdownBegins ==
    /\ shutter = "out"
    /\ missed' = Returning
    /\ shutting_down' = TRUE
    /\ open' = open \ ClosedAtShutdown
    /\ idle' = <<>>
    /\ shutter' = "notify"
    /\ UNCHANGED <<in_use, health_check, borrowerState, reaperState, clockState>>

(* cv_.notify_all() and reaper_cv_.notify_all(), after the lock is dropped. *)
ShutdownNotifies ==
    /\ shutter = "notify"
    /\ shutter' = "done"
    /\ borrower' = [b \in Borrowers |-> IF borrower[b] = "asleep" THEN "woken" ELSE borrower[b]]
    /\ UNCHANGED <<poolState, missed, health_check, fd, close_it, reaperState, open, clockState>>

-----------------------------------------------------------------------------
(* The reaper thread *)

(* After a timed wait, or a notify: nothing more to do. *)
ReaperExits ==
    /\ reaper = "wait"
    /\ shutting_down
    /\ reaper' = "exited"
    /\ UNCHANGED <<poolState, borrowerState, shutterState, victims, to_check, survivors,
                   dead, open, clockState>>

ExpiredByUseOnly(s) == now - s.last_used > IdleTimeout

Expired(s) ==
    \/ now - s.last_used > IdleTimeout
    \/ now - s.created > MaxLifetime

(* The loop over slots: those it erases (kill) or those it leaves, in order. *)
Swept(slots, kill) ==
    LET pass[n \in 0..Len(slots)] ==
            IF n = 0 THEN <<>>
            ELSE IF Expired(slots[n]) <=> kill
                 THEN Append(pass[n - 1], slots[n])
                 ELSE pass[n - 1]
    IN  pass[Len(slots)]

(* Under mu_: expired slots become victims, the others are taken off the idle
   list for the health check. *)
ReaperScans ==
    /\ reaper = "wait"
    /\ ~shutting_down
    /\ victims' = Swept(idle, TRUE)
    /\ LET rest == Swept(idle, FALSE) IN
          IF health_check
          THEN to_check' = rest /\ idle' = <<>>
          ELSE to_check' = <<>> /\ idle' = rest
    /\ reaper' = "close_victims"
    /\ UNCHANGED <<in_use, shutting_down, borrowerState, shutterState, survivors, dead, open, clockState>>

ReaperClosesVictims ==
    /\ reaper = "close_victims"
    /\ open' = open \ FdsOf(victims)
    /\ victims' = <<>>
    /\ reaper' = IF to_check = <<>> THEN "wait" ELSE "ping"
    /\ UNCHANGED <<poolState, borrowerState, shutterState, to_check, survivors, dead, clockState>>

(* health_ping_() of the next slot; a success refreshes last_used. *)
ReaperPings(ok) ==
    /\ reaper = "ping"
    /\ to_check # <<>>
    /\ to_check' = Tail(to_check)
    /\ IF ok
       THEN /\ survivors' = Append(survivors, [Head(to_check) EXCEPT !.last_used = now])
            /\ UNCHANGED dead
       ELSE /\ dead' = Append(dead, Head(to_check))
            /\ UNCHANGED survivors
    /\ reaper' = IF Tail(to_check) = <<>> THEN "close_dead" ELSE "ping"
    /\ UNCHANGED <<poolState, borrowerState, shutterState, victims, open, clockState>>

ReaperClosesDead ==
    /\ reaper = "close_dead"
    /\ open' = open \ FdsOf(dead)
    /\ dead' = <<>>
    /\ reaper' = "push"
    /\ UNCHANGED <<poolState, borrowerState, shutterState, victims, to_check, survivors, clockState>>

(* Under mu_: survivors go back to the idle list.  max_size and shutting_down_
   are not looked at and nobody is notified. *)
ReaperPushes ==
    /\ reaper = "push"
    /\ idle' = idle \o survivors
    /\ survivors' = <<>>
    /\ reaper' = "wait"
    /\ UNCHANGED <<in_use, shutting_down, borrowerState, shutterState, victims, to_check,
                   dead, open, clockState>>

-----------------------------------------------------------------------------
Tick ==
    /\ now < MaxNow
    /\ now' = now + 1
    /\ UNCHANGED <<poolState, borrowerState, shutterState, reaperState, open, birth, returned>>

BorrowStep(b) ==
    \/ BorrowAborted(b)
    \/ BorrowIdle(b)
    \/ BorrowDials(b)
    \/ BorrowWaits(b)
    \/ DialSucceeds(b)
    \/ DialFails(b)

ReleaseStep(b) == ReleaseLocked(b) \/ ReleaseCloses(b)

ReaperStep ==
    \/ ReaperExits
    \/ ReaperScans
    \/ ReaperClosesVictims
    \/ \E ok \in BOOLEAN : ReaperPings(ok)
    \/ ReaperClosesDead
    \/ ReaperPushes

(* shutdown() was called and every thread is done. *)
AllDone ==
    /\ shutter = "done"
    /\ reaper = "exited"
    /\ \A b \in Borrowers : borrower[b] = "out"

Next ==
    \/ \E b \in Borrowers :
          \/ BorrowCall(b)
          \/ BorrowStep(b)
          \/ BorrowTimesOut(b)
          \/ SpuriousWake(b)
          \/ \E ok \in BOOLEAN : ReleaseCall(b, ok)
          \/ ReleaseStep(b)
    \/ ShutdownBegins
    \/ ShutdownNotifies
    \/ ReaperStep
    \/ Tick
    \/ AllDone /\ UNCHANGED vars

Spec == Init /\ [][Next]_vars

-----------------------------------------------------------------------------
(* Properties. *)

(* Type invariant. *)
TypeOK ==
    /\ idle \in Seq(Slot) /\ victims \in Seq(Slot) /\ to_check \in Seq(Slot)
    /\ survivors \in Seq(Slot) /\ dead \in Seq(Slot)
    /\ in_use \in Nat
    /\ shutting_down \in BOOLEAN /\ health_check \in BOOLEAN /\ missed \in SUBSET Fds
    /\ borrower \in [Borrowers -> BorrowerPlaces]
    /\ fd \in [Borrowers -> Fds \cup {NoFd}]
    /\ close_it \in [Borrowers -> BOOLEAN]
    /\ shutter \in {"out", "notify", "done"}
    /\ reaper \in ReaperPlaces
    /\ open \in SUBSET Fds
    /\ now \in Nat
    /\ birth \in [Fds -> Nat] /\ returned \in [Fds -> Nat]

(* The places f is in: idle, one of the reaper's deques, or a borrower. *)
Owners(f) ==
    LET In(name, slots) == {<<name, i>> : i \in {j \in DOMAIN slots : slots[j].fd = f}}
    IN  In("idle", idle) \cup In("victims", victims) \cup In("to_check", to_check)
          \cup In("survivors", survivors) \cup In("dead", dead)
          \cup {<<"borrower", b>> : b \in {x \in Borrowers : fd[x] = f}}

(* docs/pool.md:119, "each conn handles exactly one in-flight request": an open
   connection has exactly one owner, so it is never lent twice, pinged while it
   is lent, or lost; a closed descriptor has none, so it is never lent, never
   pinged and never closed a second time. *)
OwnedExactlyOnce ==
    \A f \in Fds : Cardinality(Owners(f)) = IF f \in open THEN 1 ELSE 0

Counted == {"dial", "hold", "release"}

(* in_use_ is the number of borrowers that are dialling, hold a connection or
   have yet to give it back; the guard of the decrement hides no underflow. *)
InUseExact ==
    in_use = Cardinality({b \in Borrowers : borrower[b] \in Counted})

(* docs/pool.md:13: "hard upper bound on (idle + in-use) conns". *)
WithinMaxSize ==
    in_use + Len(idle) <= MaxSize

(* Without health checks, no interleaving of dials, releases, failed dials and
   scans of the reaper takes the pool over max_size. *)
WithinMaxSizeUnpinged ==
    ~health_check => in_use + Len(idle) <= MaxSize

(* A step of the reaper from its wait to the close of the victims: a scan. *)
Scanning == reaper = "wait" /\ reaper' = "close_victims"

(* What idle_timeout and max_lifetime bound in this code is the time since a
   connection was last given back, because release() makes a new slot.  A scan
   takes out only connections given back longer ago than one of the two, and
   leaves none given back more than max_lifetime ago: a ping refreshes last_used,
   never created.  Without pings it leaves none past idle_timeout either. *)
ScanByLastReturn ==
    [][Scanning =>
          /\ \A f \in FdsOf(victims') :
                now - returned[f] > IdleTimeout \/ now - returned[f] > MaxLifetime
          /\ \A f \in FdsOf(idle') \cup FdsOf(to_check') :
                /\ now - returned[f] <= MaxLifetime
                /\ ~health_check => now - returned[f] <= IdleTimeout]_vars

(* shutdown(), called at any moment, with or without health checks: once every
   thread is done, what is still open was, when shutdown() held mu_, being pinged
   or in a release() that had read shutting_down_ before it was set.  So nothing
   stays open when main() calls it, after the last release(), outside a ping. *)
OnlyMissedStayOpen ==
    AllDone => open \subseteq missed

(* ARCHITECTURE.md:39, shutdown() "closes all idle connections and refuses new
   borrows", and those in use "are closed on return". *)
NothingOpenAfterShutdown ==
    AllDone => open = {}

(* docs/pool.md:16, max_lifetime: "close conns whose `created` is older than
   this, even if active": a scan leaves no older connection in the pool. *)
ScanRecyclesOldConns ==
    [][Scanning =>
          \A f \in FdsOf(idle') \cup FdsOf(to_check') : now - birth[f] <= MaxLifetime]_vars

(* The min_idle that main() asks for, after the constructor's clamp. *)
MinIdle == IF MaxSize < 2 THEN MaxSize ELSE 2

(* docs/pool.md:14, min_idle: "enforces it as a soft floor only when reaping": a scan
   does not take the idle connections below min_idle. *)
ScanKeepsMinIdle ==
    [][Scanning =>
          \/ victims' = <<>>
          \/ Len(idle') + Len(to_check') >= MinIdle]_vars

(* docs/pool.md:19, borrow() waits "when pool is full": while a borrower sleeps
   un-notified, every idle connection has a woken borrower coming for it. *)
SleepsOnlyWhenFull ==
    Asleep # {} /\ ~shutting_down =>
        Len(idle) <= Cardinality({b \in Borrowers : borrower[b] = "woken"})
=============================================================================
