------------------------- MODULE RequestPathProofs --------------------------
(***************************************************************************)
(* NoCrossTalk for any number of handlers and connections, any max_size and *)
(* any timeouts.  RequestPath's behaviours are behaviours of BackendPool,   *)
(* so the pool's invariant IInv holds in them; given that each open         *)
(* connection has one owner, what can be under way on a connection follows  *)
(* from where its owner is.                                                 *)
(***************************************************************************)
EXTENDS RequestPath, BackendPoolProofs

(* Nothing is under way on f, in either direction. *)
Calm(f) == requests[f] = <<>> /\ replies[f] = <<>>

(* The message m, and nothing else, is under way on f. *)
Only(f, m) ==
    \/ requests[f] = <<m>> /\ replies[f] = <<>>
    \/ requests[f] = <<>> /\ replies[f] = <<m>>

Stages == {"idle", "read", "respond", "failed"}

(* A handler in an exchange holds a connection; the connection is calm before the
   request and after the reply, and until then carries the one or the other. *)
HandlerInv ==
    \A b \in Borrowers :
        /\ stage[b] # "idle" => borrower[b] = "hold"
        /\ borrower[b] = "hold" /\ stage[b] \in {"idle", "respond"} => Calm(fd[b])
        /\ stage[b] = "read" => Only(fd[b], Request(b))
        /\ stage[b] = "respond" => reply[b] = Request(b)
        /\ borrower[b] = "release" /\ ~close_it[b] => Calm(fd[b])

(* A connection that waits for its next user is calm, except the one pinged. *)
WaitingInv ==
    /\ \A f \in Fds \ open : Calm(f)
    /\ \A f \in FdsOf(idle) \cup FdsOf(survivors) : Calm(f)
    /\ \A f \in FdsOf(to_check) : Calm(f) \/ (pinging /\ f = Head(to_check).fd)
    /\ pinging => reaper = "ping" /\ Only(Head(to_check).fd, Ping)

ExchangeInv ==
    /\ stage \in [Borrowers -> Stages] /\ DOMAIN reply = Borrowers
    /\ requests = [f \in Fds |-> requests[f]]
    /\ replies = [f \in Fds |-> replies[f]]
    /\ HandlerInv
    /\ WaitingInv

-----------------------------------------------------------------------------
(* A step of the request path is a step of the pool or leaves the pool alone. *)
LEMMA PathStepIsPoolStep ==
    ASSUME [PathNext]_pathVars
    PROVE  [Next]_vars
<1>1. ASSUME NEW b \in Borrowers, HandlerStep(b) PROVE [Next]_vars
  <2>1. CASE Release(b)
    <3>1. ReleaseCall(b, ConnOk(b)) /\ ConnOk(b) \in BOOLEAN
      BY <2>1 DEF Release, ConnOk
    <3> QED BY <3>1 DEF Next
  <2>2. CASE (BorrowStep(b) \/ BorrowTimesOut(b) \/ ReleaseStep(b)) /\ Cleared
    BY <2>2 DEF Next
  <2>3. CASE (\E ok \in BOOLEAN : WriteBackend(b, ok)) \/ ReadBackend(b) \/ ReadBackendFails(b)
    BY <2>3 DEF WriteBackend, ReadBackend, ReadBackendFails
  <2> QED BY <1>1, <2>1, <2>2, <2>3 DEF HandlerStep
<1>2. CASE ReaperMoves
  <2>1. CASE PingReads
    <3>1. \E ok \in BOOLEAN : ReaperPings(ok)
      BY Zenon, <2>1 DEF PingReads
    <3> QED BY <3>1 DEF Next, ReaperStep
  <2>2. CASE PingFails
    BY Zenon, <2>2 DEF PingFails, Next, ReaperStep
  <2>3. CASE PingWrites
    BY <2>3 DEF PingWrites
  <2>4. CASE ReaperMoves /\ ~PingReads /\ ~PingFails /\ ~PingWrites
    BY <2>4 DEF ReaperMoves, Next, ReaperStep
  <2> QED BY <1>2, <2>1, <2>2, <2>3, <2>4
<1>3. ASSUME NEW f \in Fds, Echoes(f) \/ BackendCloses(f) PROVE [Next]_vars
  BY <1>3 DEF Echoes, BackendCloses
<1>4. CASE UNCHANGED pathVars
  BY <1>4 DEF pathVars
<1>5. CASE (ShutdownBegins \/ ShutdownNotifies \/ Tick) /\ Cleared
  BY <1>5 DEF Next
<1>6. ASSUME NEW b \in Borrowers, (BorrowCall(b) \/ SpuriousWake(b)) /\ Cleared PROVE [Next]_vars
  BY <1>6 DEF Next
<1> QED BY <1>1, <1>2, <1>3, <1>4, <1>5, <1>6 DEF PathNext

(* A sequence of one message. *)
LEMMA OneMessage ==
    ASSUME NEW m
    PROVE  /\ <<>> \o <<m>> = <<m>> /\ Append(<<>>, m) = <<m>>
           /\ Head(<<m>>) = m /\ Tail(<<m>>) = <<>>
<1>1. <<m>> \in Seq({m}) /\ <<>> \in Seq({m}) /\ Len(<<m>>) = 1
  OBVIOUS
<1>2. Append(<<>>, m) = <<m>> /\ Head(<<m>>) = m
  OBVIOUS
<1>3. <<>> \o <<m>> = <<m>>
  BY <1>1, ConcatEmptySeq
<1>4. Tail(<<m>>) = <<>>
  BY <1>1, HeadTailProperties, EmptySeq
<1> QED BY <1>2, <1>3, <1>4

(* Who else has to do with the connection of a handler: nobody. *)
LEMMA HeldIsPrivate ==
    ASSUME IInv, NEW b \in Borrowers, borrower[b] \in Holding
    PROVE  /\ fd[b] \in Fds /\ fd[b] \in open
           /\ fd[b] \notin FdsOf(idle) \cup FdsOf(survivors) \cup FdsOf(to_check)
           /\ \A x \in Borrowers \ {b} : borrower[x] \in Holding => fd[x] # fd[b]
<1>1. HolderInv /\ OwnInv
  BY DEF IInv
<1>2. fd[b] \in Held
  BY DEF Held
<1> QED BY <1>1, <1>2 DEF HolderInv, OwnInv, Separate

(* Nor with the connection being pinged. *)
LEMMA PingedIsPrivate ==
    ASSUME IInv, reaper = "ping"
    PROVE  /\ to_check # <<>> /\ Head(to_check).fd \in Fds /\ Head(to_check).fd \in open
           /\ Head(to_check).fd \in FdsOf(to_check)
           /\ Head(to_check).fd \notin FdsOf(idle) \cup FdsOf(survivors) \cup FdsOf(Tail(to_check))
           /\ FdsOf(to_check) = FdsOf(Tail(to_check)) \cup {Head(to_check).fd}
           /\ \A b \in Borrowers : borrower[b] \in Holding => fd[b] # Head(to_check).fd
<1>1. TypeOK /\ OwnInv /\ ReaperInv
  BY DEF IInv
<1>2. to_check # <<>> /\ to_check \in Seq(Slot)
  BY <1>1 DEF ReaperInv, TypeOK
<1> DEFINE f == Head(to_check).fd
<1>3. /\ f \in FdsOf(to_check) /\ FdsOf(to_check) = FdsOf(Tail(to_check)) \cup {f}
      /\ f \notin FdsOf(Tail(to_check)) /\ f \in Fds
  BY <1>1, <1>2, FdsTail, FdsMember DEF OwnInv
<1> HIDE DEF f
<1>4. f \in open /\ f \notin Held /\ f \notin FdsOf(idle) /\ f \notin FdsOf(survivors)
  BY <1>1, <1>3 DEF OwnInv, Separate
<1>5. \A b \in Borrowers : borrower[b] \in Holding => fd[b] # f
  BY <1>4 DEF Held
<1> QED BY <1>2, <1>3, <1>4, <1>5 DEF f

(* Only what is under way on f changes, and f's owner is handler b: everything
   the invariant says of other connections stays. *)
LEMMA OnlyOwnQueue ==
    ASSUME IInv, ExchangeInv, NEW b \in Borrowers, borrower[b] = "hold", UNCHANGED <<vars, pinging>>,
           stage' \in [Borrowers -> Stages], DOMAIN reply' = Borrowers,
           requests' = [f \in Fds |-> requests'[f]], replies' = [f \in Fds |-> replies'[f]],
           \A f \in Fds \ {fd[b]} : requests'[f] = requests[f] /\ replies'[f] = replies[f],
           \A x \in Borrowers \ {b} : stage'[x] = stage[x] /\ reply'[x] = reply[x],
           stage'[b] \in {"idle", "respond"} => Calm(fd[b])',
           stage'[b] = "read" => Only(fd[b], Request(b))',
           stage'[b] = "respond" => reply'[b] = Request(b)
    PROVE  ExchangeInv'
<1>1. /\ fd[b] \in Fds /\ fd[b] \in open
      /\ fd[b] \notin FdsOf(idle) \cup FdsOf(survivors) \cup FdsOf(to_check)
      /\ \A x \in Borrowers \ {b} : borrower[x] \in Holding => fd[x] # fd[b]
  BY HeldIsPrivate DEF Holding
<1>2. UNCHANGED <<idle, survivors, to_check, reaper, open, borrower, fd, close_it, pinging>>
  BY DEF vars, poolState, borrowerState, reaperState
<1>3. /\ FdsOf(idle) \subseteq Fds /\ FdsOf(survivors) \subseteq Fds /\ FdsOf(to_check) \subseteq Fds
      /\ \A x \in Borrowers : borrower[x] \in Holding => fd[x] \in Fds
  BY FdsMember DEF IInv, TypeOK, HolderInv
<1>4. HandlerInv'
  <2>1. ASSUME NEW x \in Borrowers \ {b}
        PROVE  /\ stage'[x] # "idle" => borrower'[x] = "hold"
               /\ borrower'[x] = "hold" /\ stage'[x] \in {"idle", "respond"} => Calm(fd[x])'
               /\ stage'[x] = "read" => Only(fd[x], Request(x))'
               /\ stage'[x] = "respond" => reply'[x] = Request(x)
               /\ borrower'[x] = "release" /\ ~close_it'[x] => Calm(fd[x])'
    BY Zenon, <1>1, <1>2, <1>3 DEF ExchangeInv, HandlerInv, Calm, Only, Holding
  <2>2. /\ stage'[b] # "idle" => borrower'[b] = "hold"
        /\ borrower'[b] # "release"
    BY <1>2
  <2> QED BY <1>2, <2>1, <2>2 DEF HandlerInv
<1>5. WaitingInv'
  <2>1. \A f \in Fds \ {fd[b]} : Calm(f) => Calm(f)'
    BY DEF Calm
  <2>2. pinging => Head(to_check).fd \in FdsOf(to_check)
    BY PingedIsPrivate DEF ExchangeInv, WaitingInv
  <2>3. pinging => Only(Head(to_check).fd, Ping)'
    BY Zenon, <1>1, <1>2, <1>3, <2>2 DEF ExchangeInv, WaitingInv, Only
  <2> QED BY <1>1, <1>2, <1>3, <2>1, <2>3 DEF ExchangeInv, WaitingInv
<1> QED BY <1>4, <1>5 DEF ExchangeInv

-----------------------------------------------------------------------------
(* The handler's own steps. *)

LEMMA HandlerKeeps ==
    ASSUME IInv, ExchangeInv, NEW b \in Borrowers,
           (\E ok \in BOOLEAN : WriteBackend(b, ok)) \/ ReadBackend(b) \/ ReadBackendFails(b)
    PROVE  ExchangeInv'
<1>0. /\ borrower[b] = "hold" /\ UNCHANGED <<vars, pinging>>
      /\ stage \in [Borrowers -> Stages] /\ DOMAIN reply = Borrowers
      /\ requests = [f \in Fds |-> requests[f]] /\ replies = [f \in Fds |-> replies[f]]
      /\ fd' = fd
  BY DEF ExchangeInv, WriteBackend, ReadBackend, ReadBackendFails, vars, borrowerState
<1>f. fd[b] \in Fds
  BY <1>0, HeldIsPrivate DEF Holding
<1>1. ASSUME NEW ok \in BOOLEAN, WriteBackend(b, ok) PROVE ExchangeInv'
  <2>1. /\ stage' = [stage EXCEPT ![b] = IF ok THEN "read" ELSE "failed"]
        /\ reply' = reply /\ replies' = replies
    BY SMTT(30), <1>1 DEF WriteBackend
  <2>2. PICK m : /\ ok => m = <<Request(b)>>
                 /\ requests' = [requests EXCEPT ![fd[b]] = @ \o m]
    BY Zenon, <1>1 DEF WriteBackend
  <2>3. Calm(fd[b])
    BY Zenon, <1>0, <1>1 DEF WriteBackend, ExchangeInv, HandlerInv
  <2>4. ok => requests'[fd[b]] = <<Request(b)>>
    <3>1. requests'[fd[b]] = requests[fd[b]] \o m
      BY <1>0, <1>f, <2>2
    <3>2. requests[fd[b]] = <<>>
      BY <2>3 DEF Calm
    <3> QED BY SMTT(30), <2>2, <3>1, <3>2, OneMessage
  <2>5. stage'[b] = "read" => Only(fd[b], Request(b))'
    BY <1>0, <2>1, <2>3, <2>4 DEF Calm, Only
  <2>6. stage' \in [Borrowers -> Stages] /\ stage'[b] \notin {"idle", "respond"}
    BY <1>0, <2>1 DEF Stages
  <2>7. /\ requests' = [f \in Fds |-> requests'[f]] /\ replies' = [f \in Fds |-> replies'[f]]
        /\ \A f \in Fds \ {fd[b]} : requests'[f] = requests[f] /\ replies'[f] = replies[f]
    BY Zenon, <1>0, <2>1, <2>2
  <2>8. \A x \in Borrowers \ {b} : stage'[x] = stage[x] /\ reply'[x] = reply[x]
    BY <1>0, <2>1
  <2> QED BY SMTT(30), <1>0, <2>1, <2>5, <2>6, <2>7, <2>8, OnlyOwnQueue
<1>2. CASE ReadBackend(b)
  <2>1. /\ stage[b] = "read" /\ replies[fd[b]] # <<>>
        /\ stage' = [stage EXCEPT ![b] = "respond"]
        /\ reply' = [reply EXCEPT ![b] = Head(replies[fd[b]])]
        /\ replies' = [replies EXCEPT ![fd[b]] = Tail(@)] /\ requests' = requests
    BY <1>2 DEF ReadBackend
  <2>2. requests[fd[b]] = <<>> /\ replies[fd[b]] = <<Request(b)>>
    BY Zenon, <2>1 DEF ExchangeInv, HandlerInv, Only
  <2>3. reply'[b] = Request(b)
    BY <1>0, <2>1, <2>2
  <2>4. Calm(fd[b])'
    <3>1. replies'[fd[b]] = Tail(replies[fd[b]]) /\ requests'[fd[b]] = requests[fd[b]]
      BY <1>0, <1>f, <2>1
    <3>2. replies'[fd[b]] = <<>> /\ requests'[fd[b]] = <<>>
      BY <2>2, <3>1, OneMessage
    <3> QED BY <1>0, <3>2 DEF Calm
  <2>5. stage' \in [Borrowers -> Stages] /\ stage'[b] = "respond" /\ DOMAIN reply' = Borrowers
    BY <1>0, <2>1 DEF Stages
  <2>6. /\ requests' = [f \in Fds |-> requests'[f]] /\ replies' = [f \in Fds |-> replies'[f]]
        /\ \A f \in Fds \ {fd[b]} : requests'[f] = requests[f] /\ replies'[f] = replies[f]
    BY Zenon, <1>0, <2>1
  <2>7. \A x \in Borrowers \ {b} : stage'[x] = stage[x] /\ reply'[x] = reply[x]
    BY <1>0, <2>1
  <2> QED BY <1>0, <2>3, <2>4, <2>5, <2>6, <2>7, OnlyOwnQueue
<1>3. CASE ReadBackendFails(b)
  <2>1. stage' = [stage EXCEPT ![b] = "failed"] /\ UNCHANGED <<reply, requests, replies>>
    BY <1>3 DEF ReadBackendFails
  <2>2. stage' \in [Borrowers -> Stages] /\ stage'[b] = "failed"
    BY <1>0, <2>1 DEF Stages
  <2>3. \A x \in Borrowers \ {b} : stage'[x] = stage[x] /\ reply'[x] = reply[x]
    BY <1>0, <2>1
  <2> QED BY <1>0, <2>1, <2>2, <2>3, OnlyOwnQueue
<1> QED BY <1>1, <1>2, <1>3

(* release(): a connection whose exchange was not completed is to be closed. *)
LEMMA ReleaseKeeps ==
    ASSUME IInv, ExchangeInv, NEW b \in Borrowers, Release(b)
    PROVE  ExchangeInv'
<1>1. /\ stage[b] \in {"respond", "failed"} /\ borrower[b] = "hold"
      /\ close_it' = [close_it EXCEPT ![b] = ~(stage[b] = "respond") \/ shutting_down]
      /\ borrower' = [borrower EXCEPT ![b] = "release"]
      /\ stage' = [stage EXCEPT ![b] = "idle"]
      /\ reply' = [reply EXCEPT ![b] = NoReply]
      /\ UNCHANGED <<fd, idle, survivors, to_check, reaper, open, pinging, requests, replies>>
  BY DEF Release, ReleaseCall, ConnOk, Move, poolState, reaperState
<1>2. TypeOK
  BY DEF IInv
<1>3. /\ borrower'[b] = "release" /\ stage'[b] = "idle"
      /\ close_it'[b] = (~(stage[b] = "respond") \/ shutting_down)
      /\ \A x \in Borrowers \ {b} : /\ borrower'[x] = borrower[x] /\ stage'[x] = stage[x]
                                    /\ close_it'[x] = close_it[x] /\ reply'[x] = reply[x]
  BY <1>1, <1>2 DEF TypeOK, ExchangeInv
<1>4. HandlerInv'
  <2>1. ASSUME NEW x \in Borrowers \ {b}
        PROVE  /\ stage'[x] # "idle" => borrower'[x] = "hold"
               /\ borrower'[x] = "hold" /\ stage'[x] \in {"idle", "respond"} => Calm(fd[x])'
               /\ stage'[x] = "read" => Only(fd[x], Request(x))'
               /\ stage'[x] = "respond" => reply'[x] = Request(x)
               /\ borrower'[x] = "release" /\ ~close_it'[x] => Calm(fd[x])'
    <3>1. Calm(fd[x])' = Calm(fd[x]) /\ Only(fd[x], Request(x))' = Only(fd[x], Request(x))
      BY <1>1 DEF Calm, Only
    <3> QED BY <1>3, <3>1 DEF ExchangeInv, HandlerInv
  <2>2. borrower'[b] = "release" /\ ~close_it'[b] => Calm(fd[b])'
    BY Zenon, <1>1, <1>3 DEF ExchangeInv, HandlerInv, Calm
  <2> QED BY <1>3, <2>1, <2>2 DEF HandlerInv
<1>5. WaitingInv'
  BY Zenon, <1>1 DEF ExchangeInv, WaitingInv, Calm, Only
<1>6. stage' \in [Borrowers -> Stages] /\ DOMAIN reply' = Borrowers
  BY <1>1 DEF ExchangeInv, Stages
<1> QED BY <1>1, <1>4, <1>5, <1>6 DEF ExchangeInv

(* The backend answers what is under way, if anything. *)
LEMMA BackendKeeps ==
    ASSUME IInv, ExchangeInv, NEW f \in Fds, Echoes(f) \/ BackendCloses(f)
    PROVE  ExchangeInv'
<1>1. /\ UNCHANGED <<vars, stage, reply, pinging>>
      /\ UNCHANGED <<fd, idle, survivors, to_check, reaper, open, borrower, close_it>>
  BY DEF Echoes, BackendCloses, vars, poolState, borrowerState, reaperState
<1>2. CASE BackendCloses(f)
  <2>1. UNCHANGED <<requests, replies>>
    BY <1>2 DEF BackendCloses
  <2> QED BY Zenon, <1>1, <2>1 DEF ExchangeInv, HandlerInv, WaitingInv, Calm, Only
<1>3. CASE Echoes(f)
  <2>1. /\ requests[f] # <<>>
        /\ replies' = [replies EXCEPT ![f] = Append(@, Head(requests[f]))]
        /\ requests' = [requests EXCEPT ![f] = Tail(@)]
    BY <1>3 DEF Echoes
  <2>2. /\ requests = [g \in Fds |-> requests[g]] /\ replies = [g \in Fds |-> replies[g]]
    BY DEF ExchangeInv
  <2>3. \A g \in Fds \ {f} : requests'[g] = requests[g] /\ replies'[g] = replies[g]
    BY Zenon, <2>1, <2>2
  <2>4. \A g \in Fds : Calm(g) => Calm(g)'
    BY <2>1, <2>3 DEF Calm
  <2>5. ASSUME NEW m, Only(f, m) PROVE Only(f, m)'
    <3>1. requests[f] = <<m>> /\ replies[f] = <<>>
      BY <2>1, <2>5 DEF Only
    <3>2. requests'[f] = <<>> /\ replies'[f] = <<m>>
      <4>1. requests'[f] = Tail(requests[f]) /\ replies'[f] = Append(replies[f], Head(requests[f]))
        BY <2>1, <2>2
      <4> QED BY <3>1, <4>1, OneMessage
    <3> QED BY <3>2 DEF Only
  <2>6. \A g \in Fds : \A m : Only(g, m) => Only(g, m)'
    BY SMTT(30), <2>3, <2>5 DEF Only
  <2>7. /\ FdsOf(idle) \subseteq Fds /\ FdsOf(survivors) \subseteq Fds /\ FdsOf(to_check) \subseteq Fds
        /\ \A x \in Borrowers : borrower[x] \in Holding => fd[x] \in Fds
    BY FdsMember DEF IInv, TypeOK, HolderInv
  <2>8. HandlerInv'
    BY <1>1, <2>4, <2>6, <2>7 DEF ExchangeInv, HandlerInv, Holding
  <2>9. WaitingInv'
    <3>1. pinging => Head(to_check).fd \in Fds
      BY PingedIsPrivate DEF ExchangeInv, WaitingInv
    <3> QED BY SMTT(30), <1>1, <2>4, <2>6, <2>7, <3>1 DEF ExchangeInv, WaitingInv
  <2>10. requests' = [g \in Fds |-> requests'[g]] /\ replies' = [g \in Fds |-> replies'[g]]
    BY ZenonT(30), <2>1, <2>2
  <2> QED BY <1>1, <2>8, <2>9, <2>10 DEF ExchangeInv
<1> QED BY <1>2, <1>3

-----------------------------------------------------------------------------
(* The steps of the pool that leave the exchanges alone. *)

PoolStep ==
    \/ \E b \in Borrowers : \/ BorrowCall(b) \/ BorrowStep(b) \/ BorrowTimesOut(b)
                            \/ SpuriousWake(b) \/ ReleaseStep(b)
    \/ ShutdownBegins \/ ShutdownNotifies \/ Tick
    \/ ReaperExits \/ ReaperScans \/ ReaperClosesVictims \/ ReaperClosesDead \/ ReaperPushes

(* Connections given back as healthy. *)
Healthy == {fd[b] : b \in {x \in Borrowers : borrower[x] = "release" /\ ~close_it[x]}}

(* Who gets a connection gets an idle or a new one; none leaves its handler; the
   idle list gets survivors and healthy ones; a ping in progress is not disturbed. *)
Passed ==
    /\ \A b \in Borrowers :
          /\ borrower[b] = "hold" => borrower'[b] = "hold" /\ fd'[b] = fd[b]
          /\ borrower'[b] = "hold" /\ borrower[b] # "hold" => fd'[b] \in FdsOf(idle) \cup (Fds \ open)
          /\ borrower'[b] = "release" => /\ borrower[b] = "release"
                                         /\ fd'[b] = fd[b] /\ close_it'[b] = close_it[b]
    /\ FdsOf(idle') \subseteq FdsOf(idle) \cup FdsOf(survivors) \cup Healthy
    /\ FdsOf(survivors') \subseteq FdsOf(survivors)
    /\ FdsOf(to_check') \subseteq FdsOf(idle) \/ to_check' = to_check
    /\ reaper = "ping" => reaper' = "ping" /\ to_check' = to_check

(* Every such step passes connections on in this way. *)
LEMMA PoolPasses ==
    ASSUME IInv, PoolStep
    PROVE  Passed
<1>0. TypeOK
  BY DEF IInv
<1>t. idle \in Seq(Slot) /\ survivors \in Seq(Slot) /\ FdsOf(<<>>) = {}
  BY <1>0, FdsEmpty DEF TypeOK
<1> USE DEF poolState, borrowerState, reaperState, shutterState, clockState
<1>1. ASSUME NEW b \in Borrowers,
             \/ BorrowCall(b) \/ BorrowAborted(b) \/ BorrowDials(b) \/ BorrowWaits(b)
             \/ BorrowTimesOut(b) \/ SpuriousWake(b) \/ DialFails(b)
      PROVE  Passed
  <2>1. /\ UNCHANGED <<fd, close_it, idle, survivors, to_check, reaper>>
        /\ \A x \in Borrowers : borrower'[x] = borrower[x] \/ /\ borrower[x] \notin {"hold", "release"}
                                                               /\ borrower'[x] \notin {"hold", "release"}
    <3>t. borrower \in [Borrowers -> BorrowerPlaces]
      BY <1>0 DEF TypeOK
    <3>1. UNCHANGED <<fd, close_it, idle, survivors, to_check, reaper>>
      BY Zenon, <1>1 DEF BorrowCall, BorrowAborted, BorrowDials, BorrowWaits, BorrowTimesOut,
                         SpuriousWake, DialFails
    <3>2. borrower[b] \notin {"hold", "release"}
      BY <1>1 DEF BorrowCall, BorrowAborted, BorrowDials, BorrowWaits, BorrowTimesOut,
                  SpuriousWake, DialFails, InLoop
    <3>3. \E p \in BorrowerPlaces \ {"hold", "release"} : Move(b, p) \/ MoveAndNotifyOne(b, p)
      BY <1>1 DEF BorrowCall, BorrowAborted, BorrowDials, BorrowWaits, BorrowTimesOut,
                  SpuriousWake, DialFails, BorrowerPlaces
    <3>4. PICK p \in BorrowerPlaces \ {"hold", "release"} : Move(b, p) \/ MoveAndNotifyOne(b, p)
      BY Zenon, <3>3
    <3>5. ASSUME NEW x \in Borrowers, borrower'[x] # borrower[x]
          PROVE  borrower[x] \notin {"hold", "release"} /\ borrower'[x] \notin {"hold", "release"}
      <4>1. CASE Move(b, p)
        BY <3>t, <3>2, <3>4, <3>5, <4>1 DEF Move
      <4>2. CASE MoveAndNotifyOne(b, p)
        BY <3>t, <3>2, <3>4, <3>5, <4>2 DEF MoveAndNotifyOne, Asleep
      <4> QED BY Zenon, <3>4, <4>1, <4>2
    <3> QED BY Zenon, <3>1, <3>5
  <2> QED BY SMTT(30), <2>1 DEF Passed
<1>2. ASSUME NEW b \in Borrowers, BorrowIdle(b) PROVE Passed
  <2>1. /\ borrower[b] \notin {"hold", "release"} /\ borrower'[b] = "hold" /\ fd'[b] = Head(idle).fd
        /\ \A x \in Borrowers \ {b} : borrower'[x] = borrower[x] /\ fd'[x] = fd[x]
        /\ UNCHANGED <<close_it, survivors, to_check, reaper>>
    BY <1>0, <1>2 DEF BorrowIdle, InLoop, Move, TypeOK
  <2>2. Head(idle).fd \in FdsOf(idle) /\ FdsOf(idle') \subseteq FdsOf(idle)
    BY SMTT(30), <1>t, <1>2, FdsTail DEF BorrowIdle
  <2> QED BY <2>1, <2>2 DEF Passed
<1>3. ASSUME NEW b \in Borrowers, DialSucceeds(b) PROVE Passed
  <2>1. /\ borrower[b] \notin {"hold", "release"} /\ borrower'[b] = "hold" /\ fd'[b] \in Fds \ open
        /\ \A x \in Borrowers \ {b} : borrower'[x] = borrower[x] /\ fd'[x] = fd[x]
        /\ UNCHANGED <<close_it, idle, survivors, to_check, reaper>>
    BY <1>0, <1>3 DEF DialSucceeds, Move, TypeOK
  <2> QED BY <2>1 DEF Passed
<1>4. ASSUME NEW b \in Borrowers, ReleaseLocked(b) PROVE Passed
  <2>1. UNCHANGED <<survivors, to_check, reaper>>
    BY <1>4 DEF ReleaseLocked
  <2>2. /\ borrower[b] = "release" /\ borrower'[b] \in {"out", "close"}
        /\ \A x \in Borrowers \ {b} : \/ borrower'[x] = borrower[x]
                                      \/ borrower[x] = "asleep" /\ borrower'[x] = "woken"
    BY <1>0, <1>4 DEF ReleaseLocked, MoveAndNotifyOne, Asleep, TypeOK
  <2>3. \A x \in Borrowers \ {b} : fd'[x] = fd[x] /\ close_it'[x] = close_it[x]
    BY <1>0, <1>4 DEF ReleaseLocked, TypeOK
  <2>4. FdsOf(idle') \subseteq FdsOf(idle) \cup Healthy
    <3>1. CASE close_it[b]
      BY <1>4, <3>1 DEF ReleaseLocked, ReturnedToIdle
    <3>2. CASE ~close_it[b]
      <4> DEFINE slot == [fd |-> fd[b], created |-> now, last_used |-> now]
      <4>1. idle' = Append(idle, slot)
        BY SMTT(30), <1>4, <3>2 DEF ReleaseLocked, ReturnedToIdle
      <4>2. slot \in Slot /\ slot.fd = fd[b]
        BY <1>0, <2>2 DEF Slot, TypeOK, IInv, HolderInv, Holding
      <4>3. FdsOf(idle') = FdsOf(idle) \cup {fd[b]}
        BY SMTT(30), <1>t, <4>1, <4>2, FdsAppend
      <4> QED BY <2>2, <3>2, <4>3 DEF Healthy
    <3> QED BY <3>1, <3>2
  <2> QED BY <2>1, <2>2, <2>3, <2>4 DEF Passed
<1>5. ASSUME NEW b \in Borrowers, ReleaseCloses(b) PROVE Passed
  <2>1. /\ borrower[b] = "close" /\ borrower'[b] = "out"
        /\ \A x \in Borrowers \ {b} : borrower'[x] = borrower[x] /\ fd'[x] = fd[x]
        /\ UNCHANGED <<close_it, idle, survivors, to_check, reaper>>
    BY <1>0, <1>5 DEF ReleaseCloses, Move, TypeOK
  <2> QED BY <2>1 DEF Passed
<1>6. CASE ShutdownBegins
  BY <1>t, <1>6 DEF ShutdownBegins, Passed
<1>7. CASE ShutdownNotifies
  <2>1. /\ UNCHANGED <<fd, close_it, idle, survivors, to_check, reaper>>
        /\ \A x \in Borrowers : \/ borrower'[x] = borrower[x]
                                \/ borrower[x] = "asleep" /\ borrower'[x] = "woken"
    BY <1>7 DEF ShutdownNotifies
  <2> QED BY <2>1 DEF Passed
<1>8. CASE Tick \/ ReaperExits \/ ReaperClosesVictims \/ ReaperClosesDead
  <2>1. UNCHANGED <<borrower, fd, close_it, idle, survivors, to_check>>
    BY <1>8 DEF Tick, ReaperExits, ReaperClosesVictims, ReaperClosesDead
  <2>2. reaper = "ping" => reaper' = "ping"
    BY SMTT(30), <1>8 DEF Tick, ReaperExits, ReaperClosesVictims, ReaperClosesDead
  <2> QED BY SMTT(30), <2>1, <2>2 DEF Passed
<1>9. CASE ReaperScans
  <2>1. /\ UNCHANGED <<borrower, fd, close_it, survivors>> /\ reaper = "wait"
        /\ \/ to_check' = Swept(idle, FALSE) /\ idle' = <<>>
           \/ to_check' = <<>> /\ idle' = Swept(idle, FALSE)
    BY Zenon, <1>9 DEF ReaperScans
  <2>2. FdsOf(Swept(idle, FALSE)) \subseteq FdsOf(idle)
    <3>1. FdsOf(idle) = FdsOf(Swept(idle, TRUE)) \cup FdsOf(Swept(idle, FALSE))
      BY Zenon, <1>t, FdsSwept
    <3> QED BY Zenon, <3>1
  <2> QED BY Zenon, <1>t, <2>1, <2>2 DEF Passed
<1>10. CASE ReaperPushes
  <2>1. /\ UNCHANGED <<borrower, fd, close_it, to_check>> /\ reaper = "push"
        /\ idle' = idle \o survivors /\ survivors' = <<>>
    BY <1>10 DEF ReaperPushes
  <2>2. FdsOf(idle') = FdsOf(idle) \cup FdsOf(survivors)
    BY SMTT(30), <1>t, <2>1, FdsConcat
  <2> QED BY <1>t, <2>1, <2>2 DEF Passed
<1> QED
  BY <1>1, <1>2, <1>3, <1>4, <1>5, <1>6, <1>7, <1>8, <1>9, <1>10
     DEF PoolStep, BorrowStep, ReleaseStep

(* And so they keep the invariant of the exchanges. *)
LEMMA PoolKeeps ==
    ASSUME IInv, IInv', ExchangeInv, PoolStep, Cleared
    PROVE  ExchangeInv'
<1>1. Passed
  BY PoolPasses
<1>2. /\ UNCHANGED <<stage, reply, pinging>>
      /\ requests' = [f \in Fds |-> IF f \in open' THEN requests[f] ELSE <<>>]
      /\ replies' = [f \in Fds |-> IF f \in open' THEN replies[f] ELSE <<>>]
  BY DEF Cleared
<1>3. /\ \A f \in Fds : Calm(f) => Calm(f)'
      /\ \A f \in Fds \ open' : Calm(f)'
      /\ \A f \in Fds \cap open' : \A m : Only(f, m) => Only(f, m)'
  BY <1>2 DEF Calm, Only
<1>4. /\ FdsOf(idle) \subseteq Fds /\ FdsOf(survivors) \subseteq Fds
      /\ \A b \in Borrowers : borrower[b] \in Holding => fd[b] \in Fds
  BY FdsMember DEF IInv, TypeOK, HolderInv
<1>5. /\ \A b \in Borrowers : borrower'[b] \in Holding => fd'[b] \in Fds \cap open'
      /\ FdsOf(to_check') \subseteq Fds \cap open'
  <2>1. Held' \subseteq open' /\ FdsOf(to_check') \subseteq open' /\ open' \subseteq Fds
    BY SMTT(30) DEF IInv, OwnInv, TypeOK
  <2> QED BY SMTT(30), <2>1 DEF Held
<1>6. HandlerInv'
  <2>1. ASSUME NEW b \in Borrowers
        PROVE  /\ stage[b] # "idle" => borrower[b] = "hold"
               /\ borrower[b] = "hold" /\ stage[b] \in {"idle", "respond"} => Calm(fd[b])
               /\ stage[b] = "read" => Only(fd[b], Request(b))
               /\ stage[b] = "respond" => reply[b] = Request(b)
               /\ borrower[b] = "release" /\ ~close_it[b] => Calm(fd[b])
    BY DEF ExchangeInv, HandlerInv
  <2>2. ASSUME NEW b \in Borrowers
        PROVE  /\ borrower[b] = "hold" => borrower'[b] = "hold" /\ fd'[b] = fd[b]
               /\ borrower'[b] = "hold" /\ borrower[b] # "hold" => fd'[b] \in FdsOf(idle) \cup (Fds \ open)
               /\ borrower'[b] = "release" => /\ borrower[b] = "release"
                                              /\ fd'[b] = fd[b] /\ close_it'[b] = close_it[b]
    BY SMTT(30), <1>1 DEF Passed
  <2>3. ASSUME NEW b \in Borrowers, borrower'[b] = "hold", stage'[b] \in {"idle", "respond"}
        PROVE  Calm(fd[b])'
    <3>1. Calm(fd'[b]) /\ fd'[b] \in Fds
      BY SMTT(30), <1>2, <1>4, <2>1, <2>2, <2>3 DEF ExchangeInv, WaitingInv, Holding
    <3> QED BY SMTT(30), <1>3, <3>1 DEF Calm
  <2>4. ASSUME NEW b \in Borrowers, stage'[b] = "read"
        PROVE  Only(fd[b], Request(b))'
    <3>1. Only(fd[b], Request(b)) /\ fd'[b] = fd[b] /\ fd[b] \in Fds \cap open'
      BY <1>2, <1>5, <2>1, <2>2, <2>4 DEF Holding
    <3> QED BY Zenon, <1>3, <3>1 DEF Only
  <2>5. ASSUME NEW b \in Borrowers, borrower'[b] = "release", ~close_it'[b]
        PROVE  Calm(fd[b])'
    <3>1. Calm(fd[b]) /\ fd'[b] = fd[b] /\ fd[b] \in Fds
      BY SMTT(30), <1>4, <2>1, <2>2, <2>5 DEF Holding
    <3> QED BY SMTT(30), <1>3, <3>1 DEF Calm
  <2>6. ASSUME NEW b \in Borrowers
        PROVE  /\ stage'[b] # "idle" => borrower'[b] = "hold"
               /\ stage'[b] = "respond" => reply'[b] = Request(b)
    BY <1>2, <2>1, <2>2
  <2> QED BY SMTT(30), <2>3, <2>4, <2>5, <2>6 DEF HandlerInv
<1>7. WaitingInv'
  <2>1. \A f \in FdsOf(idle) \cup FdsOf(survivors) \cup Healthy : f \in Fds /\ Calm(f)
    <3>1. \A f \in Healthy : f \in Fds /\ Calm(f)
      BY SMTT(30), <1>4 DEF Healthy, ExchangeInv, HandlerInv, Holding
    <3> QED BY <1>4, <3>1 DEF ExchangeInv, WaitingInv
  <2>2. (\A f \in FdsOf(idle) \cup FdsOf(survivors) : Calm(f))'
    BY SMTT(30), <1>1, <1>3, <2>1 DEF Passed, Calm
  <2>3. CASE pinging
    <3>1. reaper' = "ping" /\ to_check' = to_check /\ pinging'
      BY <1>1, <1>2, <2>3 DEF Passed, ExchangeInv, WaitingInv
    <3>2. Head(to_check).fd \in FdsOf(to_check) /\ Only(Head(to_check).fd, Ping)
      BY <2>3, PingedIsPrivate DEF ExchangeInv, WaitingInv
    <3>3. Head(to_check).fd \in Fds \cap open'
      BY SMTT(30), <1>5, <3>1, <3>2
    <3>4. Only(Head(to_check).fd, Ping)'
      BY ZenonT(30), <1>3, <3>1, <3>2, <3>3 DEF Only
    <3>5. \A f \in FdsOf(to_check) : Calm(f)' \/ f = Head(to_check).fd
      BY <1>3, <1>5, <3>1 DEF ExchangeInv, WaitingInv
    <3> QED BY SMTT(30), <1>3, <2>2, <3>1, <3>4, <3>5 DEF WaitingInv
  <2>4. CASE ~pinging
    <3>1. \A f \in FdsOf(to_check') : Calm(f)
      BY SMTT(30), <1>1, <2>1, <2>4 DEF Passed, ExchangeInv, WaitingInv
    <3>2. (\A f \in FdsOf(to_check) : Calm(f))'
      BY <1>3, <1>5, <3>1 DEF Calm
    <3> QED BY <1>2, <1>3, <2>2, <2>4, <3>2 DEF WaitingInv
  <2> QED BY <2>3, <2>4 DEF ExchangeInv
<1>8. /\ stage' \in [Borrowers -> Stages] /\ DOMAIN reply' = Borrowers
      /\ requests' = [f \in Fds |-> requests'[f]] /\ replies' = [f \in Fds |-> replies'[f]]
  BY <1>2 DEF ExchangeInv
<1> QED BY <1>6, <1>7, <1>8 DEF ExchangeInv

-----------------------------------------------------------------------------
(* The health ping. *)

(* Its write puts the ping, alone, on a calm connection. *)
LEMMA PingWritesKeeps ==
    ASSUME IInv, ExchangeInv, PingWrites
    PROVE  ExchangeInv'
<1> DEFINE f == Head(to_check).fd
<1>1. /\ reaper = "ping" /\ ~pinging /\ pinging'
      /\ requests' = [requests EXCEPT ![f] = Append(@, Ping)]
      /\ UNCHANGED <<vars, stage, reply, replies>>
      /\ UNCHANGED <<idle, survivors, to_check, reaper, open, borrower, fd, close_it>>
  BY DEF PingWrites, vars, poolState, borrowerState, reaperState
<1>2. /\ f \in Fds /\ f \in open /\ f \in FdsOf(to_check)
      /\ f \notin FdsOf(idle) \cup FdsOf(survivors)
      /\ \A b \in Borrowers : borrower[b] \in Holding => fd[b] # f
  BY SMTT(30), <1>1, PingedIsPrivate
<1>3. requests[f] = <<>> /\ replies[f] = <<>>
  BY <1>1, <1>2 DEF ExchangeInv, WaitingInv, Calm
<1>4. /\ requests'[f] = <<Ping>>
      /\ \A g \in Fds \ {f} : requests'[g] = requests[g]
      /\ requests' = [g \in Fds |-> requests'[g]]
  <2>1. requests'[f] = Append(requests[f], Ping) /\ \A g \in Fds \ {f} : requests'[g] = requests[g]
    BY SMTT(30), <1>1, <1>2 DEF ExchangeInv
  <2>2. requests' = [g \in Fds |-> requests'[g]]
    BY ZenonT(30), <1>1 DEF ExchangeInv
  <2> QED BY SMTT(30), <1>3, <2>1, <2>2, OneMessage
<1>5. /\ FdsOf(idle) \subseteq Fds /\ FdsOf(survivors) \subseteq Fds /\ FdsOf(to_check) \subseteq Fds
      /\ \A x \in Borrowers : borrower[x] \in Holding => fd[x] \in Fds
  BY FdsMember DEF IInv, TypeOK, HolderInv
<1>p. f' = f
  BY <1>1
<1> HIDE DEF f
<1>6. HandlerInv'
  <2>1. ASSUME NEW b \in Borrowers, borrower[b] \in Holding
        PROVE  Calm(fd[b])' = Calm(fd[b]) /\ Only(fd[b], Request(b))' = Only(fd[b], Request(b))
    BY SMTT(30), <1>1, <1>2, <1>4, <1>5, <2>1 DEF Calm, Only
  <2> QED BY <1>1, <2>1 DEF ExchangeInv, HandlerInv, Holding
<1>7. WaitingInv'
  <2>1. \A g \in Fds \ {f} : Calm(g) => Calm(g)'
    BY <1>1, <1>4 DEF Calm
  <2>2. Only(f, Ping)'
    BY SMTT(30), <1>1, <1>3, <1>4, <1>p DEF Only
  <2>3. (\A g \in Fds \ open : Calm(g))' /\ (\A g \in FdsOf(idle) \cup FdsOf(survivors) : Calm(g))'
    BY SMTT(30), <1>1, <1>2, <1>5, <2>1 DEF ExchangeInv, WaitingInv
  <2>4. \A g \in FdsOf(to_check) : Calm(g)' \/ g = f
    BY SMTT(30), <1>1, <1>5, <2>1 DEF ExchangeInv, WaitingInv
  <2> QED BY SMTT(30), <1>1, <1>p, <2>2, <2>3, <2>4 DEF WaitingInv, f
<1> QED BY SMTT(30), <1>1, <1>4, <1>6, <1>7 DEF ExchangeInv

(* Its end: the answer leaves a calm connection, which survives; anything else
   leaves a connection that will be closed. *)
LEMMA PingEndsKeeps ==
    ASSUME IInv, ExchangeInv, PingReads \/ PingFails
    PROVE  ExchangeInv'
<1> DEFINE f == Head(to_check).fd
<1>1. /\ reaper = "ping" /\ pinging' = FALSE
      /\ to_check' = Tail(to_check)
      /\ UNCHANGED <<stage, reply, requests, idle, open, borrower, fd, close_it>>
  BY DEF PingReads, PingFails, ReaperPings, poolState, borrowerState
<1>2. /\ f \in Fds /\ f \in open /\ to_check # <<>>
      /\ f \notin FdsOf(idle) \cup FdsOf(survivors) \cup FdsOf(to_check')
      /\ FdsOf(to_check) = FdsOf(to_check') \cup {f}
      /\ \A b \in Borrowers : borrower[b] \in Holding => fd[b] # f
  BY SMTT(30), <1>1, PingedIsPrivate
<1>3. /\ FdsOf(idle) \subseteq Fds /\ FdsOf(survivors) \subseteq Fds /\ FdsOf(to_check) \subseteq Fds
      /\ \A x \in Borrowers : borrower[x] \in Holding => fd[x] \in Fds
  BY FdsMember DEF IInv, TypeOK, HolderInv
<1>4. /\ \A g \in Fds \ {f} : replies'[g] = replies[g]
      /\ replies' = [g \in Fds |-> replies'[g]]
  <2>1. replies' = replies \/ replies' = [replies EXCEPT ![f] = Tail(@)]
    BY Zenon DEF PingReads, PingFails
  <2>2. replies = [g \in Fds |-> replies[g]]
    BY DEF ExchangeInv
  <2> HIDE DEF f
  <2> QED BY <2>1, <2>2
<1>5. \/ survivors' = survivors
      \/ FdsOf(survivors') = FdsOf(survivors) \cup {f} /\ requests'[f] = <<>> /\ replies'[f] = <<>>
  <2>1. CASE PingFails
    BY <2>1 DEF PingFails, ReaperPings
  <2>2. CASE PingReads
    <3>1. pinging /\ replies[f] # <<>> /\ replies' = [replies EXCEPT ![f] = Tail(@)]
      BY SMTT(30), <2>2 DEF PingReads
    <3>2. requests[f] = <<>> /\ replies[f] = <<Ping>>
      BY <3>1 DEF ExchangeInv, WaitingInv, Only
    <3>3. Head(replies[f]) = Ping
      BY <3>2, OneMessage
    <3>4. ReaperPings(TRUE)
      <4>1. ReaperPings(Head(replies[f]) = Ping)
        BY <2>2 DEF PingReads
      <4>2. (Head(replies[f]) = Ping) = TRUE
        BY <3>3
      <4> HIDE DEF f
      <4> QED BY ZenonT(30), <4>1, <4>2
    <3> DEFINE n == [Head(to_check) EXCEPT !.last_used = now]
    <3>5. survivors' = Append(survivors, n)
      BY <3>4 DEF ReaperPings
    <3>6. Head(to_check) \in Slot /\ now \in Nat /\ survivors \in Seq(Slot)
      BY <1>2, FdsTail DEF IInv, TypeOK
    <3>7. n \in Slot /\ n.fd = f
      BY <3>6 DEF Slot
    <3>8. FdsOf(survivors') = FdsOf(survivors) \cup {f}
      <4> HIDE DEF n, f
      <4> QED BY SMTT(30), <3>5, <3>6, <3>7, FdsAppend
    <3>9. replies'[f] = <<>>
      <4>1. replies'[f] = Tail(replies[f])
        BY SMTT(30), <1>2, <3>1 DEF ExchangeInv
      <4> QED BY SMTT(30), <3>2, <4>1, OneMessage
    <3> QED BY SMTT(30), <1>1, <3>2, <3>8, <3>9
  <2> QED BY <2>1, <2>2
<1> HIDE DEF f
<1>6. HandlerInv'
  <2>1. ASSUME NEW b \in Borrowers, borrower[b] \in Holding
        PROVE  Calm(fd[b])' = Calm(fd[b]) /\ Only(fd[b], Request(b))' = Only(fd[b], Request(b))
    BY SMTT(30), <1>1, <1>2, <1>3, <1>4, <2>1 DEF Calm, Only
  <2> QED BY SMTT(30), <1>1, <2>1 DEF ExchangeInv, HandlerInv, Holding
<1>7. WaitingInv'
  <2>1. \A g \in Fds \ {f} : Calm(g) => Calm(g)'
    BY <1>1, <1>4 DEF Calm
  <2>2. (\A g \in Fds \ open : Calm(g))'
    BY SMTT(30), <1>1, <1>2, <2>1 DEF ExchangeInv, WaitingInv
  <2>3. \A g \in FdsOf(idle) \cup FdsOf(survivors) : g \in Fds \ {f} /\ Calm(g)'
    BY SMTT(30), <1>2, <1>3, <2>1 DEF ExchangeInv, WaitingInv
  <2>4. (\A g \in FdsOf(idle) \cup FdsOf(survivors) : Calm(g))'
    BY SMTT(30), <1>1, <1>5, <2>3 DEF Calm
  <2>5. \A g \in FdsOf(to_check') : g \in Fds \ {f} /\ Calm(g)
    BY <1>2, <1>3 DEF ExchangeInv, WaitingInv, f
  <2>6. (\A g \in FdsOf(to_check) : Calm(g))'
    BY <2>1, <2>5 DEF Calm
  <2> QED BY SMTT(30), <1>1, <2>2, <2>4, <2>6 DEF WaitingInv
<1> QED BY SMTT(30), <1>1, <1>4, <1>6, <1>7 DEF ExchangeInv

-----------------------------------------------------------------------------
(* Every step of the request path keeps the invariant. *)
LEMMA PathStepKeeps ==
    ASSUME IInv, IInv', ExchangeInv, [PathNext]_pathVars
    PROVE  ExchangeInv'
<1>1. ASSUME NEW b \in Borrowers, HandlerStep(b) PROVE ExchangeInv'
  BY SMTT(30), <1>1, HandlerKeeps, ReleaseKeeps, PoolKeeps DEF HandlerStep, PoolStep
<1>2. CASE ReaperMoves
  BY SMTT(30), <1>2, PingWritesKeeps, PingEndsKeeps, PoolKeeps DEF ReaperMoves, PoolStep
<1>3. ASSUME NEW f \in Fds, Echoes(f) \/ BackendCloses(f) PROVE ExchangeInv'
  BY SMTT(30), <1>3, BackendKeeps
<1>4. CASE UNCHANGED pathVars
  <2>1. /\ UNCHANGED <<stage, reply, pinging, requests, replies>>
        /\ UNCHANGED <<fd, idle, survivors, to_check, reaper, open, borrower, close_it>>
    BY <1>4 DEF pathVars, exchange, vars, poolState, borrowerState, reaperState
  <2> QED BY Zenon, <2>1 DEF ExchangeInv, HandlerInv, WaitingInv, Calm, Only
<1>5. CASE (ShutdownBegins \/ ShutdownNotifies \/ Tick) /\ Cleared
  BY <1>5, PoolKeeps DEF PoolStep
<1>6. ASSUME NEW b \in Borrowers, (BorrowCall(b) \/ SpuriousWake(b)) /\ Cleared
      PROVE  ExchangeInv'
  BY <1>6, PoolKeeps DEF PoolStep
<1> QED BY SMTT(30), <1>1, <1>2, <1>3, <1>4, <1>5, <1>6 DEF PathNext

(* The request path starts with nothing under way. *)
LEMMA PathInitCalm == PathInit => ExchangeInv
<1>1. SUFFICES ASSUME PathInit PROVE ExchangeInv
  OBVIOUS
<1>2. HandlerInv
  BY SMTT(30), <1>1 DEF PathInit, Init, HandlerInv
<1>3. WaitingInv
  BY SMTT(30), <1>1, FdsEmpty DEF PathInit, Init, WaitingInv, Calm
<1> QED BY <1>1, <1>2, <1>3 DEF PathInit, ExchangeInv, Stages

(* The invariant says what NoCrossTalk says. *)
LEMMA ExchangeIsPrivate ==
    ASSUME ExchangeInv
    PROVE  NoCrossTalk
<1>1. pinging => \/ replies[Head(to_check).fd] = <<>>
                 \/ Head(replies[Head(to_check).fd]) = Ping
  BY Zenon, OneMessage DEF ExchangeInv, WaitingInv, Only
<1> QED BY <1>1 DEF NoCrossTalk, ExchangeInv, HandlerInv

(* Whatever handlers, backends and the reaper put on the connections, the pool
   below them behaves as BackendPool: handle_one() and health_ping_() use it only
   through borrow(), release() and the reaper's own steps. *)
THEOREM PathUsesPool == PathSpec => Spec
<1>1. PathInit => Init
  BY DEF PathInit
<1> QED BY <1>1, PathStepIsPoolStep, PTL DEF PathSpec, Spec

(* So a connection in use by a handler or by the reaper has that one owner. *)
THEOREM PathOwnedOnce == PathSpec => []OwnedExactlyOnce
BY PathUsesPool, ConnectionsOwnedOnce, PTL

(* Whichever handler fails, times out or throws on a connection, with or without
   health pings: in_use_ stays exact, each scan of the reaper goes by the last
   return, and what shutdown() leaves open was under a ping or in a release() that
   had already read shutting_down_.  Without pings the pool keeps to max_size. *)
THEOREM PathPoolSafe ==
    PathSpec => /\ [](InUseExact /\ WithinMaxSizeUnpinged /\ OnlyMissedStayOpen)
                /\ ScanByLastReturn
<1>1. PathSpec => [](InUseExact /\ WithinMaxSizeUnpinged /\ OnlyMissedStayOpen)
  BY PathUsesPool, InUseIsExact, MaxSizeWithoutPings, ShutdownLeavesOnlyMissed, PTL
<1>2. PathSpec => ScanByLastReturn
  BY PathUsesPool, ReaperGoesByLastReturn
<1> QED BY <1>1, <1>2

(* A client never gets the reply to another's request, or to a ping, although
   messages carry no identification and the backend may answer late. *)
THEOREM NoCrossTalkEver == PathSpec => []NoCrossTalk
<1>1. PathSpec => []IInv
  BY PathUsesPool, PoolInvariant, PTL
<1>2. IInv /\ IInv' /\ ExchangeInv /\ [PathNext]_pathVars => ExchangeInv'
  BY PathStepKeeps
<1>3. ExchangeInv => NoCrossTalk
  BY ExchangeIsPrivate
<1> QED BY <1>1, <1>2, <1>3, PathInitCalm, PTL DEF PathSpec
=============================================================================
