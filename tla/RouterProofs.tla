---------------------------- MODULE RouterProofs ----------------------------
(***************************************************************************)
(* Proofs about Router, for any number of clients and workers and any queue *)
(* depth, and about Startup: a start-up that fails leaves nothing half done, *)
(* and one that succeeds leaves a state from which Router's theorems hold.   *)
(***************************************************************************)
EXTENDS Startup, FiniteSetTheorems, TLAPS

At(st, S) == {c \in Conns : st[c] \in S}

Handled == {"taken"} \cup InHandler

AfterJoin == {"close", "poll", "check", "count", "pool_stop", "pool_join",
              "backend_shutdown", "exit"}
AfterStop == {"pool_join", "backend_shutdown", "exit"}

(* What is queued or being run is what the stages say, each connection once. *)
QueueInv ==
    /\ \A i \in 1..Len(queue) : stage[queue[i]] = "queued"
    /\ \A i, j \in 1..Len(queue) : queue[i] = queue[j] => i = j
    /\ \A c \in Conns : stage[c] = "queued" => \E i \in 1..Len(queue) : queue[i] = c

RunningInv ==
    /\ \A w \in Workers : running[w] # NoTask => stage[running[w]] \in Handled \cup {"done"}
    /\ \A v, w \in Workers : running[v] = running[w] /\ running[v] # NoTask => v = w
    /\ \A c \in Conns : stage[c] \in Handled => \E w \in Workers : running[w] = c

(* How far main() is says which threads are gone. *)
PhaseInv ==
    /\ main \in AfterJoin => acceptor = "exited"
    /\ stopped <=> main \in AfterStop
    /\ \A w \in exited : stopped /\ queue = <<>> /\ running[w] = NoTask
    /\ main \in {"backend_shutdown", "exit"} => exited = Workers
    /\ \A c \in Conns : stage[c] = "submitting" => acceptor = "submit"
    /\ \A c, d \in Conns : stage[c] = "submitting" /\ stage[d] = "submitting" => c = d
    /\ SubmitNeverRefused

Closed == {"leave", "done", "count_handshake"}

Bit(x, S) == IF x \in S THEN 1 ELSE 0

ClosesInv ==
    \A c \in Conns : closes[c] = Bit(stage[c], Closed)

Leased == {"write_backend", "read_backend", "write_client", "reply_error",
           "release_failed", "release_ok", "release_errored"}

LeaseInv ==
    \A c \in Conns : stage[c] \in Leased \/ lease[c] = FALSE

CountInv ==
    /\ in_flight = Cardinality(At(stage, InHandler))
    /\ completed + errored = Cardinality(At(stage, Counted))
    /\ accepted = Cardinality(At(stage, Stages \ Outside))

(* The inductive invariant. *)
IInv ==
    /\ RouterTypeOK
    /\ QueueInv
    /\ RunningInv
    /\ PhaseInv
    /\ ClosesInv
    /\ LeaseInv
    /\ CountInv

(* Moving one connection to stage v changes the number of connections in a set
   of stages by what one would expect. *)
LEMMA MoveCounts ==
    ASSUME NEW st \in [Conns -> Stages], NEW c \in Conns, NEW v \in Stages, NEW S
    PROVE  /\ Cardinality(At(st, S)) \in Nat
           /\ Cardinality(At([st EXCEPT ![c] = v], S))
                = Cardinality(At(st, S)) + Bit(v, S) - Bit(st[c], S)
<1> DEFINE st2 == [st EXCEPT ![c] = v]
<1>1. IsFiniteSet(At(st, S))
  BY ConnsFinite, FS_Subset DEF At
<1>2. Cardinality(At(st, S)) \in Nat
  BY <1>1, FS_CardinalityType
<1>3. ASSUME st[c] \in S <=> v \in S PROVE At(st2, S) = At(st, S)
  BY <1>3 DEF At
<1>4. ASSUME st[c] \notin S, v \in S
      PROVE  Cardinality(At(st2, S)) = Cardinality(At(st, S)) + 1
  <2>1. At(st2, S) = At(st, S) \cup {c} /\ c \notin At(st, S)
    BY <1>4 DEF At
  <2> QED BY Zenon, <2>1, <1>1, FS_AddElement
<1>5. ASSUME st[c] \in S, v \notin S
      PROVE  Cardinality(At(st2, S)) = Cardinality(At(st, S)) - 1
  <2>1. At(st2, S) = At(st, S) \ {c} /\ c \in At(st, S)
    BY <1>5 DEF At
  <2> QED BY ZenonT(30), <2>1, <1>1, FS_RemoveElement
<1> QED
  <2>1. CASE st[c] \in S <=> v \in S
    BY <2>1, <1>2, <1>3 DEF Bit
  <2>2. CASE st[c] \notin S /\ v \in S
    BY <2>2, <1>2, <1>4 DEF Bit
  <2>3. CASE st[c] \in S /\ v \notin S
    BY <2>3, <1>2, <1>5 DEF Bit
  <2> QED BY <2>1, <2>2, <2>3

(* What every step of handle_one has in common: it moves c forward and keeps
   the counters and the descriptor in line with the move. *)
Forward(c) ==
    LET u == stage[c]
        v == stage'[c]
    IN  /\ stage' = [stage EXCEPT ![c] = v]
        /\ u \in Handled
        /\ v \in InHandler \cup {"done"}
        /\ \A d \in Conns : d # c => closes'[d] = closes[d]
        /\ reply' \in [Conns -> {"none", "response", "error"}]
        /\ closes' \in [Conns -> Nat]
        /\ closes'[c] = closes[c] + Bit(v, Closed) - Bit(u, Closed)
        /\ in_flight' = in_flight + Bit(v, InHandler) - Bit(u, InHandler)
        /\ completed' \in Nat /\ errored' \in Nat
        /\ completed' + errored' = completed + errored + Bit(v, Counted) - Bit(u, Counted)

(* The stages of the steps, as numbers. *)
LEMMA Bits ==
    /\ \A S \in {InHandler, Counted, Closed}, x \in STRING : Bit(x, S) \in {0, 1}
    /\ Bit("taken", InHandler) = 0 /\ Bit("done", InHandler) = 0
    /\ \A x \in InHandler : Bit(x, InHandler) = 1
    /\ \A x \in (InHandler \cup {"taken"}) \ {"close", "leave"} : Bit(x, Counted) = 0
    /\ Bit("close", Counted) = 1 /\ Bit("leave", Counted) = 1 /\ Bit("done", Counted) = 1
    /\ \A x \in (InHandler \cup {"taken"}) \ {"leave", "count_handshake"} : Bit(x, Closed) = 0
    /\ Bit("leave", Closed) = 1 /\ Bit("done", Closed) = 1 /\ Bit("count_handshake", Closed) = 1
BY DEF Bit, InHandler, Counted, Closed

(* Every step of handle_one is a forward move. *)
LEMMA HandlerForward ==
    ASSUME RouterTypeOK, NEW c \in Conns, HandleOne(c)
    PROVE  Forward(c)
<1> USE Bits DEF Stages, Outside, Waiting, InHandler, Handled, RouterTypeOK, Goto, Forward
<1>1. CASE Enter(c)
  BY <1>1 DEF Enter
<1>2. ASSUME NEW ok \in BOOLEAN, Handshake(c, ok) PROVE Forward(c)
  BY <1>2 DEF Handshake
<1>3. ASSUME NEW ok \in BOOLEAN, ReadClient(c, ok) PROVE Forward(c)
  BY <1>3 DEF ReadClient
<1>4. ASSUME NEW ok \in BOOLEAN, Borrow(c, ok) PROVE Forward(c)
  BY <1>4 DEF Borrow
<1>5. ASSUME NEW ok \in BOOLEAN, WriteBackend(c, ok) PROVE Forward(c)
  BY <1>5 DEF WriteBackend
<1>6. ASSUME NEW ok \in BOOLEAN, ReadBackend(c, ok) PROVE Forward(c)
  BY <1>6 DEF ReadBackend
<1>7. ASSUME NEW ok \in BOOLEAN, ReplyError(c, ok) PROVE Forward(c)
  BY <1>7 DEF ReplyError
<1>8. ASSUME NEW ok \in BOOLEAN, WriteClient(c, ok) PROVE Forward(c)
  BY <1>8 DEF WriteClient
<1>9. CASE Release(c)
  BY <1>9 DEF Release
<1>10. CASE CountErrored(c)
  BY <1>10 DEF CountErrored
<1>11. CASE CountCompleted(c)
  BY <1>11 DEF CountCompleted
<1>12. CASE CloseClient(c)
  BY <1>12 DEF CloseClient
<1>13. CASE Leave(c)
  BY <1>13 DEF Leave
<1> QED
  BY <1>1, <1>2, <1>3, <1>4, <1>5, <1>6, <1>7, <1>8, <1>9, <1>10, <1>11, <1>12, <1>13
  DEF HandleOne, LocalStep, SendStep

(* The lease follows the stage through every step of handle_one. *)
LEMMA HandlerLease ==
    ASSUME RouterTypeOK, LeaseInv, NEW c \in Conns, HandleOne(c)
    PROVE  lease' \in [Conns -> BOOLEAN] /\ LeaseInv'
<1>1. lease \in [Conns -> BOOLEAN] /\ stage \in [Conns -> Stages]
  BY DEF RouterTypeOK
<1>2. stage[c] \in Leased \/ lease[c] = FALSE
  BY DEF LeaseInv
<1>3. \A d \in Conns : d # c => stage'[d] = stage[d]
  BY <1>1 DEF HandleOne, LocalStep, SendStep, Enter, Handshake, ReadClient, Borrow, ReadBackend,
          Release, CountErrored, CountCompleted, CloseClient, Leave, WriteBackend, WriteClient,
          ReplyError, Goto
<1>4. SUFFICES /\ lease' \in [Conns -> BOOLEAN]
               /\ \A d \in Conns : d # c => lease'[d] = lease[d]
               /\ stage'[c] \in Leased \/ lease'[c] = FALSE
  BY <1>3, Zenon DEF LeaseInv
<1>5. CASE Release(c)
  BY <1>5, <1>1 DEF Release
<1>6. ASSUME NEW ok \in BOOLEAN, Borrow(c, ok)
      PROVE  /\ lease' \in [Conns -> BOOLEAN]
             /\ \A d \in Conns : d # c => lease'[d] = lease[d]
             /\ stage'[c] \in Leased \/ lease'[c] = FALSE
  BY <1>6, <1>1 DEF Borrow, Goto, Leased
<1>7. CASE lease' = lease /\ stage[c] \notin Leased
  BY <1>7, <1>1, <1>2, Zenon
<1>8. CASE lease' = lease /\ stage'[c] \in Leased
  BY <1>8, <1>1, Zenon
<1>9. ASSUME NEW ok \in BOOLEAN, WriteBackend(c, ok) \/ WriteClient(c, ok) \/ ReadBackend(c, ok)
      PROVE  lease' = lease /\ stage'[c] \in Leased
  BY <1>9, <1>1 DEF WriteBackend, WriteClient, ReadBackend, Goto, Leased
<1>10. ASSUME NEW ok \in BOOLEAN, ReplyError(c, ok)
       PROVE  /\ lease' \in [Conns -> BOOLEAN]
              /\ \A d \in Conns : d # c => lease'[d] = lease[d]
              /\ stage'[c] \in Leased \/ lease'[c] = FALSE
  <2>1. lease' = lease /\ stage'[c] = IF lease[c] THEN "release_failed" ELSE "count_errored"
    BY <1>10, <1>1 DEF ReplyError, Goto
  <2> QED BY <2>1, <1>1, Zenon DEF Leased
<1>11. ASSUME NEW ok \in BOOLEAN, Handshake(c, ok) \/ ReadClient(c, ok)
       PROVE  lease' = lease /\ stage[c] \notin Leased
  BY <1>11 DEF Handshake, ReadClient, Goto, Leased
<1>12. ASSUME Enter(c) \/ CountErrored(c) \/ CountCompleted(c) \/ CloseClient(c) \/ Leave(c)
       PROVE  lease' = lease /\ stage[c] \notin Leased
  BY <1>12 DEF Enter, CountErrored, CountCompleted, CloseClient, Leave, Goto, Leased
<1> QED
  BY <1>5, <1>6, <1>7, <1>8, <1>9, <1>10, <1>11, <1>12, Zenon DEF HandleOne, LocalStep, SendStep

(* A count of connections is a number. *)
LEMMA CountType ==
    ASSUME NEW st \in [Conns -> Stages], NEW S
    PROVE  Cardinality(At(st, S)) \in Nat
BY ConnsFinite, FS_Subset, FS_CardinalityType DEF At

(* A step of a handler, run by worker w. *)
LEMMA WorkerHandles ==
    ASSUME IInv, NEW w \in Workers, WorkerLocal(w) \/ WorkerSend(w)
    PROVE  IInv'
<1> DEFINE c == running[w]
<1>1. c \in Conns /\ HandleOne(c) /\ UNCHANGED <<poolVars, acceptorVars, mainVars>>
  BY DEF IInv, RouterTypeOK, WorkerLocal, WorkerSend, HandleOne
<1>2. Forward(c)
  BY <1>1, HandlerForward DEF IInv
<1>3. lease' \in [Conns -> BOOLEAN] /\ LeaseInv'
  BY <1>1, HandlerLease DEF IInv
<1>4. stage \in [Conns -> Stages] /\ stage'[c] \in Stages /\ stage' = [stage EXCEPT ![c] = stage'[c]]
  BY <1>2 DEF Forward, IInv, RouterTypeOK, Stages
<1>5. CountInv'
  <2>1. \A S : Cardinality(At(stage', S))
                  = Cardinality(At(stage, S)) + Bit(stage'[c], S) - Bit(stage[c], S)
    BY <1>1, <1>4, MoveCounts
  <2>2. Bit(stage'[c], Stages \ Outside) = 1 /\ Bit(stage[c], Stages \ Outside) = 1
    BY <1>2 DEF Forward, Bit, Stages, Outside, Handled, InHandler, Waiting
  <2>3. \A S : Cardinality(At(stage, S)) \in Nat
    BY <1>4, CountType
  <2>4. CountInv /\ accepted' = accepted
    BY <1>1 DEF IInv, acceptorVars
  <2>5. in_flight' = Cardinality(At(stage', InHandler))
    BY <1>2, <2>1, <2>4 DEF Forward, CountInv
  <2>6. completed' + errored' = Cardinality(At(stage', Counted))
    BY <1>2, <2>1, <2>4 DEF Forward, CountInv
  <2>7. accepted' = Cardinality(At(stage', Stages \ Outside))
    BY <2>1, <2>2, <2>3, <2>4 DEF CountInv
  <2> QED BY <2>5, <2>6, <2>7 DEF CountInv
<1>6. in_flight' \in Nat
  BY <1>4, <1>5, CountType DEF CountInv
<1>7. RouterTypeOK'
  BY ZenonT(30), <1>1, <1>2, <1>3, <1>4, <1>6
     DEF Forward, IInv, RouterTypeOK, poolVars, acceptorVars, mainVars
<1>8. ClosesInv'
  <2>1. \A d \in Conns : d # c => closes'[d] = closes[d] /\ stage'[d] = stage[d]
    BY <1>2, <1>4 DEF Forward
  <2>2. closes'[c] = closes[c] + Bit(stage'[c], Closed) - Bit(stage[c], Closed)
    BY <1>2 DEF Forward
  <2>3. ClosesInv
    BY DEF IInv
  <2>4. closes'[c] = Bit(stage'[c], Closed)
    <3>1. closes[c] = Bit(stage[c], Closed)
      BY <1>1, <2>3 DEF ClosesInv
    <3>2. Bit(stage[c], Closed) \in Int /\ Bit(stage'[c], Closed) \in Int
      BY DEF Bit
    <3> QED BY SMTT(30), <2>2, <3>1, <3>2
  <2> QED BY <2>1, <2>3, <2>4 DEF ClosesInv
<1>9. stage[c] \in Handled /\ stage'[c] \in InHandler \cup {"done"}
  BY <1>2 DEF Forward
<1>10. QueueInv'
  <2>1. queue' = queue /\ \A d \in Conns : stage[d] = "queued" <=> stage'[d] = "queued"
    BY <1>1, <1>4, <1>9 DEF poolVars, Handled, InHandler
  <2>2. QueueInv /\ \A i \in 1..Len(queue) : queue[i] \in Conns
    BY DEF IInv, RouterTypeOK
  <2> QED BY <2>1, <2>2 DEF QueueInv
<1>11. RunningInv'
  <2>1. running' = running /\ \A d \in Conns : d # c => stage'[d] = stage[d]
    BY <1>1, <1>4 DEF poolVars
  <2> QED BY <1>1, <1>9, <2>1 DEF RunningInv, IInv, RouterTypeOK, Handled
<1>12. PhaseInv'
  <2>1. \A d \in Conns : /\ stage'[d] = "submitting" => stage[d] = "submitting"
                         /\ stage'[d] = "turned_away" => stage[d] = "turned_away"
    BY <1>4, <1>9 DEF InHandler
  <2> QED BY <1>1, <2>1 DEF PhaseInv, IInv, SubmitNeverRefused, poolVars, acceptorVars, mainVars
<1> QED BY <1>3, <1>5, <1>7, <1>8, <1>10, <1>11, <1>12 DEF IInv

(* Steps that change neither a connection nor the pool's queue and workers. *)
LEMMA QuietStep ==
    ASSUME IInv, UNCHANGED <<handlerVars, queue, running, exited, accepted>>,
           dropped' \in Nat, stopped' \in BOOLEAN,
           listening' \in BOOLEAN, wake' \in BOOLEAN, acceptor_stop' \in BOOLEAN,
           acceptor' \in AcceptorPlaces, events' \in SUBSET {"wake", "listen"},
           requested' \in BOOLEAN, grace_expired' \in BOOLEAN, main' \in MainPlaces,
           PhaseInv'
    PROVE  IInv'
<1>1. RouterTypeOK'
  BY DEF IInv, RouterTypeOK, handlerVars
<1>2. QueueInv' /\ RunningInv' /\ ClosesInv' /\ CountInv'
  <2>1. /\ QueueInv /\ RunningInv /\ ClosesInv /\ CountInv
        /\ UNCHANGED <<stage, queue, running, closes, in_flight, completed, errored, accepted>>
    BY DEF IInv, handlerVars
  <2>2. QueueInv' BY <2>1 DEF QueueInv
  <2>3. RunningInv' BY <2>1 DEF RunningInv
  <2>4. ClosesInv' /\ CountInv' BY <2>1 DEF ClosesInv, CountInv
  <2> QED BY <2>2, <2>3, <2>4
<1>3. LeaseInv'
  BY DEF IInv, LeaseInv, handlerVars
<1> QED BY <1>1, <1>2, <1>3 DEF IInv

(* Init establishes the invariant. *)
LEMMA InitIInv == Init => IInv
<1> SUFFICES ASSUME Init PROVE IInv
  OBVIOUS
<1> USE DEF Init, HandlerInit, Pool!PoolInit
<1>1. RouterTypeOK
  <2>1. lease \in [Conns -> BOOLEAN]
    BY Zenon
  <2>2. /\ stage \in [Conns -> Stages]
        /\ reply \in [Conns -> {"none", "response", "error"}]
        /\ closes \in [Conns -> Nat]
        /\ running \in [Workers -> Conns \cup {NoTask}]
    BY DEF Stages, Outside
  <2>3. queue \in Seq(Conns) /\ exited \in SUBSET Workers /\ events \in SUBSET {"wake", "listen"}
    OBVIOUS
  <2> QED BY Zenon, <2>1, <2>2, <2>3 DEF RouterTypeOK, AcceptorPlaces, MainPlaces
<1>2. QueueInv /\ RunningInv
  BY DEF QueueInv, RunningInv, Handled, InHandler, Outside
<1>3. PhaseInv
  BY DEF PhaseInv, AfterJoin, AfterStop, SubmitNeverRefused, Outside
<1>4. ClosesInv
  BY DEF ClosesInv, Bit, Closed, Outside
<1>5. LeaseInv
  BY Zenon DEF LeaseInv
<1>6. CountInv
  <2>1. At(stage, InHandler) = {} /\ At(stage, Counted) = {} /\ At(stage, Stages \ Outside) = {}
    BY DEF At, InHandler, Counted, Outside
  <2>2. Cardinality({}) = 0
    BY FS_EmptySet
  <2>3. in_flight = 0 /\ completed + errored = 0 /\ accepted = 0
    OBVIOUS
  <2> QED BY <2>1, <2>2, <2>3, Zenon DEF CountInv
<1> QED BY <1>1, <1>2, <1>3, <1>4, <1>5, <1>6 DEF IInv

(* A connection that moves among the stages before handle_one, with the
   counters, the lease and the descriptor left alone. *)
LEMMA EarlyMove ==
    ASSUME IInv, NEW c \in Conns, NEW v \in Outside \cup Waiting,
           stage[c] \in Outside \cup Waiting,
           stage' = [stage EXCEPT ![c] = v],
           UNCHANGED <<lease, closes, in_flight, completed, errored>>,
           accepted' = accepted + Bit(v, Waiting) - Bit(stage[c], Waiting)
    PROVE  ClosesInv' /\ LeaseInv' /\ CountInv' /\ stage' \in [Conns -> Stages]
<1>1. stage \in [Conns -> Stages] /\ v \in Stages
  BY DEF IInv, RouterTypeOK, Stages
<1>2. \A S : /\ Cardinality(At(stage, S)) \in Nat
             /\ Cardinality(At(stage', S)) = Cardinality(At(stage, S)) + Bit(v, S) - Bit(stage[c], S)
  BY Zenon, <1>1, MoveCounts
<1>3. \A x \in Outside \cup Waiting :
        /\ Bit(x, InHandler) = 0 /\ Bit(x, Counted) = 0 /\ Bit(x, Closed) = 0
        /\ Bit(x, Stages \ Outside) = Bit(x, Waiting)
        /\ Bit(x, Waiting) \in Int
  BY DEF Bit, InHandler, Counted, Closed, Stages, Outside, Waiting
<1>4. CountInv'
  <2>1. /\ Cardinality(At(stage', InHandler)) = Cardinality(At(stage, InHandler))
        /\ Cardinality(At(stage', Counted)) = Cardinality(At(stage, Counted))
    <3>1. \A S : Bit(v, S) = 0 /\ Bit(stage[c], S) = 0
                   => Cardinality(At(stage', S)) = Cardinality(At(stage, S))
      <4> TAKE S
      <4>1. Cardinality(At(stage, S)) \in Nat
        BY <1>2
      <4>2. Cardinality(At(stage', S)) = Cardinality(At(stage, S)) + Bit(v, S) - Bit(stage[c], S)
        BY Zenon, <1>2
      <4> QED BY <4>1, <4>2
    <3>2. /\ Bit(v, InHandler) = 0 /\ Bit(stage[c], InHandler) = 0
          /\ Bit(v, Counted) = 0 /\ Bit(stage[c], Counted) = 0
      BY <1>3
    <3> QED BY Zenon, <3>1, <3>2
  <2>2. Cardinality(At(stage', Stages \ Outside))
          = Cardinality(At(stage, Stages \ Outside)) + Bit(v, Waiting) - Bit(stage[c], Waiting)
    BY Zenon, <1>2, <1>3
  <2> QED BY <2>1, <2>2 DEF CountInv, IInv
<1>5. ClosesInv'
  BY <1>1, <1>3 DEF ClosesInv, IInv
<1>6. LeaseInv'
  <2>1. stage[c] \notin Leased
    BY DEF Outside, Waiting, Leased
  <2>2. \A d \in Conns : d # c => stage'[d] = stage[d]
    BY <1>1
  <2>3. LeaseInv /\ lease' = lease
    BY DEF IInv
  <2> QED BY <2>1, <2>2, <2>3, Zenon DEF LeaseInv
<1> QED BY <1>1, <1>4, <1>5, <1>6

(* Connect and AcceptConn: a connection moves before it reaches the queue. *)
LEMMA BeforeQueue ==
    ASSUME IInv, NEW c \in Conns, Connect(c) \/ AcceptConn(c)
    PROVE  IInv'
<1> DEFINE v == stage'[c]
<1>1. /\ stage[c] \in {"none", "backlog"}
      /\ v \in {"backlog", "refused", "submitting"}
      /\ stage' = [stage EXCEPT ![c] = v]
      /\ UNCHANGED <<lease, reply, closes, in_flight, completed, errored, poolVars, mainVars>>
      /\ UNCHANGED <<listening, wake, acceptor_stop, events>>
  BY DEF Connect, AcceptConn, Goto, IInv, RouterTypeOK, acceptorVars
<1>2. accepted' = accepted + Bit(v, Waiting) - Bit(stage[c], Waiting)
  BY DEF Connect, AcceptConn, Goto, IInv, RouterTypeOK, acceptorVars, Bit, Waiting
<1>3. ClosesInv' /\ LeaseInv' /\ CountInv' /\ stage' \in [Conns -> Stages]
  BY <1>1, <1>2, EarlyMove DEF Outside, Waiting
<1>4. acceptor' \in AcceptorPlaces /\ accepted' \in Nat
  BY DEF Connect, AcceptConn, AcceptorGoto, AcceptorPlaces, IInv, RouterTypeOK, acceptorVars
<1>5. RouterTypeOK'
  BY <1>1, <1>3, <1>4 DEF IInv, RouterTypeOK, poolVars, mainVars
<1>6. \A d \in Conns : d # c => stage'[d] = stage[d]
  BY <1>1 DEF IInv, RouterTypeOK
<1>7. QueueInv'
  BY SMTT(30), <1>1, <1>6 DEF QueueInv, IInv, RouterTypeOK, poolVars
<1>8. RunningInv'
  <2>1. RunningInv /\ running' = running
    BY <1>1 DEF IInv, poolVars
  <2>2. /\ stage[c] \notin Handled \cup {"done"} /\ stage'[c] \notin Handled
        /\ \A d \in Conns : d # c => stage'[d] = stage[d]
    BY <1>1, <1>6 DEF Handled, InHandler
  <2>3. \A u \in Workers : running[u] # NoTask => /\ running[u] \in Conns /\ running[u] # c
                                                /\ stage'[running[u]] \in Handled \cup {"done"}
    BY <2>1, <2>2 DEF RunningInv, IInv, RouterTypeOK
  <2> QED BY <2>1, <2>2, <2>3 DEF RunningInv
<1>9. PhaseInv'
  <2>1. CASE Connect(c)
    <3>1. acceptor' = acceptor /\ v # "submitting"
      BY <2>1 DEF Connect, Goto, acceptorVars, IInv, RouterTypeOK
    <3> QED BY <1>1, <1>6, <3>1 DEF PhaseInv, IInv, SubmitNeverRefused, poolVars, mainVars
  <2>2. CASE AcceptConn(c)
    <3>1. acceptor = "accept" /\ acceptor' = "submit"
      BY <2>2 DEF AcceptConn, AcceptorGoto
    <3>2. \A d \in Conns : stage[d] # "submitting"
      BY <3>1 DEF IInv, PhaseInv
    <3> QED BY <1>1, <1>6, <3>1, <3>2 DEF PhaseInv, IInv, SubmitNeverRefused, poolVars, mainVars
  <2> QED BY <2>1, <2>2
<1> QED BY <1>3, <1>5, <1>7, <1>8, <1>9 DEF IInv

(* SubmitConn: while the acceptor runs the pool is not stopped, so the
   connection is queued. *)
LEMMA Submits ==
    ASSUME IInv, NEW c \in Conns, SubmitConn(c)
    PROVE  IInv'
<1>1. stopped = FALSE /\ main \notin AfterJoin
  BY DEF SubmitConn, AcceptorGoto, IInv, PhaseInv, RouterTypeOK, AfterJoin, AfterStop
<1>2. /\ stage[c] = "submitting"
      /\ stage' = [stage EXCEPT ![c] = "queued"]
      /\ queue' = Append(queue, c)
      /\ acceptor = "submit" /\ acceptor' = "accept"
      /\ UNCHANGED <<lease, reply, closes, in_flight, completed, errored, accepted>>
      /\ UNCHANGED <<stopped, running, exited, listening, wake, acceptor_stop, events, mainVars>>
  BY <1>1 DEF SubmitConn, AcceptorGoto, Goto, Pool!Submit
<1>3. accepted' = accepted + Bit("queued", Waiting) - Bit(stage[c], Waiting)
  BY <1>2 DEF Bit, Waiting, IInv, RouterTypeOK
<1>4. ClosesInv' /\ LeaseInv' /\ CountInv' /\ stage' \in [Conns -> Stages]
  BY Zenon, <1>2, <1>3, EarlyMove DEF Outside, Waiting
<1>5. queue \in Seq(Conns) /\ queue' \in Seq(Conns)
  BY <1>2 DEF IInv, RouterTypeOK
<1>6. RouterTypeOK'
  BY <1>2, <1>4, <1>5 DEF IInv, RouterTypeOK, mainVars, AcceptorPlaces
<1>7. \A d \in Conns : d # c => stage'[d] = stage[d]
  BY <1>2 DEF IInv, RouterTypeOK
<1>8. stage'[c] = "queued"
  BY <1>2 DEF IInv, RouterTypeOK
<1>9. QueueInv'
  <2>1. /\ Len(queue') = Len(queue) + 1 /\ queue'[Len(queue) + 1] = c
        /\ Len(queue) \in Nat
        /\ \A i \in 1..Len(queue) : queue'[i] = queue[i] /\ queue[i] \in Conns
    <3>1. queue \in Seq(Conns) /\ c \in Conns /\ queue' = Append(queue, c)
      BY <1>2, <1>5
    <3>2. Len(queue') = Len(queue) + 1 /\ Len(queue) \in Nat
      BY <3>1
    <3>3. queue'[Len(queue) + 1] = c
      BY <3>1
    <3>4. \A i \in 1..Len(queue) : queue'[i] = queue[i] /\ queue[i] \in Conns
      BY <3>1
    <3> QED BY <3>2, <3>3, <3>4
  <2>2. \A i \in 1..Len(queue) : stage[queue[i]] = "queued" /\ queue[i] # c
    BY <1>2 DEF IInv, QueueInv
  <2>3. \A i \in 1..Len(queue') : i \in 1..Len(queue) \/ i = Len(queue) + 1
    BY <2>1
  <2>4. \A i \in 1..Len(queue') : stage'[queue'[i]] = "queued"
    BY <1>7, <1>8, <2>1, <2>2, <2>3
  <2>5. \A i, j \in 1..Len(queue') : queue'[i] = queue'[j] => i = j
    BY <2>1, <2>2, <2>3 DEF IInv, QueueInv
  <2>6. \A d \in Conns : stage'[d] = "queued" => \E i \in 1..Len(queue') : queue'[i] = d
    <3>1. \A i \in 1..Len(queue) : i \in 1..Len(queue')
      BY <2>1
    <3>2. Len(queue) + 1 \in 1..Len(queue')
      BY <2>1
    <3> QED BY <1>7, <2>1, <3>1, <3>2 DEF IInv, QueueInv
  <2> QED BY <2>4, <2>5, <2>6 DEF QueueInv
<1>10. RunningInv'
  <2>1. RunningInv /\ running' = running /\ running \in [Workers -> Conns \cup {NoTask}]
    BY <1>2 DEF IInv, RouterTypeOK
  <2>2. "submitting" \notin Handled \cup {"done"} /\ "queued" \notin Handled
    BY DEF Handled, InHandler
  <2>3. \A w \in Workers : running[w] # c \/ running[w] = NoTask
    BY <1>2, <2>1, <2>2 DEF RunningInv
  <2>4. \A w \in Workers : running'[w] # NoTask => stage'[running'[w]] \in Handled \cup {"done"}
    BY <1>7, <2>1, <2>3 DEF RunningInv
  <2>5. \A d \in Conns : stage'[d] \in Handled => \E w \in Workers : running'[w] = d
    BY <1>7, <1>8, <2>1, <2>2 DEF RunningInv
  <2> QED BY <2>1, <2>4, <2>5 DEF RunningInv
<1>11. PhaseInv'
  <2>1. exited = {}
    BY <1>1 DEF IInv, PhaseInv
  <2>2. \A d \in Conns : stage'[d] # "turned_away"
    BY <1>7, <1>8 DEF IInv, PhaseInv, SubmitNeverRefused
  <2>3. \A d \in Conns : stage'[d] # "submitting"
    BY <1>2, <1>7, <1>8 DEF IInv, PhaseInv
  <2> QED BY <1>1, <1>2, <2>1, <2>2, <2>3 DEF IInv, PhaseInv, SubmitNeverRefused, mainVars,
             AfterJoin, AfterStop
<1> QED BY <1>4, <1>6, <1>9, <1>10, <1>11 DEF IInv

(* WorkerTake: the head of the queue goes to a worker. *)
LEMMA Takes ==
    ASSUME IInv, NEW w \in Workers, WorkerTake(w)
    PROVE  IInv'
<1> DEFINE c == Head(queue)
<1>1. /\ queue # <<>> /\ queue' = Tail(queue)
      /\ running[w] = NoTask /\ running' = [running EXCEPT ![w] = c]
      /\ stage[c] = "queued" /\ stage' = [stage EXCEPT ![c] = "taken"]
      /\ w \notin exited
      /\ UNCHANGED <<lease, reply, closes, in_flight, completed, errored, acceptorVars, mainVars>>
      /\ UNCHANGED <<stopped, exited>>
  BY DEF WorkerTake, Goto, Pool!Take
<1>2. queue \in Seq(Conns) /\ Len(queue) \in Nat \ {0} /\ c = queue[1] /\ c \in Conns
  BY <1>1 DEF IInv, RouterTypeOK
<1>3. accepted' = accepted + Bit("taken", Waiting) - Bit(stage[c], Waiting)
  BY <1>1 DEF Bit, Waiting, IInv, RouterTypeOK, acceptorVars
<1>4. ClosesInv' /\ LeaseInv' /\ CountInv' /\ stage' \in [Conns -> Stages]
  BY ZenonT(30), <1>1, <1>2, <1>3, EarlyMove DEF Outside, Waiting
<1>5. queue' \in Seq(Conns) /\ running' \in [Workers -> Conns \cup {NoTask}]
  BY <1>1, <1>2 DEF IInv, RouterTypeOK
<1>6. RouterTypeOK'
  BY <1>1, <1>4, <1>5 DEF IInv, RouterTypeOK, mainVars, acceptorVars
<1>7. /\ \A d \in Conns : d # c => stage'[d] = stage[d]
      /\ stage'[c] = "taken"
  BY <1>1, <1>2 DEF IInv, RouterTypeOK
<1>8. QueueInv'
  <2>0. Len(queue') = Len(queue) - 1 /\ Len(queue) \in Nat
    BY <1>1, <1>2
  <2>1. /\ Len(queue') = Len(queue) - 1
        /\ \A i \in 1..Len(queue') : queue'[i] = queue[i + 1] /\ i + 1 \in 1..Len(queue) /\ i + 1 # 1
    <3>1. \A i \in 1..Len(queue') : i + 1 \in 1..Len(queue) /\ i + 1 # 1
      BY <2>0
    <3>2. \A i \in 1..Len(queue') : queue'[i] = queue[i + 1]
      BY <1>1, <1>2, <2>0
    <3> QED BY <2>0, <3>1, <3>2
  <2>2. /\ \A i \in 1..Len(queue) : queue[i] \in Conns /\ stage[queue[i]] = "queued"
        /\ \A i \in 1..Len(queue) : i # 1 => queue[i] # c
    BY <1>2 DEF IInv, QueueInv
  <2>3. \A i \in 1..Len(queue') : stage'[queue'[i]] = "queued"
    BY <1>7, <2>1, <2>2
  <2>4. ASSUME NEW i \in 1..Len(queue'), NEW j \in 1..Len(queue'), queue'[i] = queue'[j] PROVE i = j
    <3>1. i + 1 = j + 1
      BY <2>1, <2>4 DEF IInv, QueueInv
    <3> QED BY <3>1, <1>2, <2>1
  <2>5. ASSUME NEW d \in Conns, stage'[d] = "queued"
        PROVE  \E i \in 1..Len(queue') : queue'[i] = d
    <3>1. PICK j \in 1..Len(queue) : queue[j] = d
      BY <1>7, <2>5 DEF IInv, QueueInv
    <3>2. j # 1
      BY <3>1, <1>2, <1>7, <2>5
    <3>3. j - 1 \in 1..Len(queue') /\ (j - 1) + 1 = j
      BY <3>1, <3>2, <1>2, <2>1
    <3> QED BY Zenon, <3>1, <3>3, <2>1
  <2> QED BY <2>3, <2>4, <2>5 DEF QueueInv
<1>9. RunningInv'
  <2>1. running'[w] = c /\ \A u \in Workers : u # w => running'[u] = running[u]
    BY <1>1 DEF IInv, RouterTypeOK
  <2>2. \A u \in Workers : running[u] # c
    BY <1>1, <1>2, NoTaskFresh DEF IInv, RunningInv, Handled, InHandler
  <2>3. \A u \in Workers : running'[u] # NoTask => stage'[running'[u]] \in Handled \cup {"done"}
    <3>1. \A u \in Workers : running[u] # NoTask => /\ running[u] \in Conns
                                                  /\ stage[running[u]] \in Handled \cup {"done"}
      BY DEF IInv, RunningInv, RouterTypeOK
    <3>2. stage'[running'[w]] \in Handled
      BY <1>7, <2>1 DEF Handled
    <3>3. ASSUME NEW u \in Workers, u # w, running'[u] # NoTask
          PROVE  stage'[running'[u]] \in Handled \cup {"done"}
      BY <1>7, <2>1, <2>2, <3>1, <3>3
    <3> QED BY <3>2, <3>3
  <2>4. \A u, x \in Workers : running'[u] = running'[x] /\ running'[u] # NoTask => u = x
    BY <2>1, <2>2 DEF IInv, RunningInv
  <2>5. \A d \in Conns : stage'[d] \in Handled => \E u \in Workers : running'[u] = d
    BY <1>1, <1>7, <2>1, NoTaskFresh DEF IInv, RunningInv
  <2> QED BY <2>3, <2>4, <2>5 DEF RunningInv
<1>10. PhaseInv'
  <2>1. exited = {}
    BY <1>1 DEF IInv, PhaseInv
  <2>2. \A d \in Conns : /\ stage'[d] = "submitting" => stage[d] = "submitting"
                         /\ stage'[d] = "turned_away" => stage[d] = "turned_away"
    BY <1>7
  <2> QED BY <1>1, <2>1, <2>2 DEF IInv, PhaseInv, SubmitNeverRefused, mainVars, acceptorVars
<1> QED BY <1>4, <1>6, <1>8, <1>9, <1>10 DEF IInv

(* WorkerFinish: the task returns. *)
LEMMA Finishes ==
    ASSUME IInv, NEW w \in Workers, WorkerFinish(w)
    PROVE  IInv'
<1>1. /\ running[w] # NoTask /\ stage[running[w]] = "done"
      /\ running' = [running EXCEPT ![w] = NoTask]
      /\ UNCHANGED <<handlerVars, acceptorVars, mainVars, queue, stopped, exited>>
  BY DEF WorkerFinish, Pool!Finish
<1>2. running'[w] = NoTask /\ \A u \in Workers : u # w => running'[u] = running[u]
  BY <1>1 DEF IInv, RouterTypeOK
<1>3. running' \in [Workers -> Conns \cup {NoTask}]
  BY <1>1 DEF IInv, RouterTypeOK
<1>4. RouterTypeOK'
  BY SMTT(30), <1>1, <1>3 DEF IInv, RouterTypeOK, handlerVars, acceptorVars, mainVars
<1>5. QueueInv' /\ ClosesInv' /\ CountInv'
  BY <1>1 DEF IInv, QueueInv, ClosesInv, CountInv, handlerVars, acceptorVars
<1>6. LeaseInv'
  BY <1>1 DEF IInv, LeaseInv, handlerVars
<1>7. RunningInv'
  <2>1. RunningInv /\ stage' = stage
    BY <1>1 DEF IInv, handlerVars
  <2>2. stage[running[w]] \notin Handled
    BY <1>1 DEF Handled, InHandler
  <2>3. \A u \in Workers : running'[u] # NoTask => stage'[running'[u]] \in Handled \cup {"done"}
    BY <1>2, <2>1 DEF RunningInv
  <2>4. \A u, x \in Workers : running'[u] = running'[x] /\ running'[u] # NoTask => u = x
    BY <1>2, <2>1 DEF RunningInv
  <2>5. ASSUME NEW d \in Conns, stage'[d] \in Handled
        PROVE  \E u \in Workers : running'[u] = d
    <3>1. PICK u \in Workers : running[u] = d
      BY <2>1, <2>5 DEF RunningInv
    <3>2. u # w
      BY SMTT(30), <2>1, <2>2, <2>5, <3>1
    <3> QED BY <1>2, <3>1, <3>2
  <2> QED BY <2>3, <2>4, <2>5 DEF RunningInv
<1>8. PhaseInv'
  <2>1. PhaseInv /\ UNCHANGED <<handlerVars, acceptorVars, mainVars, queue, stopped, exited>>
    BY <1>1 DEF IInv
  <2>2. \A u \in exited : running[u] = NoTask => running'[u] = NoTask
    BY <1>2 DEF IInv, RouterTypeOK
  <2> QED BY <2>1, <2>2 DEF PhaseInv, SubmitNeverRefused, handlerVars, acceptorVars, mainVars
<1> QED BY <1>4, <1>5, <1>6, <1>7, <1>8 DEF IInv

(* WorkerLeaves: only a stopped pool with an empty queue loses a worker. *)
LEMMA Leaves ==
    ASSUME IInv, NEW w \in Workers, WorkerLeaves(w)
    PROVE  IInv'
<1>1. /\ running[w] = NoTask /\ stopped /\ queue = <<>>
      /\ exited' = exited \cup {w}
      /\ UNCHANGED <<handlerVars, acceptorVars, mainVars, queue, stopped, running>>
  BY DEF WorkerLeaves, Pool!WorkerExit
<1>2. exited' \in SUBSET Workers
  BY <1>1 DEF IInv, RouterTypeOK
<1>3. RouterTypeOK'
  BY <1>1, <1>2 DEF IInv, RouterTypeOK, handlerVars, acceptorVars, mainVars
<1>4. QueueInv' /\ RunningInv' /\ ClosesInv' /\ CountInv'
  <2>1. /\ QueueInv /\ RunningInv /\ ClosesInv /\ CountInv
        /\ UNCHANGED <<stage, queue, running, closes, in_flight, completed, errored, accepted>>
    BY SMTT(30), <1>1 DEF IInv, handlerVars, acceptorVars
  <2>2. QueueInv' BY <2>1 DEF QueueInv
  <2>3. RunningInv' BY SMTT(30), <2>1 DEF RunningInv
  <2>4. ClosesInv' /\ CountInv' BY SMTT(30), <2>1 DEF ClosesInv, CountInv
  <2> QED BY <2>2, <2>3, <2>4
<1>5. LeaseInv'
  BY <1>1 DEF IInv, LeaseInv, handlerVars
<1>6. PhaseInv'
  <2>1. main \in {"backend_shutdown", "exit"} => exited' = Workers
    BY <1>1 DEF IInv, PhaseInv
  <2> QED BY <1>1, <2>1 DEF IInv, PhaseInv, SubmitNeverRefused, handlerVars, acceptorVars, mainVars
<1> QED BY <1>3, <1>4, <1>5, <1>6 DEF IInv

(* CloseListener: what was in the backlog is refused; it was never accepted. *)
LEMMA Closes ==
    ASSUME IInv, CloseListener
    PROVE  IInv'
<1>1. /\ main = "close" /\ main' = "poll" /\ listening' = FALSE
      /\ UNCHANGED <<lease, reply, closes, in_flight, completed, errored, poolVars>>
      /\ UNCHANGED <<wake, acceptor_stop, acceptor, events, accepted, dropped,
                     requested, grace_expired>>
  BY DEF CloseListener, MainGoto
<1>2. /\ stage' \in [Conns -> Stages]
      /\ \A c \in Conns : \/ stage'[c] = stage[c]
                          \/ stage[c] = "backlog" /\ stage'[c] = "refused"
  BY DEF CloseListener, IInv, RouterTypeOK, Stages, Outside
<1>3. RouterTypeOK'
  BY Zenon, <1>1, <1>2 DEF IInv, RouterTypeOK, poolVars, MainPlaces
<1>4. \A c \in Conns : stage'[c] = "queued" <=> stage[c] = "queued"
  BY <1>2
<1>5. QueueInv'
  <2>1. QueueInv /\ queue' = queue /\ \A i \in 1..Len(queue) : queue[i] \in Conns
    BY SMTT(30), <1>1 DEF IInv, RouterTypeOK, poolVars
  <2> QED BY <1>4, <2>1 DEF QueueInv
<1>6. RunningInv'
  BY ZenonT(30), <1>1, <1>2 DEF IInv, RunningInv, RouterTypeOK, poolVars, Handled, InHandler
<1>7. ClosesInv'
  BY <1>1, <1>2 DEF IInv, ClosesInv, Bit, Closed
<1>8. LeaseInv'
  <2>1. \A c \in Conns : stage[c] \in Leased => stage'[c] \in Leased
    BY <1>2 DEF Leased
  <2>2. LeaseInv /\ lease' = lease
    BY <1>1 DEF IInv
  <2> QED BY <2>1, <2>2, Zenon DEF LeaseInv
<1>9. CountInv'
  <2>1. /\ At(stage', InHandler) = At(stage, InHandler)
        /\ At(stage', Counted) = At(stage, Counted)
    BY <1>2 DEF At, InHandler, Counted
  <2>2. At(stage', Stages \ Outside) = At(stage, Stages \ Outside)
    BY <1>2 DEF At, Outside
  <2> QED BY <1>1, <2>1, <2>2 DEF IInv, CountInv
<1>10. PhaseInv'
  BY <1>1, <1>2 DEF IInv, PhaseInv, SubmitNeverRefused, poolVars, AfterJoin, AfterStop
<1> QED BY <1>3, <1>5, <1>6, <1>7, <1>8, <1>9, <1>10 DEF IInv

(* The steps of the acceptor thread and of main() that move no connection. *)
LEMMA Quiet ==
    ASSUME IInv,
           \/ Signal \/ GraceExpires
           \/ LoopCheck \/ EpollReturns \/ EpollFails \/ Dispatch \/ AcceptEnds
           \/ SeeRequest \/ StopAcceptor \/ WakeAcceptor \/ JoinAcceptor
           \/ PollEnds \/ CheckInFlight \/ CountDropped \/ StopPool
           \/ JoinWorkers \/ ShutdownBackends
    PROVE  IInv'
<1> USE DEF PhaseInv, SubmitNeverRefused, RouterTypeOK, AfterJoin, AfterStop, AcceptorPlaces,
            MainPlaces, handlerVars, poolVars, acceptorVars, mainVars, AcceptorGoto, MainGoto
<1>0. RouterTypeOK /\ PhaseInv
  BY DEF IInv
<1>1. CASE Signal
  BY SMTT(30), <1>0, <1>1, QuietStep DEF Signal
<1>2. CASE GraceExpires
  BY SMTT(30), <1>0, <1>2, QuietStep DEF GraceExpires
<1>3. CASE SeeRequest
  BY SMTT(30), <1>0, <1>3, QuietStep DEF SeeRequest
<1>4. CASE PollEnds
  BY SMTT(30), <1>0, <1>4, QuietStep DEF PollEnds
<1>5. CASE CheckInFlight
  BY <1>0, <1>5, QuietStep DEF CheckInFlight
<1>6. CASE ShutdownBackends
  BY <1>0, <1>6, QuietStep DEF ShutdownBackends
<1>7. CASE LoopCheck
  BY SMTT(30), <1>0, <1>7, QuietStep DEF LoopCheck
<1>8. CASE EpollReturns
  BY SMTT(30), <1>0, <1>8, QuietStep DEF EpollReturns, Ready
<1>9. CASE EpollFails
  BY SMTT(30), <1>0, <1>9, QuietStep DEF EpollFails
<1>10. CASE Dispatch
  BY ZenonT(30), <1>0, <1>10, QuietStep DEF Dispatch
<1>11. CASE AcceptEnds
  BY <1>0, <1>11, QuietStep DEF AcceptEnds
<1>12. CASE StopAcceptor
  BY <1>0, <1>12, QuietStep DEF StopAcceptor
<1>13. CASE WakeAcceptor
  BY SMTT(30), <1>0, <1>13, QuietStep DEF WakeAcceptor
<1>14. CASE JoinAcceptor
  BY SMTT(30), <1>0, <1>14, QuietStep DEF JoinAcceptor
<1>15. CASE CountDropped
  <2>0. dropped \in Nat /\ in_flight \in Nat /\ dropped' = dropped + in_flight
    BY <1>0, <1>15 DEF CountDropped
  <2>1. dropped' \in Nat
    BY ONLY SMTT(30), <2>0
  <2> QED BY SMTT(30), <1>0, <1>15, <2>1, QuietStep DEF CountDropped
<1>16. CASE StopPool
  BY SMTT(30), <1>0, <1>16, QuietStep DEF StopPool, Pool!Stop
<1>17. CASE JoinWorkers
  BY <1>0, <1>17, QuietStep DEF JoinWorkers
<1> QED
  BY SMTT(30), <1>1, <1>2, <1>3, <1>4, <1>5, <1>6, <1>7, <1>8, <1>9,
     <1>10, <1>11, <1>12, <1>13, <1>14, <1>15, <1>16, <1>17

(* A stuttering step. *)
LEMMA Stutters ==
    ASSUME IInv, UNCHANGED vars
    PROVE  IInv'
<1> USE DEF vars, handlerVars, poolVars, acceptorVars, mainVars
<1>1. RouterTypeOK /\ PhaseInv
  BY DEF IInv
<1>2. PhaseInv'
  BY <1>1 DEF PhaseInv, SubmitNeverRefused
<1> QED BY <1>1, <1>2, QuietStep DEF RouterTypeOK

(* IInv is inductive: every step of Next preserves it. *)
LEMMA StepIInv == IInv /\ [Next]_vars => IInv'
<1> SUFFICES ASSUME IInv, [Next]_vars PROVE IInv'
  OBVIOUS
<1>1. CASE \E c \in Conns : Connect(c)
  BY <1>1, BeforeQueue
<1>2. CASE Signal \/ GraceExpires
  BY <1>2, Quiet
<1>3. CASE AcceptorStep
  BY <1>3, BeforeQueue, Submits, Quiet DEF AcceptorStep
<1>4. ASSUME NEW w \in Workers,
             WorkerTake(w) \/ WorkerLocal(w) \/ WorkerSend(w) \/ WorkerFinish(w) \/ WorkerLeaves(w)
      PROVE  IInv'
  BY <1>4, Takes, WorkerHandles, Finishes, Leaves
<1>5. CASE MainStep
  BY <1>5, Closes, Quiet DEF MainStep
<1>6. CASE Exited \/ UNCHANGED vars
  BY <1>6, Stutters DEF Exited
<1> QED BY <1>1, <1>2, <1>3, <1>4, <1>5, <1>6 DEF Next

(* The inductive invariant holds in every reachable state. *)
THEOREM Inductive == Spec => []IInv
BY InitIInv, StepIInv, PTL DEF Spec

(* Every variable keeps its type; in particular dec_in_flight never takes the
   unsigned in_flight counter below zero. *)
THEOREM TypeCorrect == Spec => []RouterTypeOK
<1>1. IInv => RouterTypeOK
  BY DEF IInv
<1> QED BY <1>1, Inductive, PTL

(* The invariant gives the exactness of in_flight. *)
LEMMA ExactInFlight == IInv => InFlightExact
BY DEF IInv, CountInv, InFlightExact, At

(* in_flight, which main() polls during the drain, is exactly the number of
   connections inside handle_one. *)
THEOREM InFlightIsExact == Spec => []InFlightExact
BY ExactInFlight, Inductive, PTL

(* The invariant ties the closes of a descriptor to the stage of its connection. *)
LEMMA ClosesAtMostOnce == IInv => FdClosedOnce
<1>1. ASSUME IInv, NEW c \in Conns PROVE closes[c] <= 1
  <2>1. closes[c] = 0 \/ closes[c] = 1
    BY <1>1 DEF IInv, ClosesInv, Bit
  <2> QED BY <2>1
<1> QED BY <1>1 DEF FdClosedOnce

(* No client descriptor is closed twice, with or without TLS. *)
THEOREM ClosedOnce == Spec => []FdClosedOnce
BY ClosesAtMostOnce, Inductive, PTL

(* main() stops the pool after the acceptor is gone, so the refusal branch of
   the accept callback is never taken. *)
THEOREM NeverRefused == Spec => []SubmitNeverRefused
<1>1. IInv => SubmitNeverRefused
  BY DEF IInv, PhaseInv
<1> QED BY <1>1, Inductive, PTL

(* Once the joins of pool.stop() are through, every connection was either never
   accepted or handled to the end. *)
LEMMA JoinedMeansDone ==
    ASSUME IInv, main \in {"backend_shutdown", "exit"}, NEW c \in Conns
    PROVE  stage[c] \in Outside \cup {"done"}
<1>1. acceptor = "exited" /\ exited = Workers
  BY DEF IInv, PhaseInv, AfterJoin
<1>2. queue = <<>> /\ \A w \in Workers : running[w] = NoTask
  BY <1>1, SomeWorker DEF IInv, PhaseInv
<1>3. stage[c] # "queued"
  BY <1>2 DEF IInv, QueueInv
<1>4. stage[c] \notin Handled
  BY <1>2, NoTaskFresh DEF IInv, RunningInv
<1>5. stage[c] \notin {"submitting", "turned_away"}
  BY <1>1 DEF IInv, PhaseInv, SubmitNeverRefused
<1> QED BY <1>3, <1>4, <1>5 DEF IInv, RouterTypeOK, Stages, Waiting, Handled

(* The invariant gives the balance of the counters at exit. *)
LEMMA ExitBalances == IInv => ExitAccounted
<1> SUFFICES ASSUME IInv, main = "exit" PROVE completed + errored = accepted
  BY DEF ExitAccounted
<1>1. \A c \in Conns : stage[c] \in Counted <=> stage[c] \in Stages \ Outside
  BY JoinedMeansDone DEF Counted, Outside, Stages
<1>2. At(stage, Counted) = At(stage, Stages \ Outside)
  BY <1>1 DEF At
<1> QED BY <1>2 DEF IInv, CountInv

(* When main() returns, completed + errored = accepted: whatever the signal
   found queued, running or blocked in submit() has been accounted for. *)
THEOREM AccountedAtExit == Spec => []ExitAccounted
BY ExitBalances, Inductive, PTL

(* The invariant leaves nothing open at exit. *)
LEMMA ExitCloses == IInv => ExitLeavesNothingOpen
BY JoinedMeansDone DEF IInv, ClosesInv, Bit, Closed, ExitLeavesNothingOpen, Outside

(* When main() returns, every accepted connection was handled to the end and
   its descriptor is closed. *)
THEOREM NothingOpenAtExit == Spec => []ExitLeavesNothingOpen
BY ExitCloses, Inductive, PTL

(* The invariant leaves the backends idle once the workers are joined. *)
LEMMA IdleAtShutdown == IInv => BackendsIdleAtShutdown
<1>1. ASSUME IInv, main \in {"backend_shutdown", "exit"}, NEW c \in Conns
      PROVE  ~lease[c] /\ stage[c] \notin Waiting \cup InHandler
  <2>1. stage[c] \in Outside \cup {"done"}
    BY <1>1, JoinedMeansDone
  <2>2. stage[c] \notin Waiting \cup InHandler /\ stage[c] \notin Leased
    BY <2>1 DEF Outside, Waiting, InHandler, Leased
  <2>3. LeaseInv
    BY <1>1 DEF IInv
  <2> QED BY <2>2, <2>3, Zenon DEF LeaseInv
<1> QED BY <1>1, Zenon DEF BackendsIdleAtShutdown

(* backend_set.shutdown() runs when no handler holds a backend connection and
   none will ask for one. *)
THEOREM BackendsIdle == Spec => []BackendsIdleAtShutdown
BY IdleAtShutdown, Inductive, PTL

-----------------------------------------------------------------------------
(* completed counts the responses that were delivered. *)

Sent == {"release_ok", "count_completed"}

ReplyInv ==
    \A c \in Conns : /\ stage[c] \in Sent => reply[c] = "response"
                     /\ reply[c] = "response" => stage[c] \in Sent \cup Counted

Delivered == {c \in Conns : stage[c] \in Counted /\ reply[c] = "response"}

AnswerInv == ReplyInv /\ completed = Cardinality(Delivered)

(* Outside handle_one, connections move among stages where nothing was sent. *)
LEMMA OtherStepsReply ==
    ASSUME IInv, [Next]_vars, \A w \in Workers : ~WorkerLocal(w) /\ ~WorkerSend(w)
    PROVE  /\ UNCHANGED <<reply, completed>>
           /\ \A c \in Conns : \/ stage'[c] = stage[c]
                               \/ stage[c] \notin Sent \cup Counted /\ stage'[c] \notin Sent \cup Counted
<1> USE DEF Goto, Sent, Counted
<1>0. stage \in [Conns -> Stages]
  BY DEF IInv, RouterTypeOK
<1>1. ASSUME NEW c \in Conns, Connect(c) \/ AcceptConn(c) \/ SubmitConn(c)
      PROVE  /\ UNCHANGED <<reply, completed>>
             /\ \A d \in Conns : \/ stage'[d] = stage[d]
                                 \/ stage[d] \notin Sent \cup Counted /\ stage'[d] \notin Sent \cup Counted
  BY <1>0, <1>1 DEF Connect, AcceptConn, SubmitConn
<1>2. ASSUME NEW w \in Workers, WorkerTake(w)
      PROVE  /\ UNCHANGED <<reply, completed>>
             /\ \A d \in Conns : \/ stage'[d] = stage[d]
                                 \/ stage[d] \notin Sent \cup Counted /\ stage'[d] \notin Sent \cup Counted
  <2>1. Head(queue) \in Conns
    BY <1>2 DEF WorkerTake, Pool!Take, IInv, RouterTypeOK
  <2> QED BY <1>0, <1>2, <2>1 DEF WorkerTake
<1>3. ASSUME CloseListener
      PROVE  /\ UNCHANGED <<reply, completed>>
             /\ \A d \in Conns : \/ stage'[d] = stage[d]
                                 \/ stage[d] \notin Sent \cup Counted /\ stage'[d] \notin Sent \cup Counted
  BY <1>3 DEF CloseListener
<1>4. ASSUME UNCHANGED handlerVars
      PROVE  UNCHANGED <<reply, completed, stage>>
  BY <1>4 DEF handlerVars
<1>5. ASSUME NEW w \in Workers, WorkerFinish(w) \/ WorkerLeaves(w) PROVE UNCHANGED handlerVars
  BY <1>5 DEF WorkerFinish, WorkerLeaves
<1>6. ASSUME LoopCheck \/ EpollReturns \/ EpollFails \/ Dispatch \/ AcceptEnds
      PROVE  UNCHANGED handlerVars
  BY SMTT(30), <1>6 DEF LoopCheck, EpollReturns, EpollFails, Dispatch, AcceptEnds
<1>7. ASSUME MainStep PROVE CloseListener \/ UNCHANGED handlerVars
  BY <1>7 DEF MainStep, SeeRequest, StopAcceptor, WakeAcceptor, JoinAcceptor, PollEnds,
              CheckInFlight, CountDropped, StopPool, JoinWorkers, ShutdownBackends
<1>8. ASSUME Signal \/ GraceExpires \/ Exited \/ UNCHANGED vars PROVE UNCHANGED handlerVars
  BY <1>8 DEF Signal, GraceExpires, Exited, vars
<1> HIDE DEF Goto, Sent, Counted
<1> QED BY <1>1, <1>2, <1>3, <1>4, <1>5, <1>6, <1>7, <1>8 DEF Next, AcceptorStep

(* A step of handle_one delivers a response, counts a delivered one, or does
   neither. *)
LEMMA HandlerReply ==
    ASSUME RouterTypeOK, ReplyInv, NEW c \in Conns, HandleOne(c)
    PROVE  /\ ReplyInv'
           /\ \/ completed' = completed /\ Delivered' = Delivered
              \/ completed' = completed + 1 /\ c \notin Delivered /\ Delivered' = Delivered \cup {c}
<1>0. /\ stage \in [Conns -> Stages] /\ reply \in [Conns -> {"none", "response", "error"}]
      /\ stage[c] \in Sent => reply[c] = "response"
      /\ reply[c] = "response" => stage[c] \in Sent \cup Counted
  BY DEF RouterTypeOK, ReplyInv
<1>1. ASSUME \A d \in Conns : d # c => stage'[d] = stage[d] /\ reply'[d] = reply[d],
             stage'[c] \in Sent => reply'[c] = "response",
             reply'[c] = "response" => stage'[c] \in Sent \cup Counted
      PROVE  ReplyInv'
  BY <1>1 DEF ReplyInv
<1>2. ASSUME \A d \in Conns : d # c => stage'[d] = stage[d] /\ reply'[d] = reply[d],
             c \in Delivered' <=> c \in Delivered
      PROVE  Delivered' = Delivered
  BY <1>2 DEF Delivered
<1> DEFINE Same == /\ \A d \in Conns : d # c => stage'[d] = stage[d] /\ reply'[d] = reply[d]
                   /\ stage'[c] \in Sent => reply'[c] = "response"
                   /\ reply'[c] = "response" => stage'[c] \in Sent \cup Counted
                   /\ completed' = completed
                   /\ c \in Delivered' <=> c \in Delivered
<1>3. ASSUME Same PROVE ReplyInv' /\ completed' = completed /\ Delivered' = Delivered
  BY <1>1, <1>2, <1>3
<1> USE DEF Goto, Sent, Counted, Delivered
<1>4. ASSUME NEW ok \in BOOLEAN, Handshake(c, ok) \/ ReadClient(c, ok) \/ Borrow(c, ok) PROVE Same
  BY <1>0, <1>4 DEF Handshake, ReadClient, Borrow
<1>5. ASSUME NEW ok \in BOOLEAN, WriteBackend(c, ok) \/ ReadBackend(c, ok) PROVE Same
  BY <1>0, <1>5 DEF WriteBackend, ReadBackend
<1>6. ASSUME NEW ok \in BOOLEAN, ReplyError(c, ok) PROVE Same
  BY <1>0, <1>6 DEF ReplyError
<1>7. ASSUME NEW ok \in BOOLEAN, WriteClient(c, ok) PROVE Same
  BY SMTT(30), <1>0, <1>7 DEF WriteClient
<1>8. ASSUME Enter(c) \/ Release(c) \/ CountErrored(c) PROVE Same
  BY <1>0, <1>8 DEF Enter, Release, CountErrored
<1>9. ASSUME CloseClient(c) \/ Leave(c) PROVE Same
  BY SMTT(30), <1>0, <1>9 DEF CloseClient, Leave
<1>10. ASSUME CountCompleted(c)
       PROVE  /\ ReplyInv' /\ completed' = completed + 1 /\ c \notin Delivered
              /\ Delivered' = Delivered \cup {c}
  <2>1. /\ \A d \in Conns : d # c => stage'[d] = stage[d]
        /\ stage[c] = "count_completed" /\ stage'[c] = "close" /\ reply[c] = "response"
        /\ reply' = reply /\ completed' = completed + 1
    BY <1>0, <1>10 DEF CountCompleted
  <2> QED BY <1>1, <2>1
<1> HIDE DEF Same, Goto, Sent, Counted, Delivered
<1> QED BY SMTT(30), <1>3, <1>4, <1>5, <1>6, <1>7, <1>8, <1>9, <1>10 DEF HandleOne, LocalStep, SendStep

(* Every step keeps completed equal to the number of delivered responses: only
   inc_completed() changes it, after a response was written in full. *)
LEMMA StepAnswers == IInv /\ AnswerInv /\ [Next]_vars => AnswerInv'
<1> SUFFICES ASSUME IInv, AnswerInv, [Next]_vars PROVE AnswerInv'
  BY SMTT(30)
<1>1. IsFiniteSet(Delivered)
  BY ConnsFinite, FS_Subset DEF Delivered
<1>2. ASSUME NEW w \in Workers, WorkerLocal(w) \/ WorkerSend(w) PROVE AnswerInv'
  <2>1. PICK c \in Conns : HandleOne(c)
    BY <1>2 DEF WorkerLocal, WorkerSend, HandleOne, IInv, RouterTypeOK
  <2>2. /\ ReplyInv'
        /\ \/ completed' = completed /\ Delivered' = Delivered
           \/ completed' = completed + 1 /\ c \notin Delivered /\ Delivered' = Delivered \cup {c}
    BY <2>1, HandlerReply DEF IInv, AnswerInv
  <2> QED BY <1>1, <2>2, FS_AddElement DEF AnswerInv
<1>3. ASSUME \A w \in Workers : ~WorkerLocal(w) /\ ~WorkerSend(w) PROVE AnswerInv'
  <2>1. /\ UNCHANGED <<reply, completed>>
        /\ \A c \in Conns : \/ stage'[c] = stage[c]
                            \/ stage[c] \notin Sent \cup Counted /\ stage'[c] \notin Sent \cup Counted
    BY <1>3, OtherStepsReply
  <2>2. ReplyInv'
    BY <2>1 DEF AnswerInv, ReplyInv
  <2>3. Delivered' = Delivered
    BY <2>1 DEF Delivered
  <2> QED BY SMTT(30), <2>1, <2>2, <2>3 DEF AnswerInv
<1> QED BY <1>2, <1>3

(* Nothing is delivered and nothing counted before the first connection. *)
LEMMA NothingAnswered == HandlerInit => AnswerInv
<1>1. ASSUME HandlerInit PROVE ReplyInv /\ Delivered = {} /\ completed = 0
  BY <1>1 DEF HandlerInit, Outside, ReplyInv, Delivered, Sent, Counted
<1> QED BY <1>1, FS_EmptySet DEF AnswerInv

(* Metrics::completed is the number of requests whose response was written to
   the client in full; no failed write and no error reply is among them. *)
THEOREM CompletedIsAnswered == Spec => []CompletedMeansAnswered
<1>1. Init => AnswerInv
  BY NothingAnswered DEF Init
<1>2. AnswerInv => CompletedMeansAnswered
  BY DEF AnswerInv, CompletedMeansAnswered, Delivered
<1> QED BY <1>1, <1>2, Inductive, StepAnswers, PTL DEF Spec

-----------------------------------------------------------------------------
(* dropped counts accepted connections. *)

BeforeCount == {"wait", "stop_flag", "wake", "join", "close", "poll", "check", "count"}

DropInv ==
    /\ dropped <= accepted
    /\ main \in BeforeCount => dropped = 0

(* Only CountDropped changes dropped, once, and only AcceptConn changes accepted. *)
LEMMA StepDrops == IInv /\ DropInv /\ [Next]_vars => DropInv'
<1> SUFFICES ASSUME IInv, DropInv, [Next]_vars PROVE DropInv'
  OBVIOUS
<1>0. accepted \in Nat /\ dropped \in Nat /\ in_flight \in Nat
  BY DEF IInv, RouterTypeOK
<1>1. ASSUME UNCHANGED <<dropped, accepted>>, main' = main \/ main' \notin BeforeCount \/ main \in BeforeCount
      PROVE  DropInv'
  BY <1>1 DEF DropInv
<1>2. ASSUME NEW c \in Conns, AcceptConn(c) PROVE DropInv'
  <2>1. accepted' = accepted + 1 /\ UNCHANGED <<dropped, main>>
    BY <1>2 DEF AcceptConn, mainVars
  <2> QED BY <1>0, <2>1 DEF DropInv
<1>3. ASSUME NEW c \in Conns, Connect(c) \/ SubmitConn(c) PROVE DropInv'
  BY <1>1, <1>3 DEF Connect, SubmitConn, acceptorVars, mainVars
<1>4. ASSUME LoopCheck \/ EpollReturns \/ EpollFails \/ Dispatch \/ AcceptEnds PROVE DropInv'
  BY SMTT(30), <1>1, <1>4 DEF LoopCheck, EpollReturns, EpollFails, Dispatch, AcceptEnds, mainVars
<1>5. ASSUME NEW w \in Workers, \/ WorkerTake(w) \/ WorkerLocal(w) \/ WorkerSend(w)
                                \/ WorkerFinish(w) \/ WorkerLeaves(w)
      PROVE  DropInv'
  BY <1>1, <1>5 DEF WorkerTake, WorkerLocal, WorkerSend, WorkerFinish, WorkerLeaves,
                    acceptorVars, mainVars
<1>6. CASE Signal \/ GraceExpires \/ Exited \/ UNCHANGED vars
  BY <1>1, <1>6 DEF Signal, GraceExpires, Exited, vars, acceptorVars, mainVars
<1>7. CASE CountDropped
  <2>1. At(stage, InHandler) \subseteq At(stage, Stages \ Outside)
    BY DEF At, Stages, Outside, InHandler
  <2>2. IsFiniteSet(At(stage, Stages \ Outside))
    BY ConnsFinite, FS_Subset DEF At
  <2>3. in_flight <= accepted
    BY Zenon, <2>1, <2>2, FS_Subset DEF IInv, CountInv
  <2>4. main = "count" /\ main' = "pool_stop" /\ dropped' = dropped + in_flight /\ accepted' = accepted
    BY <1>7 DEF CountDropped, MainGoto, acceptorVars
  <2>5. dropped = 0
    BY <2>4 DEF DropInv, BeforeCount
  <2> QED BY <1>0, <2>3, <2>4, <2>5 DEF DropInv, BeforeCount
<1>8. CASE MainStep /\ ~CountDropped
  <2>1. UNCHANGED <<dropped, accepted>> /\ (main' \notin BeforeCount \/ main \in BeforeCount)
    BY <1>8 DEF MainStep, SeeRequest, StopAcceptor, WakeAcceptor, JoinAcceptor, CloseListener,
                PollEnds, CheckInFlight, StopPool, JoinWorkers, ShutdownBackends, MainGoto,
                acceptorVars, BeforeCount
  <2> QED BY <1>1, <2>1
<1> QED BY <1>2, <1>3, <1>4, <1>5, <1>6, <1>7, <1>8 DEF Next, AcceptorStep

(* The drop counter counts accepted connections only; at exit all of them have
   been handled and counted as completed or errored as well. *)
THEOREM DroppedIsWithinAccepted == Spec => []DroppedWithinAccepted
<1>1. Init => DropInv
  BY DEF Init, DropInv
<1>2. ASSUME IInv, DropInv PROVE DroppedWithinAccepted
  BY <1>2, ExitBalances DEF DropInv, DroppedWithinAccepted, ExitAccounted
<1> QED BY <1>1, <1>2, Inductive, StepDrops, PTL DEF Spec

-----------------------------------------------------------------------------
(* The router and the worker pool. *)

(* What a thread of the router does to the pool is one operation of TaskPool. *)
LEMMA StepUsesPool == [Next]_vars => [Pool!PoolNext]_(Pool!poolVars)
<1> SUFFICES ASSUME [Next]_vars PROVE Pool!PoolNext \/ UNCHANGED poolVars
  BY DEF poolVars, Pool!poolVars
<1>1. ASSUME NEW c \in Conns, Connect(c) \/ AcceptConn(c) \/ SubmitConn(c)
      PROVE  Pool!Submit(c) \/ UNCHANGED poolVars
  BY <1>1 DEF Connect, AcceptConn, SubmitConn
<1>2. ASSUME LoopCheck \/ EpollReturns \/ EpollFails \/ Dispatch \/ AcceptEnds
      PROVE  UNCHANGED poolVars
  BY SMTT(30), <1>2 DEF LoopCheck, EpollReturns, EpollFails, Dispatch, AcceptEnds
<1>3. ASSUME NEW w \in Workers, \/ WorkerTake(w) \/ WorkerLocal(w) \/ WorkerSend(w)
                                \/ WorkerFinish(w) \/ WorkerLeaves(w)
      PROVE  Pool!Take(w) \/ Pool!Finish(w) \/ Pool!WorkerExit(w) \/ UNCHANGED poolVars
  BY Zenon, <1>3 DEF WorkerTake, WorkerLocal, WorkerSend, WorkerFinish, WorkerLeaves
<1>4. ASSUME MainStep PROVE Pool!Stop \/ UNCHANGED poolVars
  BY <1>4 DEF MainStep, SeeRequest, StopAcceptor, WakeAcceptor, JoinAcceptor, CloseListener,
              PollEnds, CheckInFlight, CountDropped, StopPool, JoinWorkers, ShutdownBackends
<1>5. ASSUME Signal \/ GraceExpires \/ Exited \/ UNCHANGED vars PROVE UNCHANGED poolVars
  BY <1>5 DEF Signal, GraceExpires, Exited, vars
<1> QED BY <1>1, <1>2, <1>3, <1>4, <1>5 DEF Next, AcceptorStep, Pool!PoolNext

(* The acceptor, the workers and main() use the worker pool as TaskPool allows,
   which ThreadPool implements. *)
THEOREM RouterUsesPool == Spec => Pool!PoolSpec
<1>1. Init => Pool!PoolInit
  BY DEF Init
<1> QED BY <1>1, StepUsesPool, PTL DEF Spec, Pool!PoolSpec

-----------------------------------------------------------------------------
(* The router implements NoDrop. *)

Phase == CASE main \in {"wait", "stop_flag", "wake", "join"} -> "serving"
           [] main \in {"close", "poll", "check", "count", "pool_stop"} -> "draining"
           [] main \in {"pool_join", "backend_shutdown"} -> "stopping"
           [] main = "exit" -> "exited"
Outstanding == At(stage, Waiting \cup InHandler)
Answered == At(stage, {"done", "turned_away"})

AbstractStep ==
    \/ UNCHANGED <<Phase, Outstanding, Answered>>
    \/ \E c \in Conns :
          /\ Phase = "serving" /\ Phase' = Phase
          /\ c \notin Outstanding \cup Answered
          /\ Outstanding' = Outstanding \cup {c} /\ Answered' = Answered
    \/ \E c \in Conns :
          /\ Phase # "exited" /\ Phase' = Phase
          /\ c \in Outstanding
          /\ Outstanding' = Outstanding \ {c} /\ Answered' = Answered \cup {c}
    \/ /\ \/ Phase = "serving" /\ Phase' = "draining"
          \/ Phase = "draining" /\ Phase' = "stopping"
          \/ Phase = "stopping" /\ Phase' = "exited" /\ Outstanding = {}
       /\ UNCHANGED <<Outstanding, Answered>>

(* AbstractStep is a step of NoDrop under the refinement mapping. *)
LEMMA AbstractStepIsNoDrop ==
    ASSUME AbstractStep
    PROVE  [Abstract!NoDropNext]_(Abstract!noDropVars)
BY ZenonT(30) DEF AbstractStep, Phase, Outstanding, Answered, At, Abstract!NoDropNext, Abstract!noDropVars,
       Abstract!Accept, Abstract!Answer, Abstract!BeginDrain, Abstract!StopWorkers, Abstract!Exit

(* The steps that move one connection. *)
LEMMA MoveRefines ==
    ASSUME IInv, NEW c \in Conns, NEW v \in Stages,
           stage' = [stage EXCEPT ![c] = v], main' = main,
           \/ stage[c] \in Outside /\ v \in Outside
           \/ stage[c] \in Outside /\ v \in Waiting /\ main \notin AfterJoin
           \/ stage[c] \in Waiting \cup InHandler /\ v \in Waiting \cup InHandler
           \/ stage[c] \in Waiting \cup InHandler /\ v = "done"
    PROVE  AbstractStep
<1>1. Phase' = Phase
  BY DEF Phase
<1>2. stage \in [Conns -> Stages] /\ \A d \in Conns : stage'[d] = IF d = c THEN v ELSE stage[d]
  BY DEF IInv, RouterTypeOK
<1> USE DEF Outside, Waiting, InHandler
<1>3. CASE \/ stage[c] \in Outside /\ v \in Outside
           \/ stage[c] \in Waiting \cup InHandler /\ v \in Waiting \cup InHandler
  <2>1. Outstanding' = Outstanding /\ Answered' = Answered
    BY <1>2, <1>3 DEF Outstanding, Answered, At
  <2> QED BY <1>1, <2>1 DEF AbstractStep
<1>4. CASE stage[c] \in Outside /\ v \in Waiting /\ main \notin AfterJoin
  <2>1. /\ Outstanding' = Outstanding \cup {c} /\ Answered' = Answered
        /\ c \notin Outstanding \cup Answered
    BY <1>2, <1>4 DEF Outstanding, Answered, At
  <2>2. Phase = "serving"
    BY SMTT(30), <1>4 DEF Phase, IInv, RouterTypeOK, MainPlaces, AfterJoin
  <2> QED BY <1>1, <2>1, <2>2 DEF AbstractStep
<1>5. CASE stage[c] \in Waiting \cup InHandler /\ v = "done"
  <2>1. /\ Outstanding' = Outstanding \ {c} /\ Answered' = Answered \cup {c}
        /\ c \in Outstanding
    BY <1>2, <1>5 DEF Outstanding, Answered, At
  <2>2. Phase # "exited"
    <3>1. main # "exit"
      BY <1>5, JoinedMeansDone
    <3> QED BY <3>1 DEF Phase, IInv, RouterTypeOK, MainPlaces
  <2> QED BY SMTT(30), <1>1, <2>1, <2>2 DEF AbstractStep
<1> QED BY <1>3, <1>4, <1>5

(* The steps that move no connection in or out of the router's hands. *)
LEMMA StillRefines ==
    ASSUME IInv, Outstanding' = Outstanding, Answered' = Answered,
           \/ main' = main
           \/ main \in {"wait", "stop_flag", "wake"} /\ main' \in {"stop_flag", "wake", "join"}
           \/ main \in {"close", "poll", "check", "count"} /\ main' \in {"poll", "check", "count", "pool_stop"}
           \/ main = "pool_join" /\ main' = "backend_shutdown"
           \/ main = "join" /\ main' = "close"
           \/ main = "pool_stop" /\ main' = "pool_join"
           \/ main = "backend_shutdown" /\ main' = "exit"
    PROVE  AbstractStep
<1>1. CASE \/ main' = main
           \/ main \in {"wait", "stop_flag", "wake"} /\ main' \in {"stop_flag", "wake", "join"}
           \/ main \in {"close", "poll", "check", "count"} /\ main' \in {"poll", "check", "count", "pool_stop"}
           \/ main = "pool_join" /\ main' = "backend_shutdown"
  BY Zenon, <1>1 DEF AbstractStep, Phase
<1>2. CASE \/ main = "join" /\ main' = "close"
           \/ main = "pool_stop" /\ main' = "pool_join"
  BY <1>2 DEF AbstractStep, Phase
<1>3. CASE main = "backend_shutdown" /\ main' = "exit"
  <2>1. Outstanding = {}
    BY <1>3, JoinedMeansDone DEF Outstanding, At, Outside, Waiting, InHandler
  <2> QED BY <1>3, <2>1 DEF AbstractStep, Phase
<1> QED BY <1>1, <1>2, <1>3

(* Every step of the router is a step of NoDrop or a stuttering one. *)
LEMMA StepRefines == IInv /\ [Next]_vars => AbstractStep
<1> SUFFICES ASSUME IInv, [Next]_vars PROVE AbstractStep
  OBVIOUS
<1>1. ASSUME NEW c \in Conns, Connect(c) PROVE AbstractStep
  <2>1. PICK v \in Outside : stage[c] \in Outside /\ stage' = [stage EXCEPT ![c] = v] /\ main' = main
    BY Zenon, <1>1 DEF Connect, Goto, Outside, mainVars
  <2> QED BY Zenon, <2>1, MoveRefines DEF Stages
<1>2. ASSUME NEW c \in Conns, AcceptConn(c) PROVE AbstractStep
  <2>1. main \notin AfterJoin
    BY <1>2 DEF AcceptConn, AcceptorGoto, IInv, PhaseInv
  <2> QED BY Zenon, <1>2, <2>1, MoveRefines DEF AcceptConn, Goto, mainVars, Stages, Outside, Waiting
<1>3. ASSUME NEW c \in Conns, SubmitConn(c) PROVE AbstractStep
  <2>1. stopped = FALSE
    BY <1>3 DEF SubmitConn, AcceptorGoto, IInv, PhaseInv, RouterTypeOK, AfterJoin, AfterStop
  <2> QED BY Zenon, <1>3, <2>1, MoveRefines DEF SubmitConn, Goto, mainVars, Stages, Waiting
<1>4. ASSUME NEW w \in Workers, WorkerTake(w) PROVE AbstractStep
  <2>1. Head(queue) \in Conns
    BY <1>4 DEF WorkerTake, Pool!Take, IInv, RouterTypeOK
  <2> QED BY ZenonT(30), <1>4, <2>1, MoveRefines DEF WorkerTake, Goto, mainVars, Stages, Waiting
<1>5. ASSUME NEW w \in Workers, WorkerLocal(w) \/ WorkerSend(w) PROVE AbstractStep
  <2> DEFINE c == running[w]
  <2>1. c \in Conns /\ HandleOne(c) /\ main' = main
    BY <1>5 DEF IInv, RouterTypeOK, WorkerLocal, WorkerSend, HandleOne, mainVars
  <2>2. Forward(c)
    BY SMTT(30), <2>1, HandlerForward DEF IInv
  <2>3. /\ stage[c] \in Waiting \cup InHandler /\ stage' = [stage EXCEPT ![c] = stage'[c]]
        /\ stage'[c] \in InHandler \cup {"done"}
    BY Zenon, <2>2 DEF Forward, Handled, Waiting
  <2> QED BY <2>1, <2>3, MoveRefines DEF Stages
<1>6. ASSUME UNCHANGED <<stage, main>> PROVE AbstractStep
  BY <1>6, StillRefines DEF Outstanding, Answered
<1>7. ASSUME NEW w \in Workers, WorkerFinish(w) \/ WorkerLeaves(w) PROVE AbstractStep
  BY <1>7, <1>6 DEF WorkerFinish, WorkerLeaves, handlerVars, mainVars
<1>8. CASE Signal \/ GraceExpires
  BY SMTT(30), <1>8, <1>6 DEF Signal, GraceExpires, handlerVars
<1>9. CASE LoopCheck \/ EpollReturns \/ EpollFails \/ Dispatch \/ AcceptEnds
  BY <1>9, <1>6 DEF LoopCheck, EpollReturns, EpollFails, Dispatch, AcceptEnds, handlerVars, mainVars
<1>10. CASE MainStep
  <2>1. CASE CloseListener
    <3>1. stage \in [Conns -> Stages]
      BY DEF IInv, RouterTypeOK
    <3>2. Outstanding' = Outstanding /\ Answered' = Answered
      BY <2>1, <3>1 DEF CloseListener, Outstanding, Answered, At, Waiting, InHandler
    <3> QED BY <2>1, <3>2, StillRefines DEF CloseListener, MainGoto
  <2>2. ASSUME UNCHANGED stage PROVE Outstanding' = Outstanding /\ Answered' = Answered
    BY <2>2 DEF Outstanding, Answered
  <2>3. CASE SeeRequest
    BY <2>3, <2>2, StillRefines DEF SeeRequest, MainGoto, handlerVars
  <2>4. CASE StopAcceptor
    BY <2>4, <2>2, StillRefines DEF StopAcceptor, MainGoto, handlerVars
  <2>5. CASE WakeAcceptor
    BY <2>5, <2>2, StillRefines DEF WakeAcceptor, MainGoto, handlerVars
  <2>6. CASE JoinAcceptor
    BY <2>6, <2>2, StillRefines DEF JoinAcceptor, MainGoto, handlerVars
  <2>7. CASE PollEnds
    BY <2>7, <2>2, StillRefines DEF PollEnds, MainGoto, handlerVars
  <2>8. CASE CheckInFlight
    BY <2>8, <2>2, StillRefines DEF CheckInFlight, MainGoto, handlerVars
  <2>9. CASE CountDropped
    BY <2>9, <2>2, StillRefines DEF CountDropped, MainGoto, handlerVars
  <2>10. CASE StopPool
    BY <2>10, <2>2, StillRefines DEF StopPool, MainGoto, handlerVars
  <2>11. CASE JoinWorkers
    BY <2>11, <2>2, StillRefines DEF JoinWorkers, MainGoto, handlerVars
  <2>12. CASE ShutdownBackends
    BY <2>12, <2>2, StillRefines DEF ShutdownBackends, MainGoto, handlerVars
  <2> QED
    BY SMTT(30), <1>10, <2>1, <2>3, <2>4, <2>5, <2>6, <2>7, <2>8, <2>9, <2>10, <2>11, <2>12 DEF MainStep
<1>11. CASE Exited \/ UNCHANGED vars
  BY <1>11, <1>6 DEF Exited, vars, handlerVars, mainVars
<1> QED
  BY <1>1, <1>2, <1>3, <1>4, <1>5, <1>7, <1>8, <1>9, <1>10, <1>11 DEF Next, AcceptorStep

(* The router implements NoDrop: whatever it accepted is answered or closed
   before main() returns, and nothing is accepted once the acceptor is joined. *)
THEOREM ImplementsNoDrop == Spec => RouterImplementsNoDrop
<1>1. Init => Abstract!NoDropInit
  <2> SUFFICES ASSUME Init PROVE Abstract!NoDropInit
    OBVIOUS
  <2>1. Phase = "serving"
    BY DEF Init, Phase
  <2>2. Outstanding = {} /\ Answered = {}
    BY DEF Init, HandlerInit, Outside, Outstanding, Answered, At, Waiting, InHandler
  <2> QED BY Zenon, <2>1, <2>2 DEF Abstract!NoDropInit, Phase, Outstanding, Answered, At
<1>2. IInv /\ [Next]_vars => [Abstract!NoDropNext]_(Abstract!noDropVars)
  BY StepRefines, AbstractStepIsNoDrop
<1> QED BY <1>1, <1>2, Inductive, PTL DEF Spec, RouterImplementsNoDrop, Abstract!NoDropSpec

-----------------------------------------------------------------------------
(* The start-up. *)

Early == {"construct", "init_tls", "listen", "set_up"}
Failed == {"unwind", "join", "gone"}

(* Nothing of the router has moved yet. *)
Untouched ==
    /\ HandlerInit
    /\ queue = <<>> /\ running = [w \in Workers |-> NoTask]
    /\ wake = FALSE /\ acceptor_stop = FALSE /\ acceptor = "none" /\ events = {}
    /\ accepted = 0 /\ dropped = 0
    /\ requested \in BOOLEAN /\ main = "wait" /\ grace_expired = FALSE

(* The inductive invariant. *)
BootInv ==
    /\ boot \in Early \cup Failed \cup {"up"}
    /\ boot = "up" => IInv
    /\ boot # "up" => Untouched
    /\ boot \in Early => stopped = FALSE /\ exited = {}
    /\ boot = "set_up" => listening = TRUE
    /\ boot = "gone" => exited = Workers /\ \A c \in Conns : stage[c] # "backlog"

(* The invariant holds when main() begins. *)
LEMMA InitBoot == StartupInit => BootInv
BY ZenonT(30) DEF StartupInit, BootInv, Untouched, HandlerInit, Pool!PoolInit, Early, Failed

(* Before the acceptor thread runs and with nothing queued, of all the other
   threads' steps only a client's, a signal's and a leaving worker's are possible. *)
LEMMA QuietSteps ==
    ASSUME BootInv, boot # "up", OtherStep
    PROVE  \/ \E c \in Conns : Connect(c)
           \/ Signal
           \/ boot \in Failed /\ \E w \in Workers : WorkerLeaves(w)
<1> USE DEF BootInv, Untouched
<1>1. ~GraceExpires
  BY DEF GraceExpires
<1>2. ~AcceptorStep
  BY DEF AcceptorStep, LoopCheck, EpollReturns, EpollFails, Dispatch, AcceptEnds, AcceptConn,
         SubmitConn, AcceptorGoto
<1>3. ASSUME NEW w \in Workers
      PROVE  ~WorkerTake(w) /\ ~WorkerLocal(w) /\ ~WorkerFinish(w) /\ ~WorkerSend(w)
  BY Zenon DEF WorkerTake, WorkerLocal, WorkerFinish, WorkerSend, Pool!Take, Pool!Finish
<1>4. ASSUME NEW w \in Workers, WorkerLeaves(w) PROVE boot \in Failed
  BY SMTT(30), <1>4 DEF WorkerLeaves, Pool!WorkerExit, Early
<1> QED BY <1>1, <1>2, <1>3, <1>4 DEF OtherStep, WorkerStep

(* What these steps do to an untouched router. *)
LEMMA QuietStays ==
    ASSUME BootInv, boot # "up", OtherStep PROVE BootInv'
<1> USE DEF BootInv
<1>1. boot' = boot /\ boot # "gone"
  BY DEF OtherStep
<1>2. CASE \E c \in Conns : Connect(c)
  <2>1. PICK c \in Conns : Connect(c) BY <1>2
  <2>2. stage' \in [Conns -> Outside]
    BY <2>1 DEF Connect, Goto, Untouched, HandlerInit, Outside
  <2>3. UNCHANGED <<lease, reply, closes, in_flight, completed, errored, poolVars,
                    acceptorVars, mainVars>>
    BY <2>1 DEF Connect
  <2>4. Untouched' /\ UNCHANGED <<stopped, exited, listening>>
    BY <2>2, <2>3 DEF Untouched, HandlerInit, poolVars, acceptorVars, mainVars
  <2> QED BY <1>1, <2>4
<1>3. CASE Signal
  <2>1. Untouched' /\ UNCHANGED <<stopped, exited, listening>>
    BY <1>3 DEF Signal, Untouched, HandlerInit, handlerVars, poolVars, acceptorVars
  <2> QED BY <1>1, <2>1
<1>4. CASE boot \in Failed /\ \E w \in Workers : WorkerLeaves(w)
  <2>1. Untouched'
    BY SMTT(30), <1>4 DEF WorkerLeaves, Pool!WorkerExit, Untouched, HandlerInit, handlerVars,
                acceptorVars, mainVars
  <2> QED BY <1>1, <1>4, <2>1 DEF Early, Failed
<1> QED BY Zenon, <1>2, <1>3, <1>4, QuietSteps

(* The steps of the start-up itself. *)
LEMMA BootStays ==
    ASSUME BootInv, BootStep PROVE BootInv' /\ (boot' = "up" => Init')
<1> USE DEF BootInv, BootGoto, Early, Failed
<1>1. CASE Construct \/ \E ok \in BOOLEAN : InitTls(ok)
  <2>1. UNCHANGED vars /\ boot' \in {"init_tls", "listen", "unwind"} /\ boot \in {"construct", "init_tls"}
    BY <1>1 DEF Construct, InitTls
  <2>2. Untouched' /\ UNCHANGED <<stopped, exited>>
    BY SMTT(30), <2>1 DEF Untouched, HandlerInit, vars, handlerVars, poolVars, acceptorVars, mainVars
  <2> QED BY <2>1, <2>2
<1>2. CASE \E ok \in BOOLEAN : Listen(ok)
  <2>1. Untouched' /\ UNCHANGED <<stopped, exited>>
    BY SMTT(30), <1>2 DEF Listen, Untouched, HandlerInit, handlerVars, poolVars, mainVars
  <2> QED BY ZenonT(30), <1>2, <2>1 DEF Listen
<1>3. CASE \E ok \in BOOLEAN : SetUp(ok)
  <2>1. PICK ok \in BOOLEAN : SetUp(ok) BY <1>3
  <2>2. UNCHANGED <<handlerVars, poolVars, listening, wake, acceptor_stop, events, accepted, mainVars>>
    BY <2>1 DEF SetUp
  <2>3. HandlerInit' /\ Pool!PoolInit'
    BY <2>1, <2>2 DEF SetUp, Untouched, HandlerInit, Pool!PoolInit, handlerVars, poolVars
  <2>4. CASE ok
    <3>1. boot' = "up" /\ acceptor' = "check" /\ listening = TRUE
      BY SMTT(30), <2>1, <2>4 DEF SetUp
    <3>2. Init'
      BY <2>1, <2>2, <2>3, <3>1 DEF SetUp, Init, Untouched, mainVars
    <3>3. IInv'
      BY <3>2, InitIInv, PTL
    <3> QED BY Zenon, <3>1, <3>2, <3>3
  <2>5. CASE ~ok
    <3>1. boot' = "unwind" /\ acceptor' = acceptor
      BY <2>1, <2>5 DEF SetUp
    <3>2. Untouched'
      BY SMTT(30), <2>1, <2>2, <2>3, <3>1 DEF SetUp, Untouched, Pool!PoolInit, mainVars
    <3> QED BY <3>1, <3>2
  <2> QED BY ZenonT(30), <2>4, <2>5
<1>4. CASE Unwind
  <2>1. Untouched'
    BY <1>4 DEF Unwind, Pool!Stop, Untouched, HandlerInit, handlerVars, acceptorVars, mainVars
  <2> QED BY <1>4, <2>1 DEF Unwind
<1>5. CASE ReturnEarly
  <2>1. stage' \in [Conns -> Outside] /\ \A c \in Conns : stage'[c] # "backlog"
    BY SMTT(30), <1>5 DEF ReturnEarly, Untouched, HandlerInit, Outside
  <2>2. Untouched' /\ exited' = Workers
    BY <1>5, <2>1 DEF ReturnEarly, Untouched, HandlerInit, poolVars, mainVars
  <2> QED BY <1>5, <2>1, <2>2 DEF ReturnEarly
<1> QED BY Zenon, <1>1, <1>2, <1>3, <1>4, <1>5 DEF BootStep

(* Every step keeps the invariant, and the one that ends the start-up leads to an
   initial state of Router. *)
LEMMA StepBoot ==
    BootInv /\ [StartupNext]_startupVars =>
        BootInv' /\ (boot # "up" /\ boot' = "up" => Init')
<1> SUFFICES ASSUME BootInv, [StartupNext]_startupVars
             PROVE  BootInv' /\ (boot # "up" /\ boot' = "up" => Init')
  OBVIOUS
<1>1. CASE BootStep
  BY <1>1, BootStays
<1>2. CASE boot # "up" /\ OtherStep
  BY <1>2, QuietStays DEF OtherStep
<1>3. CASE boot = "up" /\ (OtherStep \/ ServeStep)
  <2>1. boot' = boot /\ [Next]_vars
    BY <1>3 DEF OtherStep, ServeStep, WorkerStep, Next
  <2>2. IInv'
    BY <1>3, <2>1, StepIInv DEF BootInv
  <2> QED BY <1>3, <2>1, <2>2 DEF BootInv, Early, Failed
<1>4. CASE UNCHANGED startupVars
  <2>1. UNCHANGED vars /\ boot' = boot
    BY <1>4 DEF startupVars
  <2>2. boot = "up" => IInv'
    BY <2>1, StepIInv DEF BootInv
  <2>3. boot # "up" => Untouched'
    BY <2>1 DEF BootInv, Untouched, HandlerInit, vars, handlerVars, poolVars, acceptorVars, mainVars
  <2>4. UNCHANGED <<stage, stopped, exited, listening>>
    BY <2>1 DEF vars, handlerVars, poolVars, acceptorVars
  <2> QED BY <2>1, <2>2, <2>3, <2>4 DEF BootInv
<1> QED BY <1>1, <1>2, <1>3, <1>4 DEF StartupNext, ServeStep, Over

(* The invariant holds from the first step of the start-up to the exit. *)
THEOREM StartupInvariance == StartupSafety => []BootInv
BY InitBoot, StepBoot, PTL DEF StartupSafety

(* A start-up that fails, at whichever call, has taken no connection off the
   listen socket, leaves none queued there and has joined every worker. *)
THEOREM FailureServesNobody == StartupSafety => []FailedStartServesNobody
<1>1. BootInv => FailedStartServesNobody
  BY DEF BootInv, Untouched, HandlerInit, Outside, FailedStartServesNobody
<1> QED BY <1>1, StartupInvariance, PTL

(* When main() reaches its wait loop the router is in an initial state of
   Router: Router's theorems start where the start-up ends. *)
THEOREM StartReachesRouter == StartupSafety => StartEstablishesRouter
BY InitBoot, StepBoot, PTL DEF StartupSafety, StartEstablishesRouter

(* The whole process, from main()'s first step: clients that came and signals
   that arrived during the start-up do not upset completed + errored = accepted
   at exit. *)
THEOREM ProcessAccounted == StartupSafety => []ExitAccounted
<1>1. BootInv => ExitAccounted
  BY ExitBalances DEF BootInv, Untouched, ExitAccounted
<1> QED BY <1>1, StartupInvariance, PTL

(* Before the wait loop, and in the state in which it is reached, NoDrop is in its
   initial state. *)
LEMMA UntouchedIsNoDropInit ==
    ASSUME Untouched \/ Init
    PROVE  Phase = "serving" /\ Outstanding = {} /\ Answered = {}
<1>1. main = "wait" /\ HandlerInit
  BY DEF Untouched, Init
<1>2. Phase = "serving"
  BY <1>1 DEF Phase
<1>3. Outstanding = {} /\ Answered = {}
  BY <1>1 DEF HandlerInit, Outside, Outstanding, Answered, At, Waiting, InHandler
<1> QED BY <1>2, <1>3

(* Once main() is in its wait loop every step is one of Router. *)
LEMMA UpStep ==
    ASSUME boot = "up", [StartupNext]_startupVars
    PROVE  [Next]_vars
BY DEF StartupNext, BootStep, BootGoto, Construct, InitTls, Listen, SetUp, Unwind, ReturnEarly,
       OtherStep, ServeStep, Over, WorkerStep, Next, startupVars

(* A step of the process is one of the start-up, which NoDrop does not see, or one
   of the router. *)
LEMMA ProcessStepRefines ==
    ASSUME BootInv, BootInv', boot # "up" /\ boot' = "up" => Init', [StartupNext]_startupVars
    PROVE  AbstractStep
<1>1. CASE boot = "up"
  <2>1. [Next]_vars
    BY <1>1, UpStep
  <2> QED BY Zenon, <1>1, <2>1, StepRefines DEF BootInv
<1>2. CASE boot # "up"
  <2>1. Untouched /\ (Untouched' \/ Init')
    BY Zenon, <1>2 DEF BootInv
  <2>2. Phase = "serving" /\ Outstanding = {} /\ Answered = {}
    BY <2>1, UntouchedIsNoDropInit
  <2>3. (Phase = "serving" /\ Outstanding = {} /\ Answered = {})'
    <3>1. (Untouched \/ Init) => Phase = "serving" /\ Outstanding = {} /\ Answered = {}
      BY UntouchedIsNoDropInit
    <3>2. (Untouched \/ Init)'
      BY <2>1
    <3> QED BY <3>2, UntouchedIsNoDropInit, PTL
  <2> QED BY SMTT(30), <2>2, <2>3 DEF AbstractStep
<1> QED BY SMTT(30), <1>1, <1>2

(* The whole process implements NoDrop from main()'s first step, and so does one
   whose start-up fails. *)
THEOREM ProcessImplementsNoDrop == StartupSafety => RouterImplementsNoDrop
<1>1. StartupInit => Abstract!NoDropInit
  <2> SUFFICES ASSUME StartupInit PROVE Abstract!NoDropInit
    OBVIOUS
  <2>1. Untouched
    BY InitBoot DEF StartupInit, BootInv
  <2>2. Phase = "serving" /\ Outstanding = {} /\ Answered = {}
    BY <2>1, UntouchedIsNoDropInit
  <2> QED BY Zenon, <2>2 DEF Abstract!NoDropInit, Phase, Outstanding, Answered, At
<1>2. BootInv /\ BootInv' /\ (boot # "up" /\ boot' = "up" => Init') /\ [StartupNext]_startupVars
        => [Abstract!NoDropNext]_(Abstract!noDropVars)
  BY ProcessStepRefines, AbstractStepIsNoDrop
<1> QED BY <1>1, <1>2, InitBoot, StepBoot, PTL
        DEF StartupSafety, RouterImplementsNoDrop, Abstract!NoDropSpec

(* What holds of the running router holds of the whole process: a descriptor is
   closed at most once, the drain loop reads the exact in_flight, no connection is
   turned away, the backends are idle when they are shut down and nothing accepted
   is left open at exit. *)
THEOREM ProcessSafe ==
    StartupSafety => [](FdClosedOnce /\ InFlightExact /\ SubmitNeverRefused
                          /\ BackendsIdleAtShutdown /\ ExitLeavesNothingOpen)
<1> DEFINE Safe == FdClosedOnce /\ InFlightExact /\ SubmitNeverRefused
                     /\ BackendsIdleAtShutdown /\ ExitLeavesNothingOpen
<1>1. ASSUME Untouched PROVE Safe
  <2>1. HandlerInit /\ main = "wait"
    BY <1>1 DEF Untouched
  <2>2. \A c \in Conns : stage[c] \notin InHandler /\ stage[c] # "turned_away" /\ closes[c] = 0
    BY <2>1 DEF HandlerInit, Outside, InHandler
  <2>3. in_flight = 0 /\ {c \in Conns : stage[c] \in InHandler} = {}
    BY <2>1, <2>2 DEF HandlerInit
  <2>4. InFlightExact
    BY SMTT(30), <2>3, FS_EmptySet DEF InFlightExact
  <2> QED BY <2>1, <2>2, <2>4
          DEF FdClosedOnce, SubmitNeverRefused, BackendsIdleAtShutdown, ExitLeavesNothingOpen
<1>2. ASSUME IInv PROVE Safe
  BY <1>2, ClosesAtMostOnce, ExactInFlight, IdleAtShutdown, ExitCloses DEF IInv, PhaseInv
<1>3. BootInv => Safe
  BY <1>1, <1>2 DEF BootInv
<1> QED BY <1>3, StartupInvariance, PTL

(* Until the wait loop is reached nothing is delivered and nothing counted. *)
LEMMA ProcessCounts ==
    ASSUME BootInv, BootInv', boot # "up" /\ boot' = "up" => Init', [StartupNext]_startupVars,
           AnswerInv, DropInv
    PROVE  AnswerInv' /\ DropInv'
<1>1. CASE boot = "up"
  BY <1>1, UpStep, StepAnswers, StepDrops DEF BootInv
<1>2. CASE boot # "up"
  <2>1. Untouched' \/ Init'
    BY <1>2 DEF BootInv
  <2>2. AnswerInv'
    <3>1. HandlerInit'
      BY <2>1 DEF Untouched, Init
    <3> QED BY <3>1, NothingAnswered, PTL
  <2>3. accepted' = 0 /\ dropped' = 0
    BY <2>1 DEF Untouched, Init
  <2> QED BY <2>2, <2>3 DEF DropInv
<1> QED BY SMTT(30), <1>1, <1>2

(* From main()'s first step on, completed counts the responses written in full and
   dropped counts accepted connections only. *)
THEOREM ProcessCountersExact == StartupSafety => [](CompletedMeansAnswered /\ DroppedWithinAccepted)
<1>1. StartupInit => AnswerInv /\ DropInv
  BY NothingAnswered DEF StartupInit, DropInv
<1>2. ASSUME BootInv, AnswerInv, DropInv PROVE CompletedMeansAnswered /\ DroppedWithinAccepted
  <2>1. CompletedMeansAnswered
    BY <1>2 DEF AnswerInv, CompletedMeansAnswered, Delivered
  <2>2. ExitAccounted
    BY <1>2, ExitBalances DEF BootInv, Untouched, ExitAccounted
  <2>3. main = "exit" => boot = "up"
    BY <1>2 DEF BootInv, Untouched
  <2> QED BY <1>2, <2>1, <2>2, <2>3 DEF DropInv, DroppedWithinAccepted, ExitAccounted
<1>3. BootInv /\ BootInv' /\ (boot # "up" /\ boot' = "up" => Init') /\ [StartupNext]_startupVars
        /\ AnswerInv /\ DropInv => AnswerInv' /\ DropInv'
  BY ProcessCounts
<1> QED BY <1>1, <1>2, <1>3, InitBoot, StepBoot, PTL DEF StartupSafety

(* The start-up, an early return included, uses the worker pool as TaskPool
   allows; so does the whole process. *)
THEOREM ProcessUsesPool == StartupSafety => Pool!PoolSpec
<1>1. StartupInit => Pool!PoolInit
  BY DEF StartupInit
<1>2. [StartupNext]_startupVars => [Pool!PoolNext]_(Pool!poolVars)
  <2> SUFFICES ASSUME [StartupNext]_startupVars PROVE Pool!PoolNext \/ UNCHANGED poolVars
    BY DEF poolVars, Pool!poolVars
  <2>1. ASSUME BootStep PROVE Pool!Stop \/ UNCHANGED poolVars
    BY <2>1 DEF BootStep, Construct, InitTls, Listen, SetUp, Unwind, ReturnEarly, vars
  <2>2. ASSUME OtherStep \/ ServeStep \/ UNCHANGED startupVars PROVE [Next]_vars
    BY <2>2 DEF OtherStep, ServeStep, WorkerStep, Next, startupVars
  <2>3. ASSUME [Next]_vars PROVE Pool!PoolNext \/ UNCHANGED poolVars
    BY <2>3, StepUsesPool DEF poolVars, Pool!poolVars
  <2> QED BY SMTT(30), <2>1, <2>2, <2>3 DEF StartupNext, Over, Pool!PoolNext
<1> QED BY <1>1, <1>2, PTL DEF StartupSafety, Pool!PoolSpec
=============================================================================
