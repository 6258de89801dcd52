--------------------------- MODULE ShutdownProofs ---------------------------
(***************************************************************************)
(* Safety of Shutdown for any threads, any signals and any number of        *)
(* deliveries, signals that interrupt a handler on the same thread          *)
(* included.                                                                *)
(***************************************************************************)
EXTENDS Shutdown, SequenceTheorems, TLAPS

Places == {"store", "lock", "notify"}

Frame == [signal : Signals, at : Places]

(* One thread's handler stack: a signal is blocked while its handler runs. *)
Stack(q) ==
    /\ q \in Seq(Frame)
    /\ \A i, j \in 1..Len(q) : q[i].signal = q[j].signal => i = j

Frames == frames \in [Threads -> Seq(Frame)] /\ \A t \in Threads : Stack(frames[t])

(* Delivering a signal that no frame of the thread handles keeps its frames typed
   and their signals distinct. *)
LEMMA StackPushed ==
    ASSUME NEW q, Stack(q), NEW s \in Signals, \A i \in 1..Len(q) : q[i].signal # s
    PROVE  Stack(Append(q, [signal |-> s, at |-> "store"]))
<1> DEFINE n == [signal |-> s, at |-> "store"]
           r == Append(q, n)
<1>1. q \in Seq(Frame) /\ n \in Frame /\ n.signal = s
  BY DEF Stack, Frame, Places
<1> HIDE DEF n
<1>2. r \in Seq(Frame) /\ Len(r) = Len(q) + 1 /\ Len(q) \in Nat
      /\ r[Len(q) + 1] = n /\ \A i \in 1..Len(q) : r[i] = q[i]
  BY <1>1
<1>3. \A i \in 1..Len(r) : i \in 1..Len(q) \/ i = Len(q) + 1
  BY <1>2
<1> HIDE DEF r
<1>4. \A i, j \in 1..Len(r) : r[i].signal = r[j].signal => i = j
  BY <1>1, <1>2, <1>3 DEF Stack
<1> QED BY <1>2, <1>4 DEF Stack, r, n

(* A handler frame that goes on to its next call leaves the frames well-formed. *)
LEMMA StackAdvanced ==
    ASSUME NEW q, Stack(q), NEW k \in 1..Len(q), NEW place \in Places
    PROVE  Stack([q EXCEPT ![k].at = place])
<1> DEFINE r == [q EXCEPT ![k].at = place]
<1>1. q \in Seq(Frame)
  BY DEF Stack
<1>2. [q[k] EXCEPT !.at = place] \in Frame /\ [q[k] EXCEPT !.at = place].signal = q[k].signal
  <2>1. q[k] \in Frame
    BY <1>1
  <2>2. ASSUME NEW f \in Frame
        PROVE  [f EXCEPT !.at = place] \in Frame /\ [f EXCEPT !.at = place].signal = f.signal
    BY DEF Frame
  <2> QED BY <2>1, <2>2
<1>3. r \in Seq(Frame) /\ Len(r) = Len(q) /\ \A i \in 1..Len(q) : r[i].signal = q[i].signal
  BY <1>1, <1>2
<1> HIDE DEF r
<1>4. \A i, j \in 1..Len(r) : r[i].signal = r[j].signal => i = j
  BY <1>3 DEF Stack
<1> QED BY <1>3, <1>4 DEF Stack, r

(* SubSeq without the last frame: the other frames stay where they are. *)
LEMMA Popped ==
    ASSUME NEW q \in Seq(Frame), q # <<>>
    PROVE  /\ SubSeq(q, 1, Len(q) - 1) \in Seq(Frame)
           /\ Len(SubSeq(q, 1, Len(q) - 1)) = Len(q) - 1
           /\ \A i \in 1..(Len(q) - 1) : SubSeq(q, 1, Len(q) - 1)[i] = q[i]
<1>1. PICK n \in Nat : n = Len(q) /\ n > 0
  OBVIOUS
<1> DEFINE r == SubSeq(q, 1, n - 1)
<1>2. 1 \in Int /\ n - 1 \in Int /\ \A i \in 1..(n - 1) : q[i] \in Frame
  BY <1>1
<1>3. /\ r \in Seq(Frame)
      /\ Len(r) = IF 1 <= n - 1 THEN (n - 1) - 1 + 1 ELSE 0
      /\ \A i \in 1..((n - 1) - 1 + 1) : r[i] = q[1 + i - 1]
  BY <1>2, SubSeqProperties
<1> HIDE DEF r
<1>4. Len(r) = n - 1
  BY <1>1, <1>3
<1>5. ASSUME NEW i \in 1..(n - 1) PROVE r[i] = q[i]
  <2>1. i \in 1..((n - 1) - 1 + 1) /\ 1 + i - 1 = i
    BY <1>1
  <2> QED BY <1>3, <2>1
<1> QED BY <1>1, <1>3, <1>4, <1>5 DEF r

(* A handler that returns leaves the frames below it well-formed. *)
LEMMA StackPopped ==
    ASSUME NEW q, Stack(q), q # <<>>
    PROVE  Stack(SubSeq(q, 1, Len(q) - 1))
<1>1. q \in Seq(Frame) /\ Len(q) \in Nat
  BY DEF Stack
<1> DEFINE r == SubSeq(q, 1, Len(q) - 1)
<1>2. r \in Seq(Frame) /\ Len(r) = Len(q) - 1 /\ \A i \in 1..(Len(q) - 1) : r[i] = q[i]
  BY <1>1, Popped
<1> HIDE DEF r
<1>3. \A i \in 1..Len(r) : i \in 1..Len(q) /\ r[i] = q[i]
  BY <1>1, <1>2
<1> QED BY <1>2, <1>3 DEF Stack, r

(* Only the thread that steps changes its stack. *)
LEMMA FramesKept ==
    ASSUME Frames, NEW t \in Threads, NEW q, Stack(q), frames' = [frames EXCEPT ![t] = q]
    PROVE  Frames'
<1>1. \A u \in Threads : frames'[u] = IF u = t THEN q ELSE frames[u]
  BY DEF Frames
<1>2. q \in Seq(Frame)
  BY DEF Stack
<1> QED BY <1>1, <1>2 DEF Frames

SafeInv ==
    /\ Frames
    /\ requested \in BOOLEAN
    /\ mu \in Threads \cup {Nobody}
    /\ main \in {"test", "lock", "predicate", "sleep", "asleep", "relock", "return", "drain"}
    /\ deliveries \in 0..MaxDeliveries

(* The invariant holds before any signal. *)
LEMMA InitSafe == Init => SafeInv
<1> SUFFICES ASSUME Init PROVE SafeInv
  OBVIOUS
<1>1. Stack(<<>>)
  BY DEF Stack
<1>2. Frames
  BY <1>1 DEF Init, Frames
<1>3. deliveries \in 0..MaxDeliveries
  BY DeliveriesAssumption DEF Init
<1> QED BY Zenon, <1>2, <1>3 DEF Init, SafeInv

(* No delivery, step of request() or step of wait() breaks the invariant. *)
LEMMA StepSafe ==
    ASSUME SafeInv, [Next]_vars
    PROVE  SafeInv'
<1>1. ASSUME NEW t \in Targets, NEW s \in Signals, Deliver(t, s) PROVE SafeInv'
  <2>1. t \in Threads /\ Stack(frames[t])
    BY MainAssumption DEF SafeInv, Frames
  <2>2. \A i \in 1..Len(frames[t]) : frames[t][i].signal # s
    BY <1>1, <2>1 DEF Deliver, Stack
  <2>3. Stack(Append(frames[t], [signal |-> s, at |-> "store"]))
    BY <2>1, <2>2, StackPushed
  <2>4. frames' = [frames EXCEPT ![t] = Append(frames[t], [signal |-> s, at |-> "store"])]
    BY <1>1 DEF Deliver
  <2>5. Frames'
    BY Zenon, <2>1, <2>3, <2>4, FramesKept DEF SafeInv
  <2>6. deliveries' \in 0..MaxDeliveries /\ UNCHANGED <<requested, mu, main>>
    BY <1>1, DeliveriesAssumption DEF Deliver, SafeInv
  <2> QED BY <2>5, <2>6 DEF SafeInv
<1>2. ASSUME NEW t \in Threads, NEW place \in Places,
             Interrupted(t), Advance(t, place)
      PROVE  Frames'
  <2>1. Stack(frames[t]) /\ frames[t] # <<>>
    BY <1>2 DEF SafeInv, Frames, Interrupted
  <2>2. PICK k \in 1..Len(frames[t]) : k = Len(frames[t])
    BY <2>1 DEF Stack
  <2>3. Stack([frames[t] EXCEPT ![k].at = place])
    BY <2>1, <2>2, StackAdvanced
  <2>4. frames' = [frames EXCEPT ![t] = [frames[t] EXCEPT ![k].at = place]]
    BY <1>2, <2>2 DEF Advance
  <2> QED BY Zenon, <2>3, <2>4, FramesKept DEF SafeInv
<1>3. ASSUME NEW t \in Threads, RequestStores(t) PROVE SafeInv'
  <2>1. Frames'
    BY <1>2, <1>3 DEF RequestStores, At, Places
  <2> QED BY <1>3, <2>1 DEF RequestStores, SafeInv
<1>4. ASSUME NEW t \in Threads, RequestLocks(t) PROVE SafeInv'
  <2>1. Frames'
    BY <1>2, <1>4 DEF RequestLocks, At, Places
  <2> QED BY <1>4, <2>1 DEF RequestLocks, SafeInv
<1>5. ASSUME NEW t \in Threads, RequestNotifies(t) PROVE SafeInv'
  <2>1. Stack(frames[t]) /\ frames[t] # <<>>
    BY <1>5 DEF SafeInv, Frames, RequestNotifies, At, Interrupted
  <2>2. Frames'
    BY Zenon, <1>5, <2>1, StackPopped, FramesKept DEF SafeInv, RequestNotifies
  <2> QED BY <1>5, <2>2 DEF RequestNotifies, SafeInv
<1>6. ASSUME MainRuns \/ WaitTimesOut PROVE SafeInv'
  <2>1. UNCHANGED <<frames, requested, deliveries>> /\ mu' \in Threads \cup {Nobody}
    BY <1>6, MainAssumption DEF MainRuns, LoopTest, WaitLocks, WaitPredicate, WaitSleeps,
       WaitRelocks, WaitReturns, WaitTimesOut, SafeInv
  <2>2. main' \in {"test", "lock", "predicate", "sleep", "asleep", "relock", "return", "drain"}
    BY <1>6 DEF MainRuns, MainGoto, LoopTest, WaitLocks, WaitPredicate, WaitSleeps,
                WaitRelocks, WaitReturns, WaitTimesOut, SafeInv
  <2> QED BY <2>1, <2>2 DEF SafeInv, Frames
<1>7. CASE UNCHANGED vars
  BY <1>7 DEF vars, SafeInv, Frames
<1> QED BY <1>1, <1>3, <1>4, <1>5, <1>6, <1>7 DEF Next, HandlerStep

(* The invariant of signal frames, mu_ and main()'s loop holds in every reachable
   state. *)
LEMMA SafeInvariance == Spec => []SafeInv
<1>1. SafeInv /\ [Next]_vars => SafeInv'
  BY StepSafe
<1> QED BY <1>1, InitSafe, PTL DEF Spec

(* The state keeps its types; no thread runs two handlers of one signal. *)
THEOREM ShutdownTypes == Spec => []TypeOK
<1>1. ASSUME SafeInv PROVE TypeOK
  <2>1. frames \in [Threads -> Seq(Frame)]
    BY <1>1 DEF SafeInv, Frames
  <2>2. ASSUME NEW t \in Threads, NEW i \in DOMAIN frames[t], NEW j \in DOMAIN frames[t],
               frames[t][i].signal = frames[t][j].signal
        PROVE  i = j
    <3>1. Stack(frames[t]) /\ frames[t] \in Seq(Frame)
      BY <1>1, <2>1 DEF SafeInv, Frames
    <3>2. i \in 1..Len(frames[t]) /\ j \in 1..Len(frames[t])
      BY <3>1
    <3> QED BY <2>2, <3>1, <3>2 DEF Stack
  <2> QED BY Zenon, <1>1, <2>1, <2>2 DEF SafeInv, Frame, Places, TypeOK
<1> QED BY <1>1, SafeInvariance, PTL

-----------------------------------------------------------------------------
(* Mutual exclusion on mu_, lost wake-ups and what may stall a request. *)

(* The frames of thread t whose next step is at place. *)
Levels(t, place) == {i \in 1..Len(frames[t]) : frames[t][i].at = place}

(* main() is between the lock and the unlock of wait(). *)
InWait == main \in {"predicate", "sleep", "return"}

(* mu_ is held by one handler frame or by wait(), and by the thread it names. *)
MutexInv ==
    /\ \A t \in Threads : Levels(t, "notify") # {} => mu = t
    /\ InWait => mu = Main
    /\ \A t \in Threads : \A i, j \in Levels(t, "notify") : i = j
    /\ InWait => Levels(Main, "notify") = {}
    /\ mu # Nobody => Levels(mu, "notify") # {} \/ (mu = Main /\ InWait)

WakeupInv ==
    requested /\ main \in {"sleep", "asleep"} =>
        \E t \in Threads : Levels(t, "lock") \cup Levels(t, "notify") # {}

(* A delivery adds a frame that is neither waiting for mu_ nor holding it. *)
LEMMA DeliverLevels ==
    ASSUME SafeInv, NEW t \in Targets, NEW s \in Signals, Deliver(t, s)
    PROVE  \A u \in Threads, place \in {"lock", "notify"} : Levels(u, place)' = Levels(u, place)
<1>1. t \in Threads /\ frames[t] \in Seq(Frame) /\ Len(frames[t]) \in Nat
  BY MainAssumption DEF SafeInv, Frames
<1> DEFINE n == [signal |-> s, at |-> "store"]
<1>2. frames' = [frames EXCEPT ![t] = Append(frames[t], n)] /\ n.at = "store"
  BY DEF Deliver
<1>3. \A u \in Threads : frames'[u] = IF u = t THEN Append(frames[t], n) ELSE frames[u]
  BY <1>2 DEF SafeInv, Frames
<1> HIDE DEF n
<1>4. /\ Len(Append(frames[t], n)) = Len(frames[t]) + 1
      /\ Append(frames[t], n)[Len(frames[t]) + 1] = n
      /\ \A i \in 1..Len(frames[t]) : Append(frames[t], n)[i] = frames[t][i]
  BY <1>1
<1>5. ASSUME NEW place \in {"lock", "notify"} PROVE Levels(t, place)' = Levels(t, place)
  <2>1. Levels(t, place)' = {i \in 1..(Len(frames[t]) + 1) : Append(frames[t], n)[i].at = place}
    BY Zenon, <1>1, <1>3, <1>4 DEF Levels
  <2>2. ASSUME NEW i PROVE i \in Levels(t, place)' <=> i \in Levels(t, place)
    <3>1. CASE i = Len(frames[t]) + 1
      <4>1. i \notin 1..Len(frames[t])
        BY <1>1, <3>1
      <4> QED BY <1>2, <1>4, <2>1, <3>1, <4>1 DEF Levels
    <3>2. CASE i # Len(frames[t]) + 1
      <4>1. i \in 1..(Len(frames[t]) + 1) <=> i \in 1..Len(frames[t])
        BY <1>1, <3>2
      <4> QED BY <1>4, <2>1, <4>1 DEF Levels
    <3> QED BY <3>1, <3>2
  <2> QED BY <2>2
<1> QED BY <1>3, <1>5 DEF Levels

(* A handler that goes on moves its innermost frame from one place to the next. *)
LEMMA AdvanceLevels ==
    ASSUME SafeInv, NEW t \in Threads, NEW from \in Places, At(t, from), NEW to \in Places, Advance(t, to), to # from
    PROVE  /\ Len(frames[t]) \in Levels(t, from)
           /\ Levels(t, from)' = Levels(t, from) \ {Len(frames[t])}
           /\ Levels(t, to)' = Levels(t, to) \cup {Len(frames[t])}
           /\ \A place \in Places \ {from, to} : Levels(t, place)' = Levels(t, place)
           /\ \A u \in Threads \ {t}, place \in Places : Levels(u, place)' = Levels(u, place)
<1> DEFINE k == Len(frames[t])
           q == [frames[t] EXCEPT ![k].at = to]
<1>1. frames[t] \in Seq(Frame) /\ k \in 1..k /\ frames[t][k].at = from
  BY DEF SafeInv, Frames, At, Interrupted, Top
<1>2. \A u \in Threads : frames'[u] = IF u = t THEN q ELSE frames[u]
  BY DEF SafeInv, Frames, Advance
<1>3. frames[t][k] \in Frame /\ [frames[t][k] EXCEPT !.at = to].at = to
  <2>1. frames[t][k] \in Frame
    BY <1>1
  <2>2. ASSUME NEW f \in Frame PROVE [f EXCEPT !.at = to].at = to
    BY DEF Frame
  <2> QED BY <2>1, <2>2
<1>4. Len(q) = k /\ q[k].at = to /\ \A i \in 1..k : i # k => q[i] = frames[t][i]
  BY <1>1, <1>3
<1> HIDE DEF q
<1>5. \A place \in Places : Levels(t, place)' = {i \in 1..k : q[i].at = place}
  BY <1>2, <1>4 DEF Levels
<1>6. \A u \in Threads \ {t}, place \in Places : Levels(u, place)' = Levels(u, place)
  BY <1>2 DEF Levels
<1> QED BY <1>1, <1>4, <1>5, <1>6 DEF Levels

(* A handler that returns takes its frame with it. *)
LEMMA NotifyLevels ==
    ASSUME SafeInv, NEW t \in Threads, RequestNotifies(t)
    PROVE  /\ Len(frames[t]) \in Levels(t, "notify")
           /\ Levels(t, "notify")' = Levels(t, "notify") \ {Len(frames[t])}
           /\ Levels(t, "lock")' = Levels(t, "lock")
           /\ \A u \in Threads \ {t}, place \in Places : Levels(u, place)' = Levels(u, place)
<1> DEFINE k == Len(frames[t])
           q == SubSeq(frames[t], 1, k - 1)
<1>1. frames[t] \in Seq(Frame) /\ k \in Nat /\ k \in 1..k /\ frames[t][k].at = "notify"
  BY DEF SafeInv, Frames, RequestNotifies, At, Interrupted, Top
<1>2. \A u \in Threads : frames'[u] = IF u = t THEN q ELSE frames[u]
  BY DEF SafeInv, Frames, RequestNotifies
<1>3. Len(q) = k - 1 /\ \A i \in 1..(k - 1) : q[i] = frames[t][i]
  BY <1>1, Popped
<1> HIDE DEF q
<1>4. \A place \in Places : Levels(t, place)' = {i \in 1..(k - 1) : q[i].at = place}
  BY <1>2, <1>3 DEF Levels
<1>5. \A i : i \in 1..(k - 1) <=> i \in 1..k /\ i # k
  BY <1>1
<1>6. \A u \in Threads \ {t}, place \in Places : Levels(u, place)' = Levels(u, place)
  BY <1>2 DEF Levels
<1>7. \A place \in Places : Levels(t, place)' = Levels(t, place) \ {k}
  BY <1>3, <1>4, <1>5 DEF Levels
<1>8. k \in Levels(t, "notify") /\ k \notin Levels(t, "lock")
  BY <1>1 DEF Levels
<1> QED BY Zenon, <1>6, <1>7, <1>8 DEF Places

(* mu_ is free, so no frame and no wait() is inside: there is room for one. *)
LEMMA FreeMutex ==
    ASSUME SafeInv, MutexInv, mu = Nobody
    PROVE  ~InWait /\ \A t \in Threads : Levels(t, "notify") = {}
BY MainAssumption, NobodyAssumption DEF MutexInv

(* No step of a handler or of wait() breaks mutual exclusion on mu_, and none
   leaves main() asleep on a request with nobody left to notify it. *)
LEMMA StepMutex ==
    ASSUME SafeInv, MutexInv, WakeupInv, [Next]_vars
    PROVE  MutexInv' /\ WakeupInv'
<1>1. ASSUME NEW t \in Targets, NEW s \in Signals, Deliver(t, s) PROVE MutexInv' /\ WakeupInv'
  <2>1. \A u \in Threads, place \in {"lock", "notify"} : Levels(u, place)' = Levels(u, place)
    BY <1>1, DeliverLevels
  <2>2. UNCHANGED <<requested, mu, main>>
    BY <1>1 DEF Deliver
  <2>3. mu # Nobody => mu \in Threads
    BY DEF SafeInv
  <2> QED BY <2>1, <2>2, <2>3, MainAssumption DEF MutexInv, WakeupInv, InWait
<1>2. ASSUME NEW t \in Threads, RequestStores(t) PROVE MutexInv' /\ WakeupInv'
  <2>1. At(t, "store") /\ Advance(t, "lock") /\ UNCHANGED <<mu, main>>
    BY <1>2 DEF RequestStores
  <2>2. /\ Levels(t, "lock")' = Levels(t, "lock") \cup {Len(frames[t])}
        /\ Levels(t, "notify")' = Levels(t, "notify")
        /\ \A u \in Threads \ {t} : Levels(u, "notify")' = Levels(u, "notify")
    BY <2>1, AdvanceLevels DEF Places
  <2>3. \A u \in Threads : Levels(u, "notify")' = Levels(u, "notify")
    BY <2>2
  <2>4. MutexInv'
    <3>1. mu # Nobody => mu \in Threads
      BY DEF SafeInv
    <3> QED BY <2>1, <2>3, <3>1, MainAssumption DEF MutexInv, InWait
  <2>5. WakeupInv'
    BY Zenon, <2>2 DEF WakeupInv
  <2> QED BY <2>4, <2>5
<1>3. ASSUME NEW t \in Threads, RequestLocks(t) PROVE MutexInv' /\ WakeupInv'
  <2>1. At(t, "lock") /\ Advance(t, "notify") /\ mu = Nobody /\ mu' = t /\ main' = main
    BY <1>3 DEF RequestLocks
  <2>2. ~InWait /\ \A u \in Threads : Levels(u, "notify") = {}
    BY <2>1, FreeMutex
  <2>3. Levels(t, "notify")' = {Len(frames[t])} /\ \A u \in Threads \ {t} : Levels(u, "notify")' = {}
    BY <2>1, <2>2, AdvanceLevels DEF Places
  <2>4. MutexInv'
    <3>1. ~InWait'
      BY <2>1, <2>2 DEF InWait
    <3>2. \A u \in Threads : Levels(u, "notify")' # {} => u = t
      BY <2>3
    <3>3. \A u \in Threads : \A i, j \in Levels(u, "notify")' : i = j
      BY <2>3
    <3>4. (Levels(mu, "notify") # {})'
      BY Zenon, <2>1, <2>3 DEF Levels
    <3> QED BY <2>1, <3>1, <3>2, <3>3, <3>4 DEF MutexInv
  <2> QED BY Zenon, <2>3, <2>4 DEF WakeupInv
<1>4. ASSUME NEW t \in Threads, RequestNotifies(t) PROVE MutexInv' /\ WakeupInv'
  <2>1. mu' = Nobody /\ main' = IF main = "asleep" THEN "relock" ELSE main
    BY <1>4 DEF RequestNotifies
  <2>2. /\ Len(frames[t]) \in Levels(t, "notify")
        /\ Levels(t, "notify")' = Levels(t, "notify") \ {Len(frames[t])}
        /\ \A u \in Threads \ {t} : Levels(u, "notify")' = Levels(u, "notify")
    BY <1>4, NotifyLevels DEF Places
  <2>3. mu = t /\ \A i, j \in Levels(t, "notify") : i = j
    BY <2>2 DEF MutexInv
  <2>4. ~InWait
    BY <2>2, <2>3 DEF MutexInv
  <2>5. \A u \in Threads : Levels(u, "notify")' = {}
    BY <2>2, <2>3 DEF MutexInv
  <2>6. MutexInv'
    BY <2>1, <2>4, <2>5, MainAssumption DEF MutexInv, InWait
  <2>7. main' \notin {"sleep", "asleep"}
    BY <2>1, <2>4 DEF InWait
  <2> QED BY <2>6, <2>7 DEF WakeupInv
<1>5. ASSUME MainRuns \/ WaitTimesOut PROVE MutexInv' /\ WakeupInv'
  <2>1. UNCHANGED <<frames, requested>>
    BY <1>5 DEF MainRuns, LoopTest, WaitLocks, WaitPredicate, WaitSleeps, WaitRelocks,
                WaitReturns, WaitTimesOut
  <2>2. \A t, place : Levels(t, place)' = Levels(t, place)
    BY <2>1 DEF Levels
  <2>3. WakeupInv'
    <3>1. main' \in {"sleep", "asleep"} =>
             main \in {"sleep", "asleep"} \/ ~requested
      BY <1>5 DEF MainRuns, MainGoto, LoopTest, WaitLocks, WaitPredicate, WaitSleeps,
                  WaitRelocks, WaitReturns, WaitTimesOut
    <3> QED BY <2>1, <2>2, <3>1 DEF WakeupInv
  <2>4. CASE WaitLocks \/ WaitRelocks
    <3>1. mu = Nobody /\ mu' = Main /\ InWait'
      BY <2>4 DEF WaitLocks, WaitRelocks, MainGoto, InWait
    <3>2. \A t \in Threads : Levels(t, "notify")' = {}
      BY <2>2, <3>1, FreeMutex
    <3>3. MutexInv'
      BY <3>1, <3>2, MainAssumption DEF MutexInv
    <3> QED BY <2>3, <3>3
  <2>5. CASE WaitSleeps \/ WaitReturns
    <3>1. InWait /\ mu' = Nobody /\ ~InWait'
      BY <2>5 DEF WaitSleeps, WaitReturns, MainGoto, InWait
    <3>2. \A t \in Threads : Levels(t, "notify")' = {}
      BY <2>2, <3>1 DEF MutexInv
    <3>3. MutexInv'
      BY <3>1, <3>2 DEF MutexInv
    <3> QED BY <2>3, <3>3
  <2>6. CASE LoopTest \/ WaitPredicate \/ WaitTimesOut
    <3>1. mu' = mu /\ InWait' = InWait
      BY <2>6 DEF LoopTest, WaitPredicate, WaitTimesOut, MainGoto, InWait
    <3>2. MutexInv'
      BY <2>2, <3>1 DEF MutexInv
    <3> QED BY <2>3, <3>2
  <2> QED BY <1>5, <2>4, <2>5, <2>6 DEF MainRuns
<1>6. CASE UNCHANGED vars
  BY <1>6 DEF vars, MutexInv, WakeupInv, InWait, Levels
<1> QED BY <1>1, <1>2, <1>3, <1>4, <1>5, <1>6 DEF Next, HandlerStep

(* Mutual exclusion on mu_ and the wake-up invariant hold in every reachable state. *)
LEMMA MutexInvariance == Spec => [](SafeInv /\ MutexInv /\ WakeupInv)
<1>1. Init => MutexInv /\ WakeupInv
  BY DEF Init, MutexInv, WakeupInv, InWait, Levels
<1>2. SafeInv /\ MutexInv /\ WakeupInv /\ [Next]_vars => MutexInv' /\ WakeupInv'
  BY StepMutex
<1> QED BY <1>1, <1>2, SafeInvariance, PTL DEF Spec

(* No request is slept through, on whichever threads, however often and however
   deeply nested the signals come: a main() asleep on a request has a notify_all()
   coming.  It does not need the one-second timer. *)
THEOREM NoWakeupLost == Spec => []NoLostWakeup
<1>1. ASSUME SafeInv, WakeupInv PROVE NoLostWakeup
  <2>1. ASSUME NEW t \in Threads, Levels(t, "lock") \cup Levels(t, "notify") # {}
        PROVE  Notifying(t)
    <3>1. frames[t] \in Seq(Frame)
      BY <1>1 DEF SafeInv, Frames
    <3>2. DOMAIN frames[t] = 1..Len(frames[t])
      BY <3>1
    <3> QED BY <2>1, <3>2 DEF Levels, Notifying
  <2> QED BY <1>1, <2>1 DEF WakeupInv, NoLostWakeup
<1> QED BY <1>1, MutexInvariance, PTL

(* The innermost frame of an interrupted thread is at one of the steps of request(). *)
LEMMA TopFrame ==
    ASSUME SafeInv, NEW t \in Threads, Interrupted(t)
    PROVE  /\ Len(frames[t]) \in 1..Len(frames[t]) /\ DOMAIN frames[t] = 1..Len(frames[t])
           /\ At(t, "store") \/ At(t, "lock") \/ At(t, "notify")
           /\ \A place \in Places : At(t, place) <=> Len(frames[t]) \in Levels(t, place)
<1>1. frames[t] \in Seq(Frame) /\ frames[t] # <<>>
  BY DEF SafeInv, Frames, Interrupted
<1>2. Len(frames[t]) \in 1..Len(frames[t]) /\ DOMAIN frames[t] = 1..Len(frames[t])
  BY <1>1
<1>3. frames[t][Len(frames[t])] \in Frame
  BY <1>1, <1>2
<1>4. frames[t][Len(frames[t])].at \in Places
  BY <1>3 DEF Frame
<1> QED BY <1>2, <1>4 DEF At, Top, Places, Levels

(* A request is never stuck but on a handler that waits for its own thread: for any
   threads, signals that reach any of them, and any nesting of the handlers. *)
THEOREM OnlySelfDeadlockStalls == Spec => []StuckOnlyOnItself
<1>1. ASSUME SafeInv, MutexInv, WakeupInv PROVE StuckOnlyOnItself
  <2> SUFFICES ASSUME requested, main # "drain", ~SomeoneRuns
               PROVE  \E t \in Threads : SelfDeadlock(t)
    BY DEF StuckOnlyOnItself
  <2>1. \A t \in Threads : Interrupted(t) => At(t, "lock") /\ mu # Nobody
    BY Zenon, <1>1, TopFrame DEF SomeoneRuns
  <2>2. CASE mu = Nobody
    <3>1. \A t \in Threads : ~Interrupted(t)
      BY <2>1, <2>2
    <3>2. main = "asleep"
      BY <1>1, <2>2, <3>1, MainAssumption DEF SomeoneRuns, SafeInv
    <3>3. PICK t \in Threads : Levels(t, "lock") \cup Levels(t, "notify") # {}
      BY Zenon, <1>1, <3>2 DEF WakeupInv
    <3>4. frames[t] = <<>>
      BY <3>1 DEF Interrupted
    <3> QED BY <3>3, <3>4 DEF Levels
  <2>3. CASE mu # Nobody
    <3>1. mu \in Threads
      BY <1>1, <2>3 DEF SafeInv
    <3>2. Interrupted(mu)
      <4>1. CASE Levels(mu, "notify") # {}
        BY <4>1 DEF Levels, Interrupted
      <4>2. CASE mu = Main /\ InWait
        BY Zenon, <4>2 DEF SomeoneRuns, InWait
      <4> QED BY <1>1, <2>3, <4>1, <4>2 DEF MutexInv
    <3> QED BY <2>1, <3>1, <3>2 DEF SelfDeadlock
  <2> QED BY <2>2, <2>3
<1> QED BY <1>1, MutexInvariance, PTL

(* A handler waits for its own thread only when it interrupted main() inside wait(),
   or the handler of the other signal with mu_ held: one signal that reaches only
   worker threads never stalls. *)
THEOREM SelfDeadlockNeedsNesting == Spec => []SelfDeadlockByNesting
<1>1. ASSUME SafeInv, MutexInv, NEW t \in Threads, SelfDeadlock(t)
      PROVE  \/ t = Main /\ main \in {"predicate", "sleep", "return"}
             \/ \E i \in DOMAIN frames[t] : i # Len(frames[t]) /\ frames[t][i].at = "notify"
  <2>1. At(t, "lock") /\ mu = t /\ Interrupted(t) /\ mu # Nobody
    BY <1>1, NobodyAssumption DEF SelfDeadlock, At
  <2>2. ~At(t, "notify")
    BY <2>1 DEF At
  <2>3. /\ Len(frames[t]) \notin Levels(t, "notify")
        /\ DOMAIN frames[t] = 1..Len(frames[t])
    BY Zenon, <1>1, <2>1, <2>2, TopFrame DEF Places
  <2>4. Levels(t, "notify") # {} \/ (t = Main /\ InWait)
    BY <1>1, <2>1 DEF MutexInv
  <2> QED BY <2>3, <2>4 DEF Levels, InWait
<1>2. SafeInv /\ MutexInv => SelfDeadlockByNesting
  BY Zenon, <1>1 DEF SelfDeadlockByNesting
<1> QED BY <1>2, MutexInvariance, PTL
=============================================================================
