----------------------------- MODULE BackendSet -----------------------------
(***************************************************************************)
(* BackendSet: the weighted pick of a backend and its load accounting.      *)
(* The scan of pick_lowest_load_locked_ is one action per atomic load:      *)
(* pick_mu_ keeps other borrowers out of it, but release() and a failed     *)
(* borrow() decrement the counters it reads without taking that mutex.      *)
(* The pools behind it are module BackendPool; here their borrow() succeeds *)
(* or fails.                                                                *)
(***************************************************************************)
EXTENDS Integers, FiniteSets

CONSTANTS
    Callers,   \* threads that call borrow() and release()
    N,         \* pools_.size(); main() never leaves it 0
    Specified, \* Specified[i]: BackendSpec::weight of backend i
    Wrap,      \* 2^64, the range of the products
    NoCaller

Backends == 0..(N - 1)

(* weights_: the constructor turns 0 into 1. *)
Weight == [i \in Backends |-> IF Specified[i] = 0 THEN 1 ELSE Specified[i]]

ASSUME CallersFinite == IsFiniteSet(Callers)
ASSUME SomeBackend == N \in Nat \ {0}
ASSUME SpecifiedNat == Specified \in [Backends -> Nat]
ASSUME NoCallerFresh == NoCaller \notin Callers
(* parse_backend_spec() reads a weight as an int and a caller is a thread, so
   no product of a load and a weight comes near 2^64. *)
ASSUME NoOverflow == \A i \in Backends : Cardinality(Callers) * Weight[i] < Wrap
ASSUME WrapNat == Wrap \in Nat

VARIABLES
    in_flight,      \* in_flight_
    pick_mu,        \* the caller that holds pick_mu_
    caller,         \* caller[c]: where c is in borrow() or release()
    idx,            \* idx[c]: the backend c picked
    i, best, best_in_flight,  \* the locals of the scan
    start,          \* in_flight as it was when the scan began
    shrunk          \* some counter has been decremented

scanVars == <<i, best, best_in_flight, start>>
vars == <<in_flight, pick_mu, caller, idx, scanVars, shrunk>>

Places == {"out", "scan", "pool_borrow", "undo", "hold", "decrement"}

Init ==
    /\ in_flight = [b \in Backends |-> 0]
    /\ pick_mu = NoCaller
    /\ caller = [c \in Callers |-> "out"]
    /\ idx = [c \in Callers |-> 0]
    /\ i = 0 /\ best = 0 /\ best_in_flight = 0
    /\ start = in_flight
    /\ shrunk = FALSE

Goto(c, from, to) ==
    /\ caller[c] = from
    /\ caller' = [caller EXCEPT ![c] = to]

-----------------------------------------------------------------------------
(* borrow() *)

(* pick_mu_ is taken and the first counter loaded. *)
Pick(c) ==
    /\ Goto(c, "out", "scan")
    /\ pick_mu = NoCaller
    /\ pick_mu' = c
    /\ best' = 0
    /\ best_in_flight' = in_flight[0]
    /\ i' = 1
    /\ start' = in_flight
    /\ UNCHANGED <<in_flight, idx, shrunk>>

Product(load, weight) == (load * weight) % Wrap

LowerByOwnWeight(cand, weight) ==
    Product(cand, weight) < Product(best_in_flight, Weight[best])

(* cand / weight < best_in_flight / best_weight, cross-multiplied. *)
Lower(cand, weight) ==
    Product(cand, Weight[best]) < Product(best_in_flight, weight)

(* One iteration of the scan: an atomic load and a comparison. *)
Scan(c) ==
    /\ caller[c] = "scan"
    /\ i < N
    /\ IF Lower(in_flight[i], Weight[i])
       THEN best' = i /\ best_in_flight' = in_flight[i]
       ELSE UNCHANGED <<best, best_in_flight>>
    /\ i' = i + 1
    /\ UNCHANGED <<in_flight, pick_mu, caller, idx, start, shrunk>>

BumpScanned(c) ==
    /\ i = N
    /\ Goto(c, "scan", "pool_borrow")
    /\ idx' = [idx EXCEPT ![c] = i - 1]
    /\ in_flight' = [in_flight EXCEPT ![i - 1] = @ + 1]
    /\ pick_mu' = NoCaller
    /\ UNCHANGED <<scanVars, shrunk>>

(* The scan is over: in_flight_[idx] goes up and pick_mu_ is released. *)
Bump(c) ==
    /\ i = N
    /\ Goto(c, "scan", "pool_borrow")
    /\ idx' = [idx EXCEPT ![c] = best]
    /\ in_flight' = [in_flight EXCEPT ![best] = @ + 1]
    /\ pick_mu' = NoCaller
    /\ UNCHANGED <<scanVars, shrunk>>

(* pools_[idx]->borrow() *)
PoolBorrow(c, ok) ==
    /\ Goto(c, "pool_borrow", IF ok THEN "hold" ELSE "undo")
    /\ UNCHANGED <<in_flight, pick_mu, idx, scanVars, shrunk>>

UndoForgotten(c) ==
    /\ Goto(c, "undo", "out")
    /\ UNCHANGED <<in_flight, pick_mu, idx, scanVars, shrunk>>

(* The pool had no connection: the count is taken back. *)
Undo(c) ==
    /\ Goto(c, "undo", "out")
    /\ in_flight' = [in_flight EXCEPT ![idx[c]] = @ - 1]
    /\ shrunk' = TRUE
    /\ UNCHANGED <<pick_mu, idx, scanVars>>

-----------------------------------------------------------------------------
(* release(): first the pool gets its connection back, then the count drops. *)

PoolRelease(c) ==
    /\ Goto(c, "hold", "decrement")
    /\ UNCHANGED <<in_flight, pick_mu, idx, scanVars, shrunk>>

Decrement(c) ==
    /\ Goto(c, "decrement", "out")
    /\ in_flight' = [in_flight EXCEPT ![idx[c]] = @ - 1]
    /\ shrunk' = TRUE
    /\ UNCHANGED <<pick_mu, idx, scanVars>>

CallerStep(c) ==
    \/ Pick(c)
    \/ Scan(c)
    \/ Bump(c)
    \/ \E ok \in BOOLEAN : PoolBorrow(c, ok)
    \/ Undo(c)
    \/ PoolRelease(c)
    \/ Decrement(c)

Next == \E c \in Callers : CallerStep(c)

Spec == Init /\ [][Next]_vars

-----------------------------------------------------------------------------
(* Properties. *)

(* Type invariant. *)
TypeOK ==
    /\ in_flight \in [Backends -> Nat]
    /\ pick_mu \in Callers \cup {NoCaller}
    /\ caller \in [Callers -> Places]
    /\ idx \in [Callers -> Backends]
    /\ i \in 0..N /\ best \in Backends /\ best_in_flight \in Nat
    /\ start \in [Backends -> Nat]
    /\ shrunk \in BOOLEAN

Charged == {"pool_borrow", "undo", "hold", "decrement"}

(* in_flight_[b] is the number of callers that picked b and have not yet given
   it back or failed: no increment is lost, none is taken back twice, and no
   counter goes below zero, which for a uint64 would be 2^64 - 1. *)
LoadExact ==
    \A b \in Backends :
        in_flight[b] = Cardinality({c \in Callers : caller[c] \in Charged /\ idx[c] = b})

(* backend_set.h:19-20: borrow() "selects the backend with the smallest
   effective load"; "Ties are broken by lowest backend index".  The counters
   move during the scan, so what holds is this: when the scan is over, the load
   of the chosen backend is not above the load any other one had when the scan
   began, and below it for those with a lower index. *)
PickJustified ==
    \A c \in Callers : caller[c] = "scan" /\ i = N =>
        \A b \in Backends :
            /\ in_flight[best] * Weight[b] <= start[b] * Weight[best]
            /\ b < best => in_flight[best] * Weight[b] < start[b] * Weight[best]

(* backend_set.h:33-35: without the mutex two borrowers would "both pick the
   same `lowest' pool, destroying the weighted distribution".  With it, as long
   as nothing has been released, no backend is more than one connection above
   its weighted share.  docs/pool.md:86-90 describes a pick without the lock that
   lets two borrowers "race onto the same" pool; backend_set.cpp:60-66 does not. *)
WeightedShare ==
    ~shrunk => \A a, b \in Backends : (in_flight[a] - 1) * Weight[b] <= in_flight[b] * Weight[a]
=============================================================================
