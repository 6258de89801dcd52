-------------------------- MODULE BackendSetProofs --------------------------
(***************************************************************************)
(* Proofs about BackendSet, for any number of callers and backends and any  *)
(* weights whose products with the number of callers fit the counter type.  *)
(***************************************************************************)
EXTENDS BackendSet, FiniteSetTheorems, TLAPS

On(b) == {c \in Callers : caller[c] \in Charged /\ idx[c] = b}

(* Who scans holds pick_mu_. *)
MutexInv == \A c \in Callers : caller[c] = "scan" => pick_mu = c

(* What the scan knows of the backends it has been past.  The counters may only
   have gone down since it began. *)
ScanInv ==
    pick_mu # NoCaller =>
        /\ i \in 1..N /\ best < i
        /\ \A b \in Backends : in_flight[b] <= start[b]
        /\ in_flight[best] <= best_in_flight
        /\ best_in_flight <= start[best]
        /\ best_in_flight <= Cardinality(Callers)
        /\ \A b \in Backends : b < i => best_in_flight * Weight[b] <= start[b] * Weight[best]
        /\ \A b \in Backends : b < best => best_in_flight * Weight[b] < start[b] * Weight[best]
        /\ ~shrunk => in_flight = start

(* The inductive invariant. *)
IInv == TypeOK /\ LoadExact /\ MutexInv /\ ScanInv /\ WeightedShare

-----------------------------------------------------------------------------
(* Arithmetic. *)

(* The product of a load and a weight is a natural number. *)
LEMMA TimesNat == \A x, y \in Nat : x * y \in Nat
OBVIOUS

(* A smaller factor gives no larger product. *)
LEMMA TimesMono ==
    ASSUME NEW x \in Nat, NEW y \in Nat, NEW w \in Nat, x <= y
    PROVE  x * w <= y * w
<1>1. (y - x) * w \in Nat
  BY SMT
<1>2. (y - x) * w = y * w - x * w
  BY SMT
<1> QED BY <1>1, <1>2, TimesNat, SMT

(* Scaling two loads by the same weight keeps their order. *)
LEMMA TimesStrict ==
    ASSUME NEW x \in Nat, NEW y \in Nat, NEW w \in Nat \ {0}
    PROVE  x < y <=> x * w < y * w
<1>1. CASE x < y
  <2>1. (y - x) * w >= w
    <3>1. (y - x - 1) * w \in Nat
      BY <1>1, SMT
    <3>2. (y - x - 1) * w = (y - x) * w - w
      BY SMT
    <3> QED BY <3>1, <3>2, SMT
  <2>2. (y - x) * w = y * w - x * w
    BY SMT
  <2> QED BY <1>1, <2>1, <2>2, TimesNat, SMT
<1>2. CASE ~(x < y)
  <2>1. y * w <= x * w
    BY <1>2, TimesMono
  <2> QED BY <1>2, <2>1, TimesNat, SMT
<1> QED BY <1>1, <1>2

(* Comparing loads by cross-multiplication is transitive: x/q < y/p and
   y/p <= z/r give x/q < z/r. *)
LEMMA CrossTransitive ==
    ASSUME NEW x \in Nat, NEW y \in Nat, NEW z \in Nat,
           NEW p \in Nat \ {0}, NEW q \in Nat \ {0}, NEW r \in Nat \ {0},
           x * p < y * q, y * r <= z * p
    PROVE  x * r < z * q
<1>1. (x * p) * r < (y * q) * r
  BY TimesStrict, TimesNat
<1>2. (y * r) * q <= (z * p) * q
  BY TimesMono, TimesNat
<1>3. (x * p) * r = (x * r) * p /\ (y * q) * r = (y * r) * q /\ (z * p) * q = (z * q) * p
  BY SMT
<1>4. (x * r) * p < (z * q) * p
  <2>1. (x * r) * p \in Nat /\ (y * r) * q \in Nat /\ (z * q) * p \in Nat
    BY TimesNat
  <2> QED BY <1>1, <1>2, <1>3, <2>1
<1> QED BY <1>4, TimesStrict, TimesNat

(* The constructor leaves no weight 0. *)
LEMMA WeightPositive == Weight \in [Backends -> Nat \ {0}]
BY SpecifiedNat DEF Weight

(* The products of the comparison do not wrap. *)
LEMMA ProductExact ==
    ASSUME NEW load \in Nat, load <= Cardinality(Callers), NEW b \in Backends
    PROVE  Product(load, Weight[b]) = load * Weight[b]
<1> DEFINE w == Weight[b]
           n == Cardinality(Callers)
<1>1. w \in Nat /\ n \in Nat
  BY WeightPositive, CallersFinite, FS_CardinalityType
<1>2. load * w <= n * w
  BY <1>1, TimesMono
<1>3. n * w < Wrap
  BY NoOverflow
<1>4. load * w \in Nat /\ n * w \in Nat
  BY <1>1, TimesNat
<1>5. load * w \in Nat /\ load * w < Wrap
  BY <1>2, <1>3, <1>4, WrapNat
<1> HIDE DEF w
<1> DEFINE m == load * w
<1>6. m \in Nat /\ m < Wrap
  BY <1>5
<1> HIDE DEF m
<1>7. m % Wrap = m
  BY <1>6, WrapNat
<1> QED BY <1>7 DEF Product, m, w

-----------------------------------------------------------------------------
(* Counting. *)

(* The callers charged to a backend are a finite set, no larger than all callers. *)
LEMMA OnCounts ==
    ASSUME NEW b \in Backends
    PROVE  /\ IsFiniteSet(On(b))
           /\ Cardinality(On(b)) \in Nat
           /\ Cardinality(On(b)) <= Cardinality(Callers)
BY CallersFinite, FS_Subset, FS_CardinalityType DEF On

(* No counter exceeds the number of callers. *)
LEMMA LoadBounded ==
    ASSUME LoadExact, NEW b \in Backends
    PROVE  in_flight[b] \in Nat /\ in_flight[b] <= Cardinality(Callers)
<1>1. in_flight[b] = Cardinality(On(b))
  BY DEF LoadExact, On
<1> QED BY <1>1, OnCounts

(* A step of c that neither picks nor gives back. *)
LEMMA LoadKept ==
    ASSUME TypeOK, LoadExact, NEW c \in Callers, NEW v \in Places,
           caller' = [caller EXCEPT ![c] = v], caller[c] \in Charged <=> v \in Charged,
           UNCHANGED <<in_flight, idx>>
    PROVE  LoadExact'
<1>1. ASSUME NEW b \in Backends PROVE On(b)' = On(b)
  BY <1>1 DEF On, TypeOK
<1> QED BY <1>1 DEF LoadExact, On

(* c is charged to backend b. *)
LEMMA LoadCharged ==
    ASSUME TypeOK, LoadExact, NEW c \in Callers, NEW a \in Backends,
           caller[c] \notin Charged,
           caller' = [caller EXCEPT ![c] = "pool_borrow"],
           idx' = [idx EXCEPT ![c] = a],
           in_flight' = [in_flight EXCEPT ![a] = @ + 1]
    PROVE  LoadExact'
<1> SUFFICES ASSUME NEW b \in Backends PROVE in_flight'[b] = Cardinality(On(b)')
  BY DEF LoadExact, On
<1>1. in_flight[b] = Cardinality(On(b)) /\ in_flight \in [Backends -> Nat]
  BY DEF LoadExact, On, TypeOK
<1>2. CASE b = a
  <2>1. On(b)' = On(b) \cup {c} /\ c \notin On(b)
    BY <1>2 DEF On, TypeOK, Charged
  <2>2. Cardinality(On(b)') = Cardinality(On(b)) + 1
    BY Zenon, <2>1, OnCounts, FS_AddElement
  <2> QED BY <1>1, <1>2, <2>2
<1>3. CASE b # a
  <2>1. On(b)' = On(b)
    BY <1>3 DEF On, TypeOK, Charged
  <2> QED BY <1>1, <1>3, <2>1
<1> QED BY <1>2, <1>3

(* The two places that take a count back, Undo and Decrement. *)
Drops(c) ==
    /\ caller[c] \in Charged
    /\ caller' = [caller EXCEPT ![c] = "out"]
    /\ in_flight' = [in_flight EXCEPT ![idx[c]] = @ - 1]
    /\ shrunk' = TRUE
    /\ UNCHANGED <<pick_mu, idx, scanVars>>

(* release() and the undo of a failed borrow() keep the loads exact and raise none. *)
LEMMA LoadDropped ==
    ASSUME TypeOK, LoadExact, NEW c \in Callers, Drops(c)
    PROVE  /\ LoadExact'
           /\ in_flight' \in [Backends -> Nat]
           /\ \A b \in Backends : in_flight'[b] <= in_flight[b]
<1> PICK a \in Backends : a = idx[c]
  BY DEF TypeOK
<1>1. a \in Backends /\ a = idx[c] /\ in_flight \in [Backends -> Nat]
  BY DEF TypeOK
<1>2. \A b \in Backends : in_flight[b] = Cardinality(On(b))
  BY DEF LoadExact, On
<1>3. On(a)' = On(a) \ {c} /\ c \in On(a)
  BY <1>1 DEF On, TypeOK, Charged, Drops
<1>4. Cardinality(On(a)') = Cardinality(On(a)) - 1 /\ Cardinality(On(a)') \in Nat
  <2>1. IsFiniteSet(On(a))
    BY <1>1, OnCounts
  <2>2. IsFiniteSet(On(a)')
    BY <1>3, <2>1, FS_RemoveElement
  <2> QED BY <1>3, <2>1, <2>2, FS_RemoveElement, FS_CardinalityType
<1>5. \A b \in Backends : b # a => On(b)' = On(b)
  BY <1>1 DEF On, TypeOK, Charged, Drops
<1>6. in_flight'[a] = in_flight[a] - 1 /\ \A b \in Backends : b # a => in_flight'[b] = in_flight[b]
  BY <1>1 DEF Drops
<1>7. \A b \in Backends : in_flight'[b] = Cardinality(On(b)')
  BY <1>1, <1>2, <1>4, <1>5, <1>6
<1>8. in_flight'[a] \in Nat
  BY <1>1, <1>4, <1>7
<1>9. in_flight' \in [Backends -> Nat]
  BY <1>1, <1>6, <1>8 DEF Drops
<1>10. \A b \in Backends : in_flight'[b] <= in_flight[b]
  BY <1>1, <1>6
<1> QED BY <1>7, <1>9, <1>10 DEF LoadExact, On

-----------------------------------------------------------------------------
(* The steps. *)

(* The invariant holds when the constructor returns. *)
LEMMA InitInv == Init => IInv
<1> SUFFICES ASSUME Init PROVE IInv
  OBVIOUS
<1>1. TypeOK
  <2>1. 0 \in Backends /\ 0 \in 0..N
    BY SomeBackend DEF Backends
  <2> QED BY Zenon, <2>1 DEF Init, TypeOK, Places
<1>2. LoadExact
  <2> SUFFICES ASSUME NEW b \in Backends PROVE in_flight[b] = Cardinality(On(b))
    BY DEF LoadExact, On
  <2>1. On(b) = {}
    BY DEF On, Init, Charged
  <2> QED BY <2>1, FS_EmptySet DEF Init
<1>3. MutexInv /\ ScanInv
  BY DEF Init, MutexInv, ScanInv
<1>4. WeightedShare
  <2> SUFFICES ASSUME NEW a \in Backends, NEW b \in Backends
               PROVE  (in_flight[a] - 1) * Weight[b] <= in_flight[b] * Weight[a]
    BY DEF WeightedShare
  <2>1. in_flight[a] = 0 /\ in_flight[b] = 0 /\ Weight[a] \in Nat /\ Weight[b] \in Nat
    BY WeightPositive DEF Init
  <2> QED BY <2>1
<1> QED BY <1>1, <1>2, <1>3, <1>4 DEF IInv

(* Taking pick_mu_ and loading the first counter keeps the invariant. *)
LEMMA PickInv ==
    ASSUME IInv, NEW c \in Callers, Pick(c)
    PROVE  IInv'
<1> USE DEF IInv, Pick, Goto
<1>1. 0 \in Backends /\ in_flight \in [Backends -> Nat]
  BY SomeBackend DEF TypeOK, Backends
<1>2. TypeOK'
  BY <1>1, SomeBackend DEF TypeOK, Places
<1>3. LoadExact'
  BY Zenon, LoadKept DEF Places, Charged
<1>4. MutexInv'
  BY NoCallerFresh DEF MutexInv, TypeOK
<1>5. ScanInv'
  <2>1. best' = 0 /\ i' = 1 /\ best_in_flight' = in_flight[0] /\ start' = in_flight
        /\ in_flight' = in_flight
    OBVIOUS
  <2>2. in_flight[0] <= Cardinality(Callers) /\ in_flight[0] \in Nat
    BY <1>1, LoadBounded
  <2>3. \A b \in Backends : b < 1 => b = 0
    BY DEF Backends
  <2>4. in_flight[0] * Weight[0] <= in_flight[0] * Weight[0]
    <3>1. in_flight[0] * Weight[0] \in Nat
      BY <1>1, <2>2, WeightPositive, TimesNat
    <3> QED BY <3>1
  <2>5. \A b \in Backends : ~(b < 0)
    BY DEF Backends
  <2>6. \A b \in Backends : in_flight[b] <= in_flight[b]
    BY <1>1
  <2> QED BY <1>1, <2>1, <2>2, <2>3, <2>4, <2>5, <2>6, SomeBackend DEF ScanInv
<1>6. WeightedShare'
  BY DEF WeightedShare
<1> QED BY <1>2, <1>3, <1>4, <1>5, <1>6

(* An iteration of the scan keeps the invariant, whatever was released since the
   scan began. *)
LEMMA ScanStepInv ==
    ASSUME IInv, NEW c \in Callers, Scan(c)
    PROVE  IInv'
<1> DEFINE cand == in_flight[i]
<1>1. /\ pick_mu # NoCaller /\ TypeOK /\ LoadExact /\ ScanInv /\ i < N
      /\ i' = i + 1 /\ UNCHANGED <<in_flight, pick_mu, caller, idx, start, shrunk>>
  BY NoCallerFresh DEF IInv, Scan, MutexInv
<1>2. i \in Backends /\ i \in 1..N /\ best \in Backends /\ best < i /\ best_in_flight \in Nat
      /\ in_flight \in [Backends -> Nat] /\ start \in [Backends -> Nat]
  BY <1>1, SomeBackend DEF ScanInv, TypeOK, Backends
<1>3. cand \in Nat /\ cand <= Cardinality(Callers) /\ cand <= start[i] /\ start[i] \in Nat
  BY <1>1, <1>2, LoadBounded DEF ScanInv
<1>4. Weight[i] \in Nat \ {0} /\ Weight[best] \in Nat \ {0}
  BY <1>2, WeightPositive
<1>5. Product(cand, Weight[best]) = cand * Weight[best]
      /\ Product(best_in_flight, Weight[i]) = best_in_flight * Weight[i]
  BY <1>1, <1>2, <1>3, ProductExact DEF ScanInv
<1>6. i' \in 1..N
  BY <1>1, <1>2, SomeBackend
<1>7. TypeOK'
  <2>1. best' \in Backends /\ best_in_flight' \in Nat
    BY <1>2, <1>3 DEF Scan
  <2>2. i' \in 0..N
    BY <1>6, SomeBackend
  <2> QED BY <1>1, <2>1, <2>2 DEF TypeOK
<1>8. LoadExact' /\ MutexInv' /\ WeightedShare'
  BY <1>1 DEF IInv, LoadExact, MutexInv, WeightedShare
<1>9. ScanInv'
  <2>1. \A b \in Backends : b < i' => b < i \/ b = i
    BY <1>1, <1>2 DEF Backends
  <2>2. CASE Lower(cand, Weight[i])
    <3>1. best' = i /\ best_in_flight' = cand
      BY <2>2 DEF Scan
    <3>2. cand * Weight[best] < best_in_flight * Weight[i]
      BY <2>2, <1>5 DEF Lower
    <3>3. ASSUME NEW b \in Backends, b < i
          PROVE  cand * Weight[b] < start[b] * Weight[i]
      <4>1. best_in_flight * Weight[b] <= start[b] * Weight[best]
        BY <1>1, <3>3 DEF ScanInv
      <4>2. Weight[b] \in Nat \ {0} /\ start[b] \in Nat
        BY <1>2, WeightPositive
      <4> QED BY Zenon, <1>2, <1>3, <1>4, <3>2, <4>1, <4>2, CrossTransitive
    <3>4. cand * Weight[i] <= start[i] * Weight[i]
      BY <1>3, <1>4, TimesMono
    <3>5. \A b \in Backends : cand * Weight[b] \in Nat /\ start[b] * Weight[i] \in Nat
      BY <1>2, <1>3, <1>4, WeightPositive, TimesNat
    <3>6. \A b \in Backends : b < i' => cand * Weight[b] <= start[b] * Weight[i]
      BY <2>1, <3>3, <3>4, <3>5
    <3>7. best' < i'
      BY <1>1, <1>2, <3>1
    <3>8. \A b \in Backends : b < i => cand * Weight[b] < start[b] * Weight[i]
      BY <3>3
    <3>9. cand <= cand
      BY <1>3
    <3> HIDE DEF cand
    <3>10. in_flight[i] = cand
      BY DEF cand
    <3> QED BY <1>1, <1>3, <1>6, <3>1, <3>6, <3>7, <3>8, <3>9, <3>10 DEF ScanInv
  <2>3. CASE ~Lower(cand, Weight[i])
    <3>1. UNCHANGED <<best, best_in_flight>>
      BY <2>3 DEF Scan
    <3>2. best_in_flight * Weight[i] <= start[i] * Weight[best]
      <4>1. ~(cand * Weight[best] < best_in_flight * Weight[i])
        BY <2>3, <1>5 DEF Lower
      <4>2. cand * Weight[best] <= start[i] * Weight[best]
        BY <1>3, <1>4, TimesMono
      <4>3. cand * Weight[best] \in Nat /\ best_in_flight * Weight[i] \in Nat
            /\ start[i] * Weight[best] \in Nat
        BY <1>2, <1>3, <1>4, TimesNat
      <4> QED BY <4>1, <4>2, <4>3
    <3>3. best' < i'
      BY <1>1, <1>2, <3>1
    <3> QED BY <1>1, <1>6, <2>1, <3>1, <3>2, <3>3 DEF ScanInv
  <2> QED BY <2>2, <2>3
<1> QED BY <1>7, <1>8, <1>9 DEF IInv

(* Charging the chosen backend keeps the invariant. *)
LEMMA BumpInv ==
    ASSUME IInv, NEW c \in Callers, Bump(c)
    PROVE  IInv'
<1>1. /\ TypeOK /\ LoadExact /\ MutexInv /\ ScanInv /\ WeightedShare
      /\ caller[c] = "scan" /\ pick_mu = c /\ pick_mu # NoCaller /\ i = N
      /\ pick_mu' = NoCaller
      /\ caller' = [caller EXCEPT ![c] = "pool_borrow"]
      /\ idx' = [idx EXCEPT ![c] = best]
      /\ in_flight' = [in_flight EXCEPT ![best] = @ + 1]
      /\ UNCHANGED <<scanVars, shrunk>>
  BY NoCallerFresh DEF IInv, Bump, Goto, MutexInv
<1>2. PICK a \in Backends : a = best
  BY <1>1 DEF TypeOK
<1>3. in_flight \in [Backends -> Nat] /\ in_flight'[a] = in_flight[a] + 1
      /\ \A b \in Backends : b # a => in_flight'[b] = in_flight[b]
  BY <1>1, <1>2 DEF TypeOK
<1>4. TypeOK'
  <2>1. in_flight' \in [Backends -> Nat]
    BY <1>1, <1>2, <1>3
  <2>2. caller' \in [Callers -> Places] /\ idx' \in [Callers -> Backends]
    BY <1>1, <1>2 DEF TypeOK, Places
  <2> QED BY <1>1, <2>1, <2>2 DEF TypeOK, scanVars
<1>5. LoadExact'
  BY Zenon, <1>1, <1>2, LoadCharged DEF Charged
<1>6. MutexInv'
  BY <1>1 DEF MutexInv, TypeOK
<1>7. ScanInv'
  BY <1>1 DEF ScanInv
<1>8. WeightedShare'
  <2> SUFFICES ASSUME ~shrunk, NEW x \in Backends, NEW y \in Backends
               PROVE  (in_flight'[x] - 1) * Weight[y] <= in_flight'[y] * Weight[x]
    BY <1>1 DEF WeightedShare
  <2>1. in_flight[x] \in Nat /\ in_flight[y] \in Nat /\ in_flight'[y] \in Nat
        /\ Weight[x] \in Nat /\ Weight[y] \in Nat /\ in_flight[y] <= in_flight'[y]
    BY <1>3, WeightPositive
  <2>2. in_flight[y] * Weight[x] <= in_flight'[y] * Weight[x]
    BY <2>1, TimesMono
  <2>3. in_flight[y] * Weight[x] \in Nat /\ in_flight'[y] * Weight[x] \in Nat
    BY <2>1, TimesNat
  <2>4. CASE x # a
    <3>1. in_flight'[x] = in_flight[x]
      BY <1>3, <2>4
    <3>2. (in_flight[x] - 1) * Weight[y] <= in_flight[y] * Weight[x]
      BY <1>1 DEF WeightedShare
    <3>3. (in_flight[x] - 1) * Weight[y] \in Int
      BY <2>1
    <3> QED BY <2>2, <2>3, <3>1, <3>2, <3>3
  <2>5. CASE x = a
    <3>1. in_flight'[x] - 1 = in_flight[x]
      BY <1>3, <2>1, <2>5
    <3>2. in_flight[x] <= best_in_flight /\ best_in_flight \in Nat /\ in_flight = start /\ y < i
      BY <1>1, <1>2, <2>5, SomeBackend DEF ScanInv, TypeOK, Backends
    <3>3. best_in_flight * Weight[y] <= in_flight[y] * Weight[x]
      BY <1>1, <1>2, <2>5, <3>2 DEF ScanInv
    <3>4. in_flight[x] * Weight[y] <= best_in_flight * Weight[y]
      BY <2>1, <3>2, TimesMono
    <3>5. in_flight[x] * Weight[y] \in Nat /\ best_in_flight * Weight[y] \in Nat
      BY <2>1, <3>2, TimesNat
    <3> QED BY <2>2, <2>3, <3>1, <3>3, <3>4, <3>5
  <2> QED BY <2>4, <2>5
<1> QED BY <1>4, <1>5, <1>6, <1>7, <1>8 DEF IInv

(* A borrower that fails and a release() move under the scan. *)
LEMMA DropsInv ==
    ASSUME IInv, NEW c \in Callers, Drops(c)
    PROVE  IInv'
<1>1. TypeOK /\ LoadExact /\ MutexInv /\ ScanInv /\ shrunk' = TRUE
      /\ caller' = [caller EXCEPT ![c] = "out"] /\ UNCHANGED <<pick_mu, idx, scanVars>>
  BY DEF IInv, Drops
<1>2. LoadExact' /\ in_flight' \in [Backends -> Nat]
      /\ \A b \in Backends : in_flight'[b] <= in_flight[b]
  BY <1>1, LoadDropped
<1>3. TypeOK'
  BY <1>1, <1>2 DEF TypeOK, scanVars, Places
<1>4. MutexInv'
  BY <1>1 DEF MutexInv, TypeOK
<1>5. ScanInv'
  <2>1. ASSUME pick_mu # NoCaller
        PROVE  /\ \A b \in Backends : in_flight'[b] <= start[b]
               /\ in_flight'[best] <= best_in_flight
    <3>1. /\ \A b \in Backends : in_flight[b] <= start[b]
          /\ in_flight[best] <= best_in_flight
      BY <1>1, <2>1 DEF ScanInv
    <3>2. in_flight \in [Backends -> Nat] /\ start \in [Backends -> Nat] /\ best \in Backends
          /\ best_in_flight \in Nat
      BY <1>1 DEF TypeOK
    <3> QED BY <1>2, <3>1, <3>2
  <2> QED BY <1>1, <2>1 DEF ScanInv, scanVars
<1>6. WeightedShare'
  BY <1>1 DEF WeightedShare
<1> QED BY <1>2, <1>3, <1>4, <1>5, <1>6 DEF IInv

(* A step of c that leaves counters and scan alone. *)
LEMMA PlaceInv ==
    ASSUME IInv, NEW c \in Callers, NEW v \in Charged, caller[c] \in Charged,
           caller' = [caller EXCEPT ![c] = v],
           UNCHANGED <<in_flight, pick_mu, idx, scanVars, shrunk>>
    PROVE  IInv'
<1> USE DEF IInv, scanVars
<1>1. v \in Places /\ v # "scan"
  BY DEF Charged, Places
<1>2. TypeOK'
  BY <1>1 DEF TypeOK
<1>3. LoadExact'
  BY Zenon, <1>1, LoadKept
<1>4. MutexInv'
  BY <1>1 DEF MutexInv, TypeOK
<1>5. ScanInv' /\ WeightedShare'
  BY DEF ScanInv, WeightedShare
<1> QED BY <1>2, <1>3, <1>4, <1>5

(* Every step of borrow() and release() keeps the invariant. *)
LEMMA StepInv == IInv /\ [Next]_vars => IInv'
<1> SUFFICES ASSUME IInv, [Next]_vars PROVE IInv'
  OBVIOUS
<1>1. CASE UNCHANGED vars
  BY <1>1 DEF vars, scanVars, IInv, TypeOK, LoadExact, MutexInv, ScanInv, WeightedShare
<1>2. ASSUME NEW c \in Callers, CallerStep(c) PROVE IInv'
  <2>1. CASE Pick(c)
    BY <2>1, PickInv
  <2>2. CASE Scan(c)
    BY <2>2, ScanStepInv
  <2>3. CASE Bump(c)
    BY <2>3, BumpInv
  <2>4. ASSUME NEW ok \in BOOLEAN, PoolBorrow(c, ok) PROVE IInv'
    BY Zenon, <2>4, PlaceInv DEF PoolBorrow, Goto, Charged
  <2>5. CASE Undo(c)
    <3>1. Drops(c)
      BY <2>5 DEF Undo, Goto, Drops, Charged
    <3> QED BY <3>1, DropsInv
  <2>6. CASE PoolRelease(c)
    BY Zenon, <2>6, PlaceInv DEF PoolRelease, Goto, Charged
  <2>7. CASE Decrement(c)
    <3>1. Drops(c)
      BY <2>7 DEF Decrement, Goto, Drops, Charged
    <3> QED BY <3>1, DropsInv
  <2> QED BY <1>2, <2>1, <2>2, <2>3, <2>4, <2>5, <2>6, <2>7 DEF CallerStep
<1> QED BY <1>1, <1>2 DEF Next

(* When a scan is over, its choice is justified by the loads it began with. *)
LEMMA ScanJustifies == IInv => PickJustified
<1> SUFFICES ASSUME IInv, NEW c \in Callers, caller[c] = "scan", i = N, NEW b \in Backends
             PROVE  /\ in_flight[best] * Weight[b] <= start[b] * Weight[best]
                    /\ b < best => in_flight[best] * Weight[b] < start[b] * Weight[best]
  BY DEF PickJustified
<1>1. TypeOK /\ ScanInv /\ pick_mu # NoCaller
  BY NoCallerFresh DEF IInv, MutexInv
<1>2. b < i
  BY SomeBackend DEF Backends
<1>3. /\ best_in_flight * Weight[b] <= start[b] * Weight[best]
      /\ b < best => best_in_flight * Weight[b] < start[b] * Weight[best]
      /\ in_flight[best] <= best_in_flight
  BY <1>1, <1>2 DEF ScanInv
<1>4. in_flight[best] \in Nat /\ best_in_flight \in Nat /\ start[b] \in Nat
      /\ Weight[b] \in Nat /\ Weight[best] \in Nat
  BY <1>1, WeightPositive DEF TypeOK
<1>5. in_flight[best] * Weight[b] <= best_in_flight * Weight[b]
  BY <1>3, <1>4, TimesMono
<1>6. in_flight[best] * Weight[b] \in Nat /\ best_in_flight * Weight[b] \in Nat
      /\ start[b] * Weight[best] \in Nat
  BY <1>4, TimesNat
<1> QED BY <1>3, <1>5, <1>6

-----------------------------------------------------------------------------
(* The theorems. *)

(* The invariant behind the results on BackendSet holds in every reachable state,
   for any number of callers and backends and any weights. *)
THEOREM Invariance == Spec => []IInv
BY InitInv, StepInv, PTL DEF Spec

(* The variables of borrow() and release() keep their types; no load counter
   goes below zero. *)
THEOREM TypesOK == Spec => []TypeOK
<1>1. IInv => TypeOK
  BY DEF IInv
<1> QED BY <1>1, Invariance, PTL

(* in_flight_ counts the connections lent out or being asked for, exactly, in
   every interleaving of picks, failed borrows and releases. *)
THEOREM LoadsExact == Spec => []LoadExact
<1>1. IInv => LoadExact
  BY DEF IInv
<1> QED BY <1>1, Invariance, PTL

(* pick_lowest_load_locked_ returns a backend of least weighted load although
   releases go on during its scan, and ties go to the lowest index. *)
THEOREM PicksJustified == Spec => []PickJustified
BY ScanJustifies, Invariance, PTL

(* Until something is released, no backend is more than one connection above
   its weighted share: pick and increment are one step under pick_mu_. *)
THEOREM SharesWeighted == Spec => []WeightedShare
<1>1. IInv => WeightedShare
  BY DEF IInv
<1> QED BY <1>1, Invariance, PTL
=============================================================================
