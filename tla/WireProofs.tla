----------------------------- MODULE WireProofs -----------------------------
(***************************************************************************)
(* Proofs about Wire, for every Radix, header size, payload limit, buffer   *)
(* and script: the codec of the length prefix loses nothing, read_message() *)
(* delivers a prefix of what was written, frame by frame, and ends as       *)
(* parse_frame() would on the same bytes.                                   *)
(***************************************************************************)
EXTENDS Wire, Induction, SequenceTheorems

Bytes == 0..(Radix - 1)

-----------------------------------------------------------------------------
(* The codec. *)

(* Adding a low byte to a number and taking it off again. *)
LEMMA ShiftIn ==
    ASSUME NEW v \in Nat, NEW c \in Bytes
    PROVE  /\ v * Radix + c \in Nat
           /\ (v * Radix + c) \div Radix = v
           /\ (v * Radix + c) % Radix = c
<1>1. Radix \in Nat /\ Radix > 1 /\ c \in 0..(Radix - 1)
  BY PrefixAssumption DEF Bytes
<1> QED BY <1>1

(* Taking the low byte off a number and adding it again. *)
LEMMA ShiftOut ==
    ASSUME NEW s \in Nat
    PROVE  /\ s \div Radix \in Nat
           /\ s % Radix \in Bytes
           /\ (s \div Radix) * Radix + (s % Radix) = s
<1>1. Radix \in Nat /\ Radix > 1
  BY PrefixAssumption
<1> QED BY <1>1 DEF Bytes

IsShifts(x, f) == f = [k \in 0..HeaderBytes |-> IF k = 0 THEN x ELSE f[k - 1] \div Radix]

(* Shifting right is well defined. *)
LEMMA ShiftsDef ==
    ASSUME NEW x \in Nat
    PROVE  /\ Shifts(x) \in [0..HeaderBytes -> Nat]
           /\ Shifts(x)[0] = x
           /\ \A k \in 1..HeaderBytes : Shifts(x)[k] = Shifts(x)[k - 1] \div Radix
<1> USE PrefixAssumption
<1> DEFINE half == [v \in Nat |-> v \div Radix]
           h == [k \in 1..HeaderBytes |-> half]
<1>1. half \in [Nat -> Nat]
  BY ShiftOut
<1>2. h \in [1..HeaderBytes -> [Nat -> Nat]]
  BY <1>1
<1>3. PICK g \in [0..HeaderBytes -> Nat] :
          g[0] = x /\ \A k \in 1..HeaderBytes : g[k] = h[k][g[k - 1]]
  <2> HIDE DEF h
  <2>1. Steps(Nat, x, HeaderBytes, h)
    BY Zenon, <1>2 DEF Steps
  <2>2. \E g : Iterates(Nat, x, HeaderBytes, h, g)
    BY <2>1, IterationExists
  <2> QED BY <2>2 DEF Iterates
<1>4. ASSUME NEW k \in 1..HeaderBytes PROVE g[k] = g[k - 1] \div Radix
  <2>1. g[k - 1] \in Nat
    OBVIOUS
  <2> QED BY Zenon, <1>3, <2>1
<1>5. IsShifts(x, g)
  <2> DEFINE f == [k \in 0..HeaderBytes |-> IF k = 0 THEN x ELSE g[k - 1] \div Radix]
  <2>1. ASSUME NEW k \in 0..HeaderBytes PROVE g[k] = f[k]
    <3>1. CASE k = 0
      BY <1>3, <3>1
    <3>2. CASE k # 0
      BY <1>4, <3>2
    <3> QED BY <3>1, <3>2
  <2>2. g = [k \in 0..HeaderBytes |-> g[k]] /\ f = [k \in 0..HeaderBytes |-> f[k]]
    OBVIOUS
  <2> HIDE DEF f
  <2>3. g = f
    BY <2>1, <2>2
  <2> QED BY <2>3 DEF IsShifts, f
<1> DEFINE F == CHOOSE f : IsShifts(x, f)
<1>6. IsShifts(x, F)
  BY <1>5
<1>7. Shifts(x) = F
  BY DEF Shifts, IsShifts
<1> HIDE DEF F
<1>8. F = [k \in 0..HeaderBytes |-> IF k = 0 THEN x ELSE F[k - 1] \div Radix]
  BY <1>6 DEF IsShifts
<1>9. F[0] = x /\ \A k \in 1..HeaderBytes : F[k] = F[k - 1] \div Radix
  <2>1. 0 \in 0..HeaderBytes
    OBVIOUS
  <2>2. F[0] = x
    BY <1>8, <2>1
  <2>3. ASSUME NEW k \in 1..HeaderBytes PROVE F[k] = F[k - 1] \div Radix
    <3>1. k \in 0..HeaderBytes /\ k # 0
      OBVIOUS
    <3> QED BY <1>8, <3>1
  <2> QED BY <2>2, <2>3
<1> DEFINE S == {k \in Nat : k <= HeaderBytes => F[k] \in Nat}
<1>10. 0 \in S
  BY <1>9
<1>11. ASSUME NEW k \in Nat, k \in S PROVE k + 1 \in S
  <2> SUFFICES ASSUME k + 1 <= HeaderBytes PROVE F[k + 1] \in Nat
    OBVIOUS
  <2>1. F[k] \in Nat
    BY <1>11
  <2>2. k + 1 \in 1..HeaderBytes /\ (k + 1) - 1 = k
    OBVIOUS
  <2>3. F[k + 1] = F[k] \div Radix
    BY <1>9, <2>2
  <2> QED BY Zenon, <2>1, <2>3, ShiftOut
<1>12. Nat \subseteq S
  <2> HIDE DEF S
  <2> QED BY Zenon, <1>10, <1>11, NatSetInduction
<1>13. F \in [0..HeaderBytes -> Nat]
  <2>1. \A k \in 0..HeaderBytes : F[k] \in Nat
    BY <1>12
  <2>2. F = [k \in 0..HeaderBytes |-> F[k]]
    BY <1>8
  <2> QED BY <2>1, <2>2
<1> QED BY <1>7, <1>9, <1>13

IsValue(b, v) ==
    v = [n \in 0..Len(b) |-> IF n = 0 THEN 0 ELSE v[n - 1] * Radix + b[(Len(b) + 1) - n]]
Value(b) == CHOOSE v : IsValue(b, v)

(* Reading a number from its bytes is well defined. *)
LEMMA LoadDef ==
    ASSUME NEW b \in Seq(Bytes), Len(b) = HeaderBytes
    PROVE  /\ Load(b) = Value(b)[HeaderBytes]
           /\ Value(b) \in [0..HeaderBytes -> Nat]
           /\ Value(b)[0] = 0
           /\ \A n \in 1..HeaderBytes :
                 Value(b)[n] = Value(b)[n - 1] * Radix + b[(HeaderBytes + 1) - n]
<1> USE PrefixAssumption DEF Bytes
<1> DEFINE step(n) == [v \in Nat |-> v * Radix + b[(HeaderBytes + 1) - n]]
           h == [n \in 1..HeaderBytes |-> step(n)]
<1>0. ASSUME NEW n \in 1..HeaderBytes PROVE b[(HeaderBytes + 1) - n] \in Bytes
  <2>1. (HeaderBytes + 1) - n \in 1..Len(b)
    OBVIOUS
  <2> QED BY <2>1, ElementOfSeq
<1>1. ASSUME NEW n \in 1..HeaderBytes PROVE step(n) \in [Nat -> Nat]
  BY SMTT(30), <1>0, ShiftIn
<1>2. h \in [1..HeaderBytes -> [Nat -> Nat]]
  BY <1>1
<1>3. PICK g \in [0..HeaderBytes -> Nat] :
          g[0] = 0 /\ \A n \in 1..HeaderBytes : g[n] = h[n][g[n - 1]]
  <2> HIDE DEF h
  <2>1. Steps(Nat, 0, HeaderBytes, h)
    BY Zenon, <1>2 DEF Steps
  <2>2. \E g : Iterates(Nat, 0, HeaderBytes, h, g)
    BY <2>1, IterationExists
  <2> QED BY <2>2 DEF Iterates
<1>4. ASSUME NEW n \in 1..HeaderBytes
      PROVE g[n] = g[n - 1] * Radix + b[(HeaderBytes + 1) - n]
  <2>1. g[n - 1] \in Nat
    OBVIOUS
  <2>2. h[n] = step(n)
    OBVIOUS
  <2>3. step(n)[g[n - 1]] = g[n - 1] * Radix + b[(HeaderBytes + 1) - n]
    BY <2>1
  <2> HIDE DEF step, h
  <2> QED BY <1>3, <2>2, <2>3
<1>5. IsValue(b, g)
  <2> DEFINE f == [n \in 0..Len(b) |->
                      IF n = 0 THEN 0 ELSE g[n - 1] * Radix + b[(Len(b) + 1) - n]]
  <2>1. ASSUME NEW n \in 0..HeaderBytes PROVE g[n] = f[n]
    <3>1. CASE n = 0
      BY <1>3, <3>1
    <3>2. CASE n # 0
      <4>1. n \in 1..HeaderBytes
        BY <3>2
      <4>2. f[n] = g[n - 1] * Radix + b[(HeaderBytes + 1) - n]
        BY <3>2
      <4> QED BY <1>4, <4>1, <4>2
    <3> QED BY <3>1, <3>2
  <2>2. g = [n \in 0..HeaderBytes |-> g[n]] /\ f = [n \in 0..HeaderBytes |-> f[n]]
    OBVIOUS
  <2> HIDE DEF f
  <2>3. g = f
    BY <2>1, <2>2
  <2> QED BY <2>3 DEF IsValue, f
<1> DEFINE F == Value(b)
<1>6. IsValue(b, F)
  BY <1>5 DEF Value
<1>7. Load(b) = F[Len(b)]
  BY DEF Load, IsValue, Value
<1> HIDE DEF F
<1>8. F = [n \in 0..HeaderBytes |->
              IF n = 0 THEN 0 ELSE F[n - 1] * Radix + b[(HeaderBytes + 1) - n]]
  BY <1>6 DEF IsValue
<1>9. F[0] = 0 /\ \A n \in 1..HeaderBytes :
                     F[n] = F[n - 1] * Radix + b[(HeaderBytes + 1) - n]
  <2>1. 0 \in 0..HeaderBytes
    OBVIOUS
  <2>2. F[0] = 0
    BY <1>8, <2>1
  <2>3. ASSUME NEW n \in 1..HeaderBytes
        PROVE F[n] = F[n - 1] * Radix + b[(HeaderBytes + 1) - n]
    <3>1. n \in 0..HeaderBytes /\ n # 0
      OBVIOUS
    <3> QED BY SMTT(30), <1>8, <3>1
  <2> QED BY <2>2, <2>3
<1> DEFINE S == {n \in Nat : n <= HeaderBytes => F[n] \in Nat}
<1>10. 0 \in S
  BY <1>9
<1>11. ASSUME NEW n \in Nat, n \in S PROVE n + 1 \in S
  <2> SUFFICES ASSUME n + 1 <= HeaderBytes PROVE F[n + 1] \in Nat
    OBVIOUS
  <2>0. n + 1 \in 1..HeaderBytes
    OBVIOUS
  <2>1. F[n] \in Nat /\ (n + 1) - 1 = n
    BY <1>11
  <2>2. F[n + 1] = F[n] * Radix + b[(HeaderBytes + 1) - (n + 1)]
    BY <1>9, <2>0, <2>1
  <2>3. b[(HeaderBytes + 1) - (n + 1)] \in Bytes
    BY <1>0, <2>0
  <2> QED BY Zenon, <2>1, <2>2, <2>3, ShiftIn
<1>12. Nat \subseteq S
  <2> HIDE DEF S
  <2> QED BY Zenon, <1>10, <1>11, NatSetInduction
<1>13. F \in [0..HeaderBytes -> Nat]
  <2>1. \A k \in 0..HeaderBytes : F[k] \in Nat
    BY <1>12
  <2>2. F = [k \in 0..HeaderBytes |-> F[k]]
    BY <1>8
  <2> QED BY <2>1, <2>2
<1> QED BY Zenon, <1>7, <1>9, <1>13 DEF F

(* The bytes of a number are HeaderBytes bytes. *)
LEMMA MemoryIsBytes ==
    ASSUME NEW x \in Nat
    PROVE  /\ Memory(x) \in Seq(Bytes) /\ Len(Memory(x)) = HeaderBytes
           /\ \A k \in 1..HeaderBytes : Memory(x)[k] = Shifts(x)[k - 1] % Radix
<1> USE PrefixAssumption
<1>1. ASSUME NEW k \in 1..HeaderBytes
      PROVE  Byte(x, k - 1) = Shifts(x)[k - 1] % Radix /\ Byte(x, k - 1) \in Bytes
  <2>1. Shifts(x)[k - 1] \in Nat
    BY ShiftsDef
  <2>2. Shifts(x)[k - 1] % Radix \in 0..(Radix - 1)
    BY <2>1
  <2> QED BY <2>2 DEF Byte, Bytes
<1>2. Memory(x) \in [1..HeaderBytes -> Bytes]
  BY <1>1 DEF Memory
<1>3. Memory(x) \in Seq(Bytes) /\ Len(Memory(x)) = HeaderBytes
  BY <1>2
<1> QED BY <1>1, <1>3 DEF Memory

(* What the bytes of a number say, once shifted. *)
LEMMA LoadShifts ==
    ASSUME NEW b \in Seq(Bytes), Len(b) = HeaderBytes
    PROVE  /\ Load(b) \in Nat
           /\ \A k \in 0..HeaderBytes : Shifts(Load(b))[k] = Value(b)[HeaderBytes - k]
<1> USE PrefixAssumption
<1>1. Load(b) \in Nat
  <2>1. HeaderBytes \in 0..HeaderBytes
    OBVIOUS
  <2>2. Load(b) = Value(b)[HeaderBytes] /\ Value(b) \in [0..HeaderBytes -> Nat]
    BY LoadDef
  <2> QED BY <2>1, <2>2
<1> DEFINE x == Load(b)
           S == {k \in Nat : k <= HeaderBytes => Shifts(x)[k] = Value(b)[HeaderBytes - k]}
<1> HIDE DEF x
<1>2. x \in Nat
  BY <1>1 DEF x
<1>3. 0 \in S
  <2>1. Shifts(x)[0] = x /\ x = Value(b)[HeaderBytes]
    BY Zenon, <1>2, ShiftsDef, LoadDef DEF x
  <2> QED BY <2>1
<1>4. ASSUME NEW k \in Nat, k \in S PROVE k + 1 \in S
  <2> SUFFICES ASSUME k + 1 <= HeaderBytes
               PROVE  Shifts(x)[k + 1] = Value(b)[HeaderBytes - (k + 1)]
    OBVIOUS
  <2> DEFINE n == HeaderBytes - k
             v == Value(b)[n - 1]
             c == b[(HeaderBytes + 1) - n]
  <2>1. n \in 1..HeaderBytes /\ (HeaderBytes + 1) - n \in 1..Len(b)
    OBVIOUS
  <2>2. Shifts(x)[k] = Value(b)[n]
    BY <1>4
  <2>3. k + 1 \in 1..HeaderBytes /\ (k + 1) - 1 = k
    OBVIOUS
  <2>4. Shifts(x)[k + 1] = Shifts(x)[k] \div Radix
    BY <1>2, <2>3, ShiftsDef
  <2>5. Value(b)[n] = v * Radix + c
    BY Zenon, <2>1, LoadDef
  <2>6. v \in Nat
    <3>1. n - 1 \in 0..HeaderBytes
      BY <2>1
    <3> QED BY <3>1, LoadDef
  <2>7. c \in Bytes
    BY <2>1, ElementOfSeq
  <2>8. HeaderBytes - (k + 1) = n - 1
    OBVIOUS
  <2> HIDE DEF v, c
  <2>9. (v * Radix + c) \div Radix = v
    BY <2>6, <2>7, ShiftIn
  <2>10. Shifts(x)[k + 1] = v
    BY <2>2, <2>4, <2>5, <2>9
  <2> QED BY <2>8, <2>10 DEF v
<1>5. Nat \subseteq S
  <2> HIDE DEF S
  <2> QED BY <1>3, <1>4, NatSetInduction
<1>6. \A k \in 0..HeaderBytes : Shifts(x)[k] = Value(b)[HeaderBytes - k]
  BY <1>5
<1> QED BY <1>1, <1>6 DEF x

(* Bytes read as a number and written back are the same bytes, and the number
   fits. *)
LEMMA MemoryOfLoad ==
    ASSUME NEW b \in Seq(Bytes), Len(b) = HeaderBytes
    PROVE  Load(b) \in Nat /\ Fits(Load(b)) /\ Memory(Load(b)) = b
<1> USE PrefixAssumption
<1>1. Load(b) \in Nat
  BY LoadShifts
<1>2. Fits(Load(b))
  <2>1. HeaderBytes \in 0..HeaderBytes /\ HeaderBytes - HeaderBytes = 0
    OBVIOUS
  <2>2. Shifts(Load(b))[HeaderBytes] = Value(b)[0]
    BY <2>1, LoadShifts
  <2> QED BY <2>2, LoadDef DEF Fits
<1>3. ASSUME NEW k \in 1..HeaderBytes PROVE Memory(Load(b))[k] = b[k]
  <2> DEFINE n == HeaderBytes - (k - 1)
             v == Value(b)[n - 1]
  <2>1. /\ k - 1 \in 0..HeaderBytes /\ n \in 1..HeaderBytes /\ n - 1 \in 0..HeaderBytes
        /\ (HeaderBytes + 1) - n = k
    OBVIOUS
  <2>2. Memory(Load(b))[k] = Shifts(Load(b))[k - 1] % Radix
    BY <1>1, MemoryIsBytes
  <2>3. Shifts(Load(b))[k - 1] = Value(b)[n]
    BY <2>1, LoadShifts
  <2>4. Value(b)[n] = v * Radix + b[k]
    <3> HIDE DEF n
    <3>1. Value(b)[n] = Value(b)[n - 1] * Radix + b[(HeaderBytes + 1) - n]
      BY Zenon, <2>1, LoadDef
    <3> QED BY <2>1, <3>1
  <2>5. v \in Nat
    BY <2>1, LoadDef
  <2>6. b[k] \in Bytes
    BY ElementOfSeq
  <2> HIDE DEF v
  <2>7. (v * Radix + b[k]) % Radix = b[k]
    BY Zenon, <2>5, <2>6, ShiftIn
  <2> QED BY <2>2, <2>3, <2>4, <2>7
<1>4. Memory(Load(b)) \in Seq(Bytes) /\ Len(Memory(Load(b))) = HeaderBytes
  BY <1>1, MemoryIsBytes
<1>5. Memory(Load(b)) = b
  BY <1>3, <1>4, SeqEqual
<1> QED BY <1>1, <1>2, <1>5

(* A number that fits is what its bytes say. *)
LEMMA LoadOfMemory ==
    ASSUME NEW x \in Nat, Fits(x)
    PROVE  Load(Memory(x)) = x
<1> USE PrefixAssumption
<1> DEFINE b == Memory(x)
           S == {n \in Nat : n <= HeaderBytes => Value(b)[n] = Shifts(x)[HeaderBytes - n]}
<1> HIDE DEF b
<1>1. b \in Seq(Bytes) /\ Len(b) = HeaderBytes
  BY MemoryIsBytes DEF b
<1>2. 0 \in S
  <2>1. Value(b)[0] = 0
    BY <1>1, LoadDef
  <2>2. Shifts(x)[HeaderBytes - 0] = 0
    BY DEF Fits
  <2> QED BY <2>1, <2>2
<1>3. ASSUME NEW n \in Nat, n \in S PROVE n + 1 \in S
  <2> SUFFICES ASSUME n + 1 <= HeaderBytes
               PROVE  Value(b)[n + 1] = Shifts(x)[HeaderBytes - (n + 1)]
    OBVIOUS
  <2> DEFINE k == HeaderBytes - n
             s == Shifts(x)[k - 1]
  <2>1. /\ k \in 1..HeaderBytes /\ k - 1 \in 0..HeaderBytes /\ n + 1 \in 1..HeaderBytes
        /\ (n + 1) - 1 = n /\ (HeaderBytes + 1) - (n + 1) = k /\ HeaderBytes - (n + 1) = k - 1
    OBVIOUS
  <2>2. Value(b)[n] = Shifts(x)[k]
    BY <1>3
  <2>3. Value(b)[n + 1] = Value(b)[(n + 1) - 1] * Radix + b[(HeaderBytes + 1) - (n + 1)]
    BY Zenon, <1>1, <2>1, LoadDef
  <2>4. Value(b)[n + 1] = Value(b)[n] * Radix + b[k]
    <3> HIDE DEF k
    <3> QED BY <2>1, <2>3
  <2>5. b[k] = s % Radix
    <3> HIDE DEF k
    <3> QED BY <2>1, MemoryIsBytes DEF b
  <2>6. Shifts(x)[k] = s \div Radix /\ s \in Nat
    <3> HIDE DEF k
    <3> QED BY Zenon, <2>1, ShiftsDef
  <2> HIDE DEF s
  <2>7. Value(b)[n + 1] = (s \div Radix) * Radix + (s % Radix)
    BY <2>2, <2>4, <2>5, <2>6
  <2>8. Value(b)[n + 1] = s
    BY <2>6, <2>7, ShiftOut
  <2> QED BY <2>1, <2>8 DEF s
<1>4. Nat \subseteq S
  <2> HIDE DEF S
  <2> QED BY <1>2, <1>3, NatSetInduction
<1>5. Value(b)[HeaderBytes] = Shifts(x)[HeaderBytes - HeaderBytes]
  BY <1>4
<1>6. Load(b) = Shifts(x)[0]
  BY <1>1, <1>5, LoadDef
<1> QED BY <1>6, ShiftsDef DEF b

(* HeaderBytes bytes in the opposite order. *)
Reverse(b) == [i \in 1..HeaderBytes |-> b[(HeaderBytes - i) + 1]]

(* htonl() reverses the bytes in memory. *)
LEMMA SwapReverses ==
    ASSUME NEW x
    PROVE  Swap(x) = Load(Reverse(Memory(x)))
<1> USE PrefixAssumption
<1>1. ASSUME NEW i \in 1..HeaderBytes
      PROVE  Memory(x)[(HeaderBytes - i) + 1] = Byte(x, HeaderBytes - i)
  <2>1. /\ (HeaderBytes - i) + 1 \in 1..HeaderBytes
        /\ ((HeaderBytes - i) + 1) - 1 = HeaderBytes - i
    OBVIOUS
  <2> QED BY <2>1 DEF Memory
<1>2. Reverse(Memory(x)) = [i \in 1..HeaderBytes |-> Byte(x, HeaderBytes - i)]
  BY <1>1 DEF Reverse
<1> QED BY <1>2 DEF Swap

(* Reversing HeaderBytes bytes twice gives them back. *)
LEMMA ReverseTwice ==
    ASSUME NEW b \in Seq(Bytes), Len(b) = HeaderBytes
    PROVE  /\ Reverse(b) \in Seq(Bytes) /\ Len(Reverse(b)) = HeaderBytes
           /\ Reverse(Reverse(b)) = b
<1> USE PrefixAssumption
<1>1. ASSUME NEW i \in 1..HeaderBytes
      PROVE  (HeaderBytes - i) + 1 \in 1..HeaderBytes /\ b[(HeaderBytes - i) + 1] \in Bytes
  <2>1. (HeaderBytes - i) + 1 \in 1..Len(b)
    OBVIOUS
  <2> QED BY <2>1, ElementOfSeq
<1>2. Reverse(b) \in [1..HeaderBytes -> Bytes]
  BY <1>1 DEF Reverse
<1>3. Reverse(b) \in Seq(Bytes) /\ Len(Reverse(b)) = HeaderBytes
  BY <1>2
<1>4. \A i \in 1..HeaderBytes : Reverse(b)[i] = b[(HeaderBytes - i) + 1]
  BY DEF Reverse
<1> DEFINE r == Reverse(b)
<1> HIDE DEF r
<1>5. r \in Seq(Bytes) /\ Len(r) = HeaderBytes
  BY <1>3 DEF r
<1>6. \A i \in 1..HeaderBytes : Reverse(r)[i] = r[(HeaderBytes - i) + 1]
  BY <1>5 DEF Reverse
<1>7. ASSUME NEW i \in 1..HeaderBytes PROVE Reverse(r)[i] = b[i]
  <2>1. (HeaderBytes - i) + 1 \in 1..HeaderBytes
        /\ (HeaderBytes - ((HeaderBytes - i) + 1)) + 1 = i
    OBVIOUS
  <2>2. Reverse(r)[i] = r[(HeaderBytes - i) + 1]
    BY <1>6
  <2>3. r[(HeaderBytes - i) + 1] = b[(HeaderBytes - ((HeaderBytes - i) + 1)) + 1]
    BY <1>4, <2>1 DEF r
  <2> QED BY <2>1, <2>2, <2>3
<1>8. Reverse(r) \in Seq(Bytes) /\ Len(Reverse(r)) = HeaderBytes
  <2>1. ASSUME NEW i \in 1..HeaderBytes PROVE r[(HeaderBytes - i) + 1] \in Bytes
    <3>1. (HeaderBytes - i) + 1 \in 1..Len(r)
      BY <1>5
    <3> QED BY <1>5, <3>1, ElementOfSeq
  <2>2. Reverse(r) \in [1..HeaderBytes -> Bytes]
    BY <1>5, <2>1 DEF Reverse
  <2> QED BY <2>2
<1>9. Reverse(r) = b
  BY <1>7, <1>8, SeqEqual
<1> QED BY <1>3, <1>9 DEF r

(* ntohl(htonl(len)) = len for every len of at most UINT32_MAX, and the header
   is HeaderBytes bytes. *)
THEOREM HeaderCarriesLength ==
    ASSUME NEW len \in Nat
    PROVE  /\ Header(len) \in Seq(Bytes) /\ Len(Header(len)) = HeaderBytes
           /\ Fits(len) => Length(Header(len)) = len
<1> DEFINE m == Memory(len)
           r == Reverse(m)
           s == Load(r)
<1> HIDE DEF m, r, s
<1>1. m \in Seq(Bytes) /\ Len(m) = HeaderBytes
  BY MemoryIsBytes DEF m
<1>2. r \in Seq(Bytes) /\ Len(r) = HeaderBytes /\ Reverse(r) = m
  BY <1>1, ReverseTwice DEF r
<1>3. s \in Nat /\ Fits(s) /\ Memory(s) = r
  BY <1>2, MemoryOfLoad DEF s
<1>4. Swap(len) = s
  BY SwapReverses DEF s, r, m
<1>5. Header(len) = r
  BY <1>3, <1>4 DEF Header
<1>6. Length(Header(len)) = Load(m)
  BY <1>2, <1>3, <1>5, SwapReverses DEF Length, s
<1> QED BY <1>2, <1>5, <1>6, LoadOfMemory DEF m

(* A length read from a header is a natural. *)
LEMMA LengthIsNatural ==
    ASSUME NEW b \in Seq(Bytes), Len(b) = HeaderBytes
    PROVE  Length(b) \in Nat
<1>1. Load(b) \in Nat
  BY MemoryOfLoad
<1>2. /\ Reverse(Memory(Load(b))) \in Seq(Bytes)
      /\ Len(Reverse(Memory(Load(b)))) = HeaderBytes
  BY <1>1, MemoryIsBytes, ReverseTwice
<1> QED BY <1>2, MemoryOfLoad, SwapReverses DEF Length

-----------------------------------------------------------------------------
(* The stream of frames that a script makes. *)

(* What write_message() puts on the wire for a payload. *)
Frame(p) == Header(Len(p)) \o p

(* Flat[n]: the frames of the first n payloads of the script, one after another. *)
IsFlat(s, F) == F = [n \in 0..Len(s) |-> IF n = 0 THEN <<>> ELSE F[n - 1] \o Frame(s[n])]
FlatOf(s) == CHOOSE F : IsFlat(s, F)
Flat == FlatOf(script)

(* The first n payloads are not too long for the length prefix. *)
AllFit(n) == \A i \in 1..n : Fits(Len(script[i]))

Begins(s, t) == Len(s) <= Len(t) /\ \A i \in 1..Len(s) : s[i] = t[i]

(* A frame is a header and then the payload. *)
LEMMA FrameParts ==
    ASSUME NEW p \in Seq(Bytes)
    PROVE  /\ Frame(p) \in Seq(Bytes)
           /\ Len(Frame(p)) = HeaderBytes + Len(p)
           /\ \A i \in 1..HeaderBytes : Frame(p)[i] = Header(Len(p))[i]
           /\ \A i \in 1..Len(p) : Frame(p)[HeaderBytes + i] = p[i]
<1> USE PrefixAssumption
<1> DEFINE h == Header(Len(p))
<1>1. Len(p) \in Nat
  OBVIOUS
<1>2. h \in Seq(Bytes) /\ Len(h) = HeaderBytes
  BY <1>1, HeaderCarriesLength
<1> HIDE DEF h
<1>3. h \o p \in Seq(Bytes) /\ Len(h \o p) = HeaderBytes + Len(p)
  BY Zenon, <1>2, ConcatProperties
<1>4. \A i \in 1..HeaderBytes : (h \o p)[i] = h[i]
  BY <1>2, ConcatProperties
<1>5. \A i \in 1..Len(p) : (h \o p)[HeaderBytes + i] = p[i]
  BY <1>2, ConcatProperties
<1> QED BY <1>3, <1>4, <1>5 DEF Frame, h

(* The stream of a script is well defined. *)
LEMMA FlatDef ==
    ASSUME NEW s \in Seq(Seq(Bytes))
    PROVE  /\ FlatOf(s) \in [0..Len(s) -> Seq(Bytes)]
           /\ FlatOf(s)[0] = <<>>
           /\ \A n \in 1..Len(s) : FlatOf(s)[n] = FlatOf(s)[n - 1] \o Frame(s[n])
<1> DEFINE add(n) == [b \in Seq(Bytes) |-> b \o Frame(s[n])]
           h == [n \in 1..Len(s) |-> add(n)]
<1>0. ASSUME NEW n \in 1..Len(s) PROVE Frame(s[n]) \in Seq(Bytes)
  <2>1. s[n] \in Seq(Bytes)
    BY ElementOfSeq
  <2> QED BY <2>1, FrameParts
<1>1. ASSUME NEW n \in 1..Len(s) PROVE add(n) \in [Seq(Bytes) -> Seq(Bytes)]
  BY <1>0, ConcatProperties
<1>2. h \in [1..Len(s) -> [Seq(Bytes) -> Seq(Bytes)]]
  BY <1>1
<1>3. PICK g \in [0..Len(s) -> Seq(Bytes)] :
          g[0] = <<>> /\ \A n \in 1..Len(s) : g[n] = h[n][g[n - 1]]
  <2> HIDE DEF h
  <2>1. Steps(Seq(Bytes), <<>>, Len(s), h)
    BY <1>2 DEF Steps
  <2>2. \E g : Iterates(Seq(Bytes), <<>>, Len(s), h, g)
    BY <2>1, IterationExists
  <2> QED BY <2>2 DEF Iterates
<1>4. ASSUME NEW n \in 1..Len(s) PROVE g[n] = g[n - 1] \o Frame(s[n])
  <2>1. g[n - 1] \in Seq(Bytes)
    OBVIOUS
  <2>2. h[n] = add(n)
    OBVIOUS
  <2>3. add(n)[g[n - 1]] = g[n - 1] \o Frame(s[n])
    BY Zenon, <2>1
  <2> HIDE DEF add, h
  <2> QED BY Zenon, <1>3, <2>2, <2>3
<1>5. IsFlat(s, g)
  <2> DEFINE f == [n \in 0..Len(s) |-> IF n = 0 THEN <<>> ELSE g[n - 1] \o Frame(s[n])]
  <2>1. ASSUME NEW n \in 0..Len(s) PROVE g[n] = f[n]
    <3>1. CASE n = 0
      BY <1>3, <3>1
    <3>2. CASE n # 0
      <4>1. n \in 1..Len(s)
        BY <3>2
      <4>2. f[n] = g[n - 1] \o Frame(s[n])
        BY Zenon, <3>2
      <4> QED BY Zenon, <1>4, <4>1, <4>2
    <3> QED BY Zenon, <3>1, <3>2
  <2>2. g = [n \in 0..Len(s) |-> g[n]] /\ f = [n \in 0..Len(s) |-> f[n]]
    OBVIOUS
  <2> HIDE DEF f
  <2>3. g = f
    BY <2>1, <2>2
  <2> QED BY Zenon, <2>3 DEF IsFlat, f
<1> DEFINE F == FlatOf(s)
<1>6. IsFlat(s, F)
  BY <1>5 DEF FlatOf
<1> HIDE DEF F
<1>8. F = [n \in 0..Len(s) |-> IF n = 0 THEN <<>> ELSE F[n - 1] \o Frame(s[n])]
  BY Zenon, <1>6 DEF IsFlat
<1>9. F[0] = <<>> /\ \A n \in 1..Len(s) : F[n] = F[n - 1] \o Frame(s[n])
  <2>1. 0 \in 0..Len(s)
    OBVIOUS
  <2>2. F[0] = <<>>
    BY <1>8, <2>1
  <2>3. ASSUME NEW n \in 1..Len(s) PROVE F[n] = F[n - 1] \o Frame(s[n])
    <3>1. n \in 0..Len(s) /\ n # 0
      OBVIOUS
    <3> QED BY Zenon, <1>8, <3>1
  <2> QED BY <2>2, <2>3
<1> DEFINE S == {n \in Nat : n <= Len(s) => F[n] \in Seq(Bytes)}
<1>10. 0 \in S
  <2>1. <<>> \in Seq(Bytes)
    OBVIOUS
  <2> QED BY Zenon, <1>9, <2>1
<1>11. ASSUME NEW n \in Nat, n \in S PROVE n + 1 \in S
  <2> SUFFICES ASSUME n + 1 <= Len(s) PROVE F[n + 1] \in Seq(Bytes)
    OBVIOUS
  <2>0. n + 1 \in 1..Len(s) /\ (n + 1) - 1 = n
    OBVIOUS
  <2>1. F[n] \in Seq(Bytes)
    BY <1>11
  <2>2. F[n + 1] = F[n] \o Frame(s[n + 1])
    BY Zenon, <1>9, <2>0
  <2> QED BY <1>0, <2>0, <2>1, <2>2, ConcatProperties
<1>12. Nat \subseteq S
  <2> HIDE DEF S
  <2> QED BY <1>10, <1>11, NatSetInduction
<1>13. F \in [0..Len(s) -> Seq(Bytes)]
  <2>1. \A n \in 0..Len(s) : F[n] \in Seq(Bytes)
    BY <1>12
  <2>2. F = [n \in 0..Len(s) |-> F[n]]
    BY <1>8
  <2> QED BY <2>1, <2>2
<1> QED BY Zenon, <1>9, <1>13 DEF F

(* The stream of the first r frames begins that of any more. *)
LEMMA FlatGrows ==
    ASSUME NEW s \in Seq(Seq(Bytes)), NEW r \in 0..Len(s), NEW k \in r..Len(s)
    PROVE  Begins(FlatOf(s)[r], FlatOf(s)[k])
<1> DEFINE F == FlatOf(s)
           S == {d \in Nat : r + d <= Len(s) => Begins(F[r], F[r + d])}
<1> HIDE DEF F
<1>0. /\ F \in [0..Len(s) -> Seq(Bytes)]
      /\ \A n \in 1..Len(s) : F[n] = F[n - 1] \o Frame(s[n])
  BY Zenon, FlatDef DEF F
<1>1. 0 \in S
  <2>1. F[r] \in Seq(Bytes) /\ r + 0 = r
    BY <1>0
  <2>2. Begins(F[r], F[r])
    BY <2>1 DEF Begins
  <2> QED BY <2>1, <2>2
<1>2. ASSUME NEW d \in Nat, d \in S PROVE d + 1 \in S
  <2> SUFFICES ASSUME r + (d + 1) <= Len(s) PROVE Begins(F[r], F[r + (d + 1)])
    OBVIOUS
  <2> DEFINE n == r + (d + 1)
             p == F[r]
             q == F[n - 1]
             f == Frame(s[n])
  <2>1. n \in 1..Len(s) /\ n - 1 \in 0..Len(s) /\ n - 1 = r + d
    OBVIOUS
  <2>2. Begins(p, q)
    BY <1>2, <2>1
  <2>3. F[n] = q \o f
    BY Zenon, <1>0, <2>1
  <2>4. p \in Seq(Bytes) /\ q \in Seq(Bytes)
    BY Zenon, <1>0, <2>1
  <2>5. f \in Seq(Bytes)
    <3>1. s[n] \in Seq(Bytes)
      BY <2>1, ElementOfSeq
    <3> QED BY <3>1, FrameParts
  <2> HIDE DEF p, q, f
  <2>6. Len(q \o f) = Len(q) + Len(f) /\ \A i \in 1..Len(q) : (q \o f)[i] = q[i]
    BY <2>4, <2>5, ConcatProperties
  <2>7. Begins(p, q \o f)
    BY <2>2, <2>4, <2>5, <2>6 DEF Begins
  <2> QED BY <2>3, <2>7 DEF p
<1>3. Nat \subseteq S
  <2> HIDE DEF S
  <2> QED BY Zenon, <1>1, <1>2, NatSetInduction
<1>4. k - r \in Nat /\ r + (k - r) = k
  OBVIOUS
<1>5. Begins(F[r], F[k])
  <2>1. k - r \in S
    BY Zenon, <1>3, <1>4
  <2>2. Begins(F[r], F[r + (k - r)])
    BY <1>4, <2>1
  <2> QED BY <1>4, <2>2
<1> QED BY <1>5 DEF F

(* After the first r frames comes the next one. *)
LEMMA NextFrame ==
    ASSUME NEW s \in Seq(Seq(Bytes)), NEW r \in 1..Len(s), NEW k \in r..Len(s)
    PROVE  /\ Len(FlatOf(s)[r]) = Len(FlatOf(s)[r - 1]) + Len(Frame(s[r]))
           /\ Len(FlatOf(s)[r]) <= Len(FlatOf(s)[k])
           /\ \A i \in 1..Len(Frame(s[r])) :
                 FlatOf(s)[k][Len(FlatOf(s)[r - 1]) + i] = Frame(s[r])[i]
<1> DEFINE p == FlatOf(s)[r - 1]
           f == Frame(s[r])
           q == FlatOf(s)[r]
           t == FlatOf(s)[k]
<1>1. /\ FlatOf(s) \in [0..Len(s) -> Seq(Bytes)]
      /\ \A n \in 1..Len(s) : FlatOf(s)[n] = FlatOf(s)[n - 1] \o Frame(s[n])
  BY Zenon, FlatDef
<1>2. r - 1 \in 0..Len(s) /\ r \in 0..Len(s) /\ k \in 0..Len(s)
  OBVIOUS
<1>3. p \in Seq(Bytes) /\ t \in Seq(Bytes) /\ q \in Seq(Bytes) /\ q = p \o f
  BY Zenon, <1>1, <1>2
<1>4. f \in Seq(Bytes)
  <2>1. s[r] \in Seq(Bytes)
    BY ElementOfSeq
  <2> QED BY Zenon, <2>1, FrameParts
<1>5. Begins(q, t)
  BY <1>2, FlatGrows
<1> HIDE DEF p, f, q, t
<1>6. Len(q) = Len(p) + Len(f) /\ Len(q) <= Len(t)
  BY <1>3, <1>4, <1>5, ConcatProperties DEF Begins
<1>7. \A i \in 1..Len(f) : q[Len(p) + i] = f[i]
  BY <1>3, <1>4, ConcatProperties
<1>8. ASSUME NEW i \in 1..Len(f) PROVE t[Len(p) + i] = f[i]
  <2>1. Len(p) + i \in 1..Len(q)
    BY <1>3, <1>4, <1>6
  <2> QED BY <1>5, <1>7, <2>1 DEF Begins
<1> QED BY Zenon, <1>6, <1>8 DEF p, f, q, t

-----------------------------------------------------------------------------
(* Pieces of byte strings. *)

(* The bytes from m + 1 to n of a string. *)
LEMMA Cut ==
    ASSUME NEW s \in Seq(Bytes), NEW m \in Nat, NEW n \in Nat, m <= n, n <= Len(s)
    PROVE  /\ SubSeq(s, m + 1, n) \in Seq(Bytes)
           /\ Len(SubSeq(s, m + 1, n)) = n - m
           /\ \A i \in 1..(n - m) : SubSeq(s, m + 1, n)[i] = s[m + i]
<1>1. \A i \in (m + 1)..n : s[i] \in Bytes
  BY ElementOfSeq
<1>2. m + 1 \in Int /\ n \in Int
  OBVIOUS
<1> QED BY <1>1, <1>2, SubSeqProperties

(* One byte string after another. *)
LEMMA Join ==
    ASSUME NEW s \in Seq(Bytes), NEW t \in Seq(Bytes)
    PROVE  /\ s \o t \in Seq(Bytes)
           /\ Len(s \o t) = Len(s) + Len(t)
           /\ \A i \in 1..Len(s) : (s \o t)[i] = s[i]
           /\ \A i \in 1..Len(t) : (s \o t)[Len(s) + i] = t[i]
BY ConcatProperties

(* Joining byte strings is associative. *)
LEMMA JoinThree ==
    ASSUME NEW s \in Seq(Bytes), NEW t \in Seq(Bytes), NEW u \in Seq(Bytes)
    PROVE  (s \o t) \o u = s \o (t \o u)
BY ConcatAssociative

(* Byte strings of the same bytes are equal. *)
LEMMA SameBytes ==
    ASSUME NEW s \in Seq(Bytes), NEW t \in Seq(Bytes),
           Len(s) = Len(t), \A i \in 1..Len(s) : s[i] = t[i]
    PROVE  s = t
BY SeqEqual

(* Two strings that agree up to n have the same pieces up to n. *)
LEMMA SamePiece ==
    ASSUME NEW s \in Seq(Bytes), NEW t \in Seq(Bytes), NEW m \in Nat, NEW n \in Nat,
           m <= n, n <= Len(s), n <= Len(t), \A i \in 1..n : s[i] = t[i]
    PROVE  SubSeq(s, m + 1, n) = SubSeq(t, m + 1, n)
<1> DEFINE a == SubSeq(s, m + 1, n)
           b == SubSeq(t, m + 1, n)
<1>1. a \in Seq(Bytes) /\ Len(a) = n - m /\ \A i \in 1..(n - m) : a[i] = s[m + i]
  BY Cut
<1>2. b \in Seq(Bytes) /\ Len(b) = n - m /\ \A i \in 1..(n - m) : b[i] = t[m + i]
  BY Cut
<1>3. \A i \in 1..(n - m) : s[m + i] = t[m + i]
  OBVIOUS
<1> HIDE DEF a, b
<1>4. a = b
  BY <1>1, <1>2, <1>3, SameBytes
<1> QED BY <1>4 DEF a, b

-----------------------------------------------------------------------------
(* The inductive invariant. *)

Written == Len(script) - Len(outbox)
Consumed == Len(sent) - Len(wire)
Delivered == Len(received)

WireTypes ==
    /\ TypeOK
    /\ script \in Scripts
    /\ outbox \in Seq(Seq(Bytes)) /\ received \in Seq(Seq(Bytes))
    /\ pending \in Seq(Bytes) /\ payload \in Seq(Bytes)
    /\ wire \in Seq(Bytes) /\ sent \in Seq(Bytes) /\ got \in Seq(Bytes)
    /\ need \in Nat /\ offset \in Nat

(* What was handed over begins the stream of the script, and the writer will go
   on so; it is inside a frame only if that frame's length fits. *)
WriterInv ==
    /\ Len(outbox) <= Len(script)
    /\ \A i \in 1..Len(outbox) : outbox[i] = script[Written + i]
    /\ writer = "idle" => sent = Flat[Written] /\ AllFit(Written)
    /\ writer \in Writing =>
          /\ Written < Len(script) /\ AllFit(Written + 1)
          /\ pending # <<>>
          /\ (sent \o pending) \o payload = Flat[Written + 1]
    /\ \E k \in 0..Len(script) : Begins(sent, Flat[k]) /\ AllFit(k)

(* The wire holds the last bytes handed over. *)
StreamInv ==
    /\ Len(wire) <= Len(sent)
    /\ \A i \in 1..Len(wire) : wire[i] = sent[Consumed + i]

(* The header at offset. *)
HeaderAt == SubSeq(sent, offset + 1, offset + HeaderBytes)

(* The reader is where a frame ends, or as far into the next one as it has
   bytes of it; it returned for a reason the stream still shows. *)
ReaderInv ==
    /\ Begins(received, script)
    /\ reader = "idle" => Consumed = Len(Flat[Delivered])
    /\ reader \in Reading =>
          /\ offset = Len(Flat[Delivered])
          /\ Len(got) < need
    /\ reader = "header" =>
          /\ need = HeaderBytes
          /\ Consumed = offset + Len(got)
          /\ \A i \in 1..Len(got) : got[i] = sent[offset + i]
    /\ reader = "payload" =>
          /\ Consumed = (offset + HeaderBytes) + Len(got)
          /\ need = Length(HeaderAt) /\ need <= MaxPayload
          /\ \A i \in 1..Len(got) : got[i] = sent[(offset + HeaderBytes) + i]
    /\ reader = "returned" /\ status = "ok" =>
          /\ Delivered > 0
          /\ offset = Len(Flat[Delivered - 1]) /\ Consumed = Len(Flat[Delivered])
          /\ Len(received[Delivered]) <= MaxPayload
    /\ reader = "returned" /\ status = "protocol_error" =>
          offset + HeaderBytes <= Consumed /\ Length(HeaderAt) > MaxPayload
    /\ reader = "returned" /\ status \in {"peer_closed", "io_error"} =>
          /\ writer \in Gone
          /\ offset <= Len(sent)
          /\ \/ Len(sent) < offset + HeaderBytes
             \/ /\ Length(HeaderAt) <= MaxPayload
                /\ Len(sent) < (offset + HeaderBytes) + Length(HeaderAt)
    /\ reader = "returned" => status # "none"

WireInv == WireTypes /\ WriterInv /\ StreamInv /\ ReaderInv

(* A script is a sequence of payloads. *)
LEMMA ScriptShape ==
    ASSUME script \in Scripts
    PROVE  script \in Seq(Seq(Bytes))
BY ScriptsAssumption DEF Bytes

(* What the sent bytes hold where the r-th frame ends: the header of the next
   payload, and then the payload, as far as they were sent. *)
LEMMA StreamSays ==
    ASSUME WireTypes, WriterInv, NEW r \in 0..Len(script),
           offset = Len(Flat[r]), offset + HeaderBytes <= Len(sent)
    PROVE  /\ r < Len(script)
           /\ Length(HeaderAt) = Len(script[r + 1])
           /\ Len(Flat[r + 1]) = (offset + HeaderBytes) + Len(script[r + 1])
           /\ \A i \in 1..Len(script[r + 1]) :
                 (offset + HeaderBytes) + i <= Len(sent) =>
                     sent[(offset + HeaderBytes) + i] = script[r + 1][i]
<1> USE PrefixAssumption
<1>1. script \in Seq(Seq(Bytes)) /\ sent \in Seq(Bytes) /\ offset \in Nat
  BY ScriptShape DEF WireTypes
<1>0. offset \in Nat /\ HeaderBytes \in Nat
  BY <1>1
<1>2. PICK k \in 0..Len(script) : Begins(sent, Flat[k]) /\ AllFit(k)
  BY DEF WriterInv
<1>3. Flat[r] \in Seq(Bytes) /\ Flat[k] \in Seq(Bytes)
  BY Zenon, <1>1, FlatDef DEF Flat
<1>4. r < k
  <2> SUFFICES ASSUME k <= r PROVE FALSE
    OBVIOUS
  <2>1. Begins(Flat[k], Flat[r])
    BY <1>1, FlatGrows DEF Flat
  <2>2. Len(sent) <= Len(Flat[k]) /\ Len(Flat[k]) <= Len(Flat[r])
    BY <1>2, <2>1 DEF Begins
  <2> QED BY <1>1, <1>3, <2>2
<1> DEFINE p == script[r + 1]
           f == Frame(p)
<1>5. r + 1 \in 1..Len(script) /\ k \in (r + 1)..Len(script) /\ (r + 1) - 1 = r
  BY <1>1, <1>4
<1>6. p \in Seq(Bytes) /\ Len(p) \in Nat
  <2>1. p \in Seq(Bytes)
    BY <1>1, <1>5, ElementOfSeq
  <2> QED BY <2>1
<1> HIDE DEF p
<1>7. /\ f \in Seq(Bytes) /\ Len(f) = HeaderBytes + Len(p)
      /\ \A i \in 1..HeaderBytes : f[i] = Header(Len(p))[i]
      /\ \A i \in 1..Len(p) : f[HeaderBytes + i] = p[i]
  BY <1>6, FrameParts
<1> HIDE DEF f
<1>8. /\ Len(Flat[r + 1]) = offset + Len(f)
      /\ \A i \in 1..Len(f) : Flat[k][offset + i] = f[i]
  <2>1. /\ Len(FlatOf(script)[r + 1]) = Len(FlatOf(script)[(r + 1) - 1]) + Len(Frame(script[r + 1]))
        /\ \A i \in 1..Len(Frame(script[r + 1])) :
              FlatOf(script)[k][Len(FlatOf(script)[(r + 1) - 1]) + i] = Frame(script[r + 1])[i]
    BY Zenon, <1>1, <1>5, NextFrame
  <2> QED BY <1>5, <2>1 DEF Flat, f, p
<1>9. ASSUME NEW i \in 1..Len(f), offset + i <= Len(sent) PROVE sent[offset + i] = f[i]
  <2>1. offset + i \in 1..Len(sent)
    BY SMTT(30), <1>1, <1>7, <1>9
  <2> QED BY Zenon, <1>2, <1>8, <2>1 DEF Begins
<1>10. HeaderAt = Header(Len(p))
  <2> DEFINE h == Header(Len(p))
             a == SubSeq(sent, offset + 1, offset + HeaderBytes)
  <2>1. h \in Seq(Bytes) /\ Len(h) = HeaderBytes
    BY <1>6, HeaderCarriesLength
  <2>2. /\ a \in Seq(Bytes) /\ Len(a) = HeaderBytes
        /\ \A i \in 1..HeaderBytes : a[i] = sent[offset + i]
    <3>1. (offset + HeaderBytes) - offset = HeaderBytes /\ offset + HeaderBytes \in Nat
          /\ offset <= offset + HeaderBytes
      BY <1>1
    <3> DEFINE e == offset + HeaderBytes
    <3>2. e \in Nat /\ offset \in Nat /\ offset <= e /\ e <= Len(sent) /\ sent \in Seq(Bytes)
      BY <1>1, <3>1
    <3> HIDE DEF e
    <3>3. /\ SubSeq(sent, offset + 1, e) \in Seq(Bytes)
          /\ Len(SubSeq(sent, offset + 1, e)) = e - offset
          /\ \A i \in 1..(e - offset) : SubSeq(sent, offset + 1, e)[i] = sent[offset + i]
      BY Zenon, <3>2, Cut
    <3>4. e - offset = HeaderBytes
      BY <3>1 DEF e
    <3> QED BY Zenon, <3>3, <3>4 DEF e
  <2> HIDE DEF h, a
  <2>3. \A i \in 1..HeaderBytes : sent[offset + i] = h[i]
    <3>1. ASSUME NEW i \in 1..HeaderBytes PROVE sent[offset + i] = h[i]
      <4>1. i \in 1..Len(f)
        BY <1>0, <1>6, <1>7
      <4>2. offset + i <= Len(sent)
        BY <1>0, <1>1
      <4> QED BY <1>7, <1>9, <4>1, <4>2 DEF h
    <3> QED BY <3>1
  <2>4. a = h
    BY Zenon, <2>1, <2>2, <2>3, SameBytes
  <2> QED BY Zenon, <2>4 DEF a, h, HeaderAt
<1>11. Fits(Len(p))
  BY <1>2, <1>5 DEF AllFit, p
<1>12. Length(HeaderAt) = Len(p)
  BY <1>6, <1>10, <1>11, HeaderCarriesLength
<1>13. ASSUME NEW i \in 1..Len(p), (offset + HeaderBytes) + i <= Len(sent)
       PROVE  sent[(offset + HeaderBytes) + i] = p[i]
  <2> DEFINE l == Len(p)
             lf == Len(f)
  <2>0. l \in Nat /\ lf = HeaderBytes + l /\ i \in 1..l
    BY <1>6, <1>7
  <2> HIDE DEF l, lf
  <2>1. HeaderBytes + i \in 1..lf /\ (offset + HeaderBytes) + i = offset + (HeaderBytes + i)
    BY ONLY <1>0, <2>0
  <2>2. sent[offset + (HeaderBytes + i)] = f[HeaderBytes + i]
    BY Zenon, <1>9, <1>13, <2>1 DEF lf
  <2> QED BY Zenon, <1>7, <2>1, <2>2
<1>14. Len(Flat[r + 1]) = (offset + HeaderBytes) + Len(p)
  <2> DEFINE l == Len(p)
             n == Len(Flat[r + 1])
  <2>1. l \in Nat /\ n = offset + (HeaderBytes + l)
    BY <1>6, <1>7, <1>8
  <2> HIDE DEF l, n
  <2>2. n = (offset + HeaderBytes) + l
    BY ONLY <1>0, <2>1
  <2> QED BY <2>2 DEF l, n
<1> QED BY <1>4, <1>12, <1>13, <1>14 DEF p

-----------------------------------------------------------------------------
(* The steps of the writer. *)

(* What WireTypes says of the sizes. *)
LEMMA Sizes ==
    ASSUME WireTypes
    PROVE  /\ script \in Seq(Seq(Bytes))
           /\ Len(script) \in Nat /\ Len(outbox) \in Nat /\ Len(received) \in Nat
           /\ Len(pending) \in Nat /\ Len(payload) \in Nat
           /\ Len(wire) \in Nat /\ Len(sent) \in Nat /\ Len(got) \in Nat
           /\ need \in Nat /\ offset \in Nat
           /\ HeaderBytes \in Nat /\ HeaderBytes > 0 /\ MaxPayload \in Nat
<1>1. script \in Seq(Seq(Bytes))
  BY ScriptShape DEF WireTypes
<1> QED BY <1>1, PrefixAssumption, BoundsAssumption DEF WireTypes

(* The reader only depends on the bytes it has consumed, until the writer is
   gone. *)
LEMMA ReaderKeeps ==
    ASSUME WireInv, sent' \in Seq(Bytes), UNCHANGED <<script, readerVars>>,
           Consumed' = Consumed, Consumed <= Len(sent'),
           \A i \in 1..Consumed : sent'[i] = sent[i],
           writer \in Gone => UNCHANGED <<writer, sent>>
    PROVE  ReaderInv'
<1> USE DEF WireInv
<1>0. /\ script' = script /\ reader' = reader /\ need' = need /\ got' = got
      /\ offset' = offset /\ status' = status /\ received' = received
  BY DEF readerVars
<1>1. Flat' = Flat /\ Delivered' = Delivered
  BY <1>0 DEF Flat, Delivered
<1>2. /\ Len(wire) \in Nat /\ Len(sent) \in Nat /\ Len(got) \in Nat /\ offset \in Nat
      /\ HeaderBytes \in Nat /\ Len(wire) <= Len(sent)
  BY Sizes DEF StreamInv
<1>3. Consumed \in Nat /\ Consumed <= Len(sent)
  BY <1>2 DEF Consumed
<1>4. ASSUME offset + HeaderBytes <= Consumed PROVE HeaderAt' = HeaderAt
  <2> DEFINE n == offset + HeaderBytes
  <2>1. n \in Nat /\ offset <= n /\ n <= Len(sent) /\ n <= Len(sent')
    BY <1>2, <1>3, <1>4
  <2>2. \A i \in 1..n : sent'[i] = sent[i]
    BY <1>2, <1>3, <1>4
  <2>3. sent \in Seq(Bytes)
    BY DEF WireTypes
  <2> HIDE DEF n
  <2>4. SubSeq(sent', offset + 1, n) = SubSeq(sent, offset + 1, n)
    BY <1>2, <2>1, <2>2, <2>3, SamePiece
  <2> QED BY ZenonT(30), <1>0, <2>4 DEF HeaderAt, n
<1>5. Begins(received, script)' /\ (reader = "idle" => Consumed = Len(Flat[Delivered]))'
  BY <1>0, <1>1 DEF ReaderInv, Begins
<1>6. (reader \in Reading => offset = Len(Flat[Delivered]) /\ Len(got) < need)'
  BY <1>0, <1>1 DEF ReaderInv, Reading
<1>7. (reader = "header" =>
          /\ need = HeaderBytes
          /\ Consumed = offset + Len(got)
          /\ \A i \in 1..Len(got) : got[i] = sent[offset + i])'
  <2> SUFFICES ASSUME reader = "header"
               PROVE  (/\ need = HeaderBytes
                       /\ Consumed = offset + Len(got)
                       /\ \A i \in 1..Len(got) : got[i] = sent[offset + i])'
    BY <1>0
  <2>1. need = HeaderBytes /\ Consumed = offset + Len(got)
        /\ \A i \in 1..Len(got) : got[i] = sent[offset + i]
    BY DEF ReaderInv
  <2>2. \A i \in 1..Len(got) : offset + i \in 1..Consumed
    BY <1>2, <1>3, <2>1
  <2> QED BY <1>0, <2>1, <2>2
<1>8. (reader = "payload" =>
          /\ Consumed = (offset + HeaderBytes) + Len(got)
          /\ need = Length(HeaderAt) /\ need <= MaxPayload
          /\ \A i \in 1..Len(got) : got[i] = sent[(offset + HeaderBytes) + i])'
  <2> SUFFICES ASSUME reader = "payload"
               PROVE  (/\ Consumed = (offset + HeaderBytes) + Len(got)
                       /\ need = Length(HeaderAt) /\ need <= MaxPayload
                       /\ \A i \in 1..Len(got) : got[i] = sent[(offset + HeaderBytes) + i])'
    BY <1>0
  <2>1. /\ Consumed = (offset + HeaderBytes) + Len(got)
        /\ need = Length(HeaderAt) /\ need <= MaxPayload
        /\ \A i \in 1..Len(got) : got[i] = sent[(offset + HeaderBytes) + i]
    BY DEF ReaderInv
  <2>2. /\ \A i \in 1..Len(got) : (offset + HeaderBytes) + i \in 1..Consumed
        /\ offset + HeaderBytes <= Consumed
    BY <1>2, <1>3, <2>1
  <2>3. HeaderAt' = HeaderAt
    BY <1>4, <2>2
  <2>4. \A i \in 1..Len(got) : got[i] = sent'[(offset + HeaderBytes) + i]
    BY <2>1, <2>2
  <2> QED BY <1>0, <2>1, <2>3, <2>4
<1>9. (reader = "returned" /\ status = "ok" =>
          /\ Delivered > 0
          /\ offset = Len(Flat[Delivered - 1]) /\ Consumed = Len(Flat[Delivered])
          /\ Len(received[Delivered]) <= MaxPayload)'
  BY <1>0, <1>1 DEF ReaderInv
<1>10. (reader = "returned" /\ status = "protocol_error" =>
          offset + HeaderBytes <= Consumed /\ Length(HeaderAt) > MaxPayload)'
  BY <1>0, <1>4 DEF ReaderInv
<1>11. (reader = "returned" /\ status \in {"peer_closed", "io_error"} =>
          /\ writer \in Gone
          /\ offset <= Len(sent)
          /\ \/ Len(sent) < offset + HeaderBytes
             \/ /\ Length(HeaderAt) <= MaxPayload
                /\ Len(sent) < (offset + HeaderBytes) + Length(HeaderAt))'
  BY <1>0 DEF ReaderInv, HeaderAt
<1>12. (reader = "returned" => status # "none")'
  BY <1>0 DEF ReaderInv
<1> QED BY <1>5, <1>6, <1>7, <1>8, <1>9, <1>10, <1>11, <1>12 DEF ReaderInv

(* Nothing is handed over or lost: the writer only changes its state. *)
LEMMA WriterTurns ==
    ASSUME WireInv, UNCHANGED <<tls, script, outbox, pending, payload, sent, wire, readerVars>>,
           writer \notin Gone,
           \/ writer' \in {"failed", "closed"}
           \/ writer' = "send" /\ writer \in Writing
    PROVE  WireInv'
<1> USE DEF WireInv
<1>0. /\ tls' = tls /\ script' = script /\ outbox' = outbox /\ pending' = pending
      /\ payload' = payload /\ sent' = sent /\ wire' = wire
      /\ reader' = reader /\ need' = need /\ got' = got
      /\ offset' = offset /\ status' = status /\ received' = received
  BY DEF readerVars
<1>1. WireTypes'
  BY <1>0 DEF WireTypes, TypeOK, Writing, Gone
<1>2. StreamInv'
  BY <1>0 DEF StreamInv, Consumed
<1>3. Flat' = Flat /\ Written' = Written /\ \A k : AllFit(k)' = AllFit(k)
  BY <1>0 DEF Flat, Written, AllFit
<1>4. WriterInv'
  <2>1. (Len(outbox) <= Len(script) /\ \A i \in 1..Len(outbox) : outbox[i] = script[Written + i])'
    BY <1>0, <1>3 DEF WriterInv
  <2>2. (writer = "idle" => sent = Flat[Written] /\ AllFit(Written))'
    BY DEF Gone
  <2>3. (writer \in Writing =>
          /\ Written < Len(script) /\ AllFit(Written + 1)
          /\ pending # <<>>
          /\ (sent \o pending) \o payload = Flat[Written + 1])'
    BY <1>0, <1>3 DEF WriterInv, Writing, AllFit
  <2>4. (\E k \in 0..Len(script) : Begins(sent, Flat[k]) /\ AllFit(k))'
    BY <1>0, <1>3 DEF WriterInv, AllFit
  <2> QED BY SMTT(30), <2>1, <2>2, <2>3, <2>4 DEF WriterInv
<1>5. ReaderInv'
  <2>1. Consumed' = Consumed
    BY <1>0 DEF Consumed
  <2>2. Consumed <= Len(sent') /\ sent' \in Seq(Bytes)
    BY <1>0, Sizes DEF Consumed, WireTypes
  <2> QED BY <1>0, <2>1, <2>2, ReaderKeeps
<1> QED BY <1>1, <1>2, <1>4, <1>5

(* write_message() begins a frame that fits, or is refused. *)
LEMMA WriteCallKeeps ==
    ASSUME WireInv, WriteCall
    PROVE  WireInv'
<1> USE DEF WireInv
<1>1. CASE ~Fits(Len(Head(outbox)))
  BY <1>1, WriterTurns DEF WriteCall, Gone
<1>2. CASE Fits(Len(Head(outbox)))
  <2> DEFINE p == Head(outbox)
             w == Written
  <2>0. /\ writer = "idle" /\ outbox # <<>> /\ writer' = "wait"
        /\ pending' = Header(Len(p)) /\ payload' = p
        /\ tls' = tls /\ script' = script /\ outbox' = outbox
        /\ sent' = sent /\ wire' = wire /\ UNCHANGED readerVars
    BY <1>2 DEF WriteCall
  <2>1. /\ reader' = reader /\ need' = need /\ got' = got
        /\ offset' = offset /\ status' = status /\ received' = received
    BY <2>0 DEF readerVars
  <2>2. /\ outbox \in Seq(Seq(Bytes)) /\ script \in Seq(Seq(Bytes)) /\ sent \in Seq(Bytes)
        /\ Len(outbox) \in Nat /\ Len(outbox) > 0 /\ Len(script) \in Nat
        /\ Len(outbox) <= Len(script) /\ HeaderBytes > 0 /\ HeaderBytes \in Nat
    BY <2>0, Sizes DEF WireTypes, WriterInv
  <2>3. p = script[w + 1] /\ w \in Nat /\ w < Len(script) /\ w + 1 \in 1..Len(script)
    <3>1. p = outbox[1] /\ 1 \in 1..Len(outbox)
      BY <2>2
    <3>2. p = script[w + 1]
      BY <3>1 DEF WriterInv
    <3> QED BY <2>2, <3>2 DEF Written
  <2>4. p \in Seq(Bytes) /\ Len(p) \in Nat
    <3>1. p \in Seq(Bytes)
      BY <2>2, <2>3, ElementOfSeq
    <3> QED BY <3>1
  <2> DEFINE h == Header(Len(p))
  <2>5. h \in Seq(Bytes) /\ Len(h) = HeaderBytes /\ h # <<>>
    BY <2>2, <2>4, HeaderCarriesLength
  <2>6. WireTypes'
    <3> HIDE DEF p, h
    <3>1. pending' \in Seq(Bytes) /\ payload' \in Seq(Bytes)
      BY <2>0, <2>4, <2>5 DEF h
    <3> QED BY <2>0, <2>1, <3>1 DEF WireTypes, TypeOK, Writing
  <2>7. Flat' = Flat /\ Written' = w /\ \A k : AllFit(k)' = AllFit(k)
    BY <2>0 DEF Flat, Written, AllFit
  <2>8. AllFit(w + 1)
    <3>1. AllFit(w) /\ Fits(Len(script[w + 1]))
      BY <1>2, <2>0, <2>3 DEF WriterInv
    <3> HIDE DEF w
    <3> QED BY <2>3, <3>1 DEF AllFit
  <2>9. (sent \o h) \o p = Flat[w + 1]
    <3>1. sent = Flat[w]
      BY <2>0 DEF WriterInv
    <3>2. Flat[w + 1] = Flat[w] \o Frame(p)
      <4>1. FlatOf(script)[w + 1] = FlatOf(script)[(w + 1) - 1] \o Frame(script[w + 1])
        BY Zenon, <2>2, <2>3, FlatDef
      <4>2. (w + 1) - 1 = w
        BY <2>3
      <4> QED BY Zenon, <2>3, <4>1, <4>2 DEF Flat
    <3> HIDE DEF p
    <3>3. (sent \o h) \o p = sent \o (h \o p)
      <4> HIDE DEF h
      <4> QED BY ZenonT(30), <2>2, <2>4, <2>5, JoinThree
    <3> QED BY <3>1, <3>2, <3>3 DEF Frame
  <2>10. WriterInv'
    <3> HIDE DEF p, h, w
    <3>1. (Len(outbox) <= Len(script))' /\ (\A i \in 1..Len(outbox) : outbox[i] = script[Written + i])'
      BY <2>0, <2>7 DEF WriterInv, w
    <3>2. (Written < Len(script) /\ AllFit(Written + 1))'
      BY <2>0, <2>3, <2>7, <2>8 DEF AllFit
    <3>3. (pending # <<>> /\ (sent \o pending) \o payload = Flat[Written + 1])'
      BY <2>0, <2>5, <2>7, <2>9 DEF h
    <3>4. (\E k \in 0..Len(script) : Begins(sent, Flat[k]) /\ AllFit(k))'
      BY <2>0, <2>7 DEF WriterInv, AllFit
    <3> QED BY <2>0, <3>1, <3>2, <3>3, <3>4 DEF WriterInv
  <2>11. StreamInv'
    BY <2>0 DEF StreamInv, Consumed
  <2>12. ReaderInv'
    <3>1. Consumed' = Consumed
      BY <2>0 DEF Consumed
    <3>2. Consumed <= Len(sent') /\ sent' \in Seq(Bytes)
      BY <2>0, <2>2, Sizes DEF Consumed
    <3>3. UNCHANGED <<script, readerVars>> /\ writer \notin Gone
      BY <2>0 DEF Gone
    <3> QED BY <2>0, <3>1, <3>2, <3>3, ReaderKeeps
  <2> QED BY <2>6, <2>10, <2>11, <2>12
<1> QED BY <1>1, <1>2

(* A reset may lose bytes of the wire, none that were consumed. *)
LEMMA ResetKeeps ==
    ASSUME WireInv, NEW lost \in Nat, Reset(lost)
    PROVE  WireInv'
<1> USE DEF WireInv
<1> DEFINE n == Len(sent) - lost
           l == Len(wire) - lost
<1>0. /\ writer \notin Gone /\ lost <= Len(wire) /\ writer' = "reset"
      /\ wire' = SubSeq(wire, 1, l) /\ sent' = SubSeq(sent, 1, n)
      /\ tls' = tls /\ script' = script /\ outbox' = outbox
      /\ pending' = pending /\ payload' = payload /\ UNCHANGED readerVars
  BY Sizes DEF Reset
<1>1. /\ reader' = reader /\ need' = need /\ got' = got
      /\ offset' = offset /\ status' = status /\ received' = received
  BY <1>0 DEF readerVars
<1>2. /\ wire \in Seq(Bytes) /\ sent \in Seq(Bytes) /\ Len(wire) <= Len(sent)
      /\ Len(wire) \in Nat /\ Len(sent) \in Nat /\ script \in Seq(Seq(Bytes))
      /\ BufferSize \in Nat /\ Len(wire) <= BufferSize
  BY Sizes, BoundsAssumption DEF WireTypes, StreamInv, TypeOK
<1>3. n \in Nat /\ l \in Nat /\ n <= Len(sent) /\ l <= Len(wire)
  BY <1>0, <1>2
<1>4. n - l = Consumed
  BY <1>2 DEF Consumed
<1> HIDE DEF n, l
<1>5. sent' \in Seq(Bytes) /\ Len(sent') = n /\ \A i \in 1..n : sent'[i] = sent[i]
  <2>1. 0 + 1 = 1 /\ 0 <= n /\ n - 0 = n /\ \A i \in 1..n : 0 + i = i
    BY <1>3
  <2>2. /\ SubSeq(sent, 0 + 1, n) \in Seq(Bytes) /\ Len(SubSeq(sent, 0 + 1, n)) = n - 0
        /\ \A i \in 1..(n - 0) : SubSeq(sent, 0 + 1, n)[i] = sent[0 + i]
    BY <1>2, <1>3, <2>1, Cut
  <2> QED BY <1>0, <2>1, <2>2
<1>6. wire' \in Seq(Bytes) /\ Len(wire') = l /\ \A i \in 1..l : wire'[i] = wire[i]
  <2>1. 0 + 1 = 1 /\ 0 <= l /\ l - 0 = l /\ \A i \in 1..l : 0 + i = i
    BY <1>3
  <2>2. /\ SubSeq(wire, 0 + 1, l) \in Seq(Bytes) /\ Len(SubSeq(wire, 0 + 1, l)) = l - 0
        /\ \A i \in 1..(l - 0) : SubSeq(wire, 0 + 1, l)[i] = wire[0 + i]
    BY <1>2, <1>3, <2>1, Cut
  <2> QED BY <1>0, <2>1, <2>2
<1>7. WireTypes'
  <2>1. Len(wire') <= BufferSize
    BY <1>2, <1>3, <1>6
  <2> QED BY SMTT(30), <1>0, <1>1, <1>5, <1>6, <2>1 DEF WireTypes, TypeOK, Gone
<1>8. Consumed' = Consumed /\ Consumed \in Nat /\ Consumed <= n
  BY <1>2, <1>3, <1>4, <1>5, <1>6 DEF Consumed
<1>9. StreamInv'
  <2>1. Len(wire') <= Len(sent')
    BY <1>3, <1>4, <1>5, <1>6, <1>8
  <2>2. ASSUME NEW i \in 1..l PROVE wire'[i] = sent'[Consumed + i]
    <3>1. i \in 1..Len(wire) /\ Consumed + i \in 1..n
      BY <1>2, <1>3, <1>4, <1>8
    <3> QED BY <1>5, <1>6, <3>1 DEF StreamInv
  <2> QED BY <1>6, <1>8, <2>1, <2>2 DEF StreamInv
<1>10. Flat' = Flat /\ Written' = Written /\ \A k : AllFit(k)' = AllFit(k)
  BY <1>0 DEF Flat, Written, AllFit
<1>11. WriterInv'
  <2>1. (Len(outbox) <= Len(script) /\ \A i \in 1..Len(outbox) : outbox[i] = script[Written + i])'
    BY <1>0, <1>10 DEF WriterInv
  <2>2. PICK k \in 0..Len(script) : Begins(sent, Flat[k]) /\ AllFit(k)
    BY DEF WriterInv
  <2>3. Flat[k] \in Seq(Bytes)
    BY Zenon, <1>2, FlatDef DEF Flat
  <2>4. Begins(sent', Flat[k])
    <3>1. Len(sent) <= Len(Flat[k]) /\ \A i \in 1..Len(sent) : sent[i] = Flat[k][i]
      BY <2>2 DEF Begins
    <3>2. Len(sent) \in Nat /\ Len(Flat[k]) \in Nat
      BY <1>2, <2>3
    <3>3. n <= Len(Flat[k]) /\ \A i \in 1..n : i \in 1..Len(sent)
      BY ONLY <1>3, <3>1, <3>2
    <3>4. \A i \in 1..n : sent[i] = Flat[k][i]
      BY ONLY <3>1, <3>3
    <3> QED BY ONLY <1>5, <3>3, <3>4 DEF Begins
  <2>5. (\E j \in 0..Len(script) : Begins(sent, Flat[j]) /\ AllFit(j))'
    BY <1>0, <1>10, <2>2, <2>4 DEF AllFit
  <2>6. writer' # "idle" /\ writer' \notin Writing
    BY <1>0 DEF Writing
  <2> QED BY <2>1, <2>5, <2>6 DEF WriterInv
<1>12. ReaderInv'
  <2>1. Consumed <= Len(sent') /\ \A i \in 1..Consumed : sent'[i] = sent[i]
    BY <1>3, <1>5, <1>8
  <2>2. UNCHANGED <<script, readerVars>>
    BY <1>0
  <2> QED BY SMTT(30), <1>0, <1>5, <1>8, <2>1, <2>2, ReaderKeeps
<1> QED BY <1>7, <1>9, <1>11, <1>12

(* write_exact() hands over the next bytes of the frame; the last of them end the
   header or the message. *)
LEMMA HandOverKeeps ==
    ASSUME WireInv, NEW k \in Nat, HandOver(k)
    PROVE  WireInv'
<1> USE DEF WireInv
<1> DEFINE a == SubSeq(pending, 1, k)
           b == SubSeq(pending, k + 1, Len(pending))
           w == Written
<1>0. /\ writer \in Writing /\ k \in 1..Len(pending) /\ k <= BufferSize - Len(wire)
      /\ wire' = wire \o a /\ sent' = sent \o a
      /\ tls' = tls /\ script' = script /\ UNCHANGED readerVars
  BY DEF HandOver, Writing, Room
<1>1. /\ reader' = reader /\ need' = need /\ got' = got
      /\ offset' = offset /\ status' = status /\ received' = received
  BY <1>0 DEF readerVars
<1>2. /\ wire \in Seq(Bytes) /\ sent \in Seq(Bytes) /\ pending \in Seq(Bytes)
      /\ payload \in Seq(Bytes) /\ script \in Seq(Seq(Bytes)) /\ outbox \in Seq(Seq(Bytes))
  BY Sizes DEF WireTypes
<1>3. /\ Len(wire) \in Nat /\ Len(sent) \in Nat /\ Len(pending) \in Nat
      /\ Len(script) \in Nat /\ Len(outbox) \in Nat /\ BufferSize \in Nat
      /\ Len(wire) <= Len(sent) /\ Len(outbox) <= Len(script)
  BY Sizes, BoundsAssumption DEF StreamInv, WriterInv
<1>4. /\ w < Len(script) /\ AllFit(w + 1) /\ w \in Nat
      /\ (sent \o pending) \o payload = Flat[w + 1]
  <2>1. w < Len(script) /\ AllFit(w + 1) /\ (sent \o pending) \o payload = Flat[w + 1]
    BY SMTT(30), <1>0 DEF WriterInv
  <2>2. w \in Nat
    BY <1>3 DEF Written
  <2> QED BY <2>1, <2>2
<1>5. a \in Seq(Bytes) /\ Len(a) = k /\ k > 0 /\ k <= Len(pending)
  <2>1. 0 + 1 = 1 /\ 0 <= k /\ k - 0 = k /\ k <= Len(pending) /\ k > 0
    BY <1>0, <1>3
  <2>2. SubSeq(pending, 0 + 1, k) \in Seq(Bytes) /\ Len(SubSeq(pending, 0 + 1, k)) = k - 0
    BY <1>2, <2>1, Cut
  <2> QED BY <2>1, <2>2
<1>6. b \in Seq(Bytes) /\ Len(b) = Len(pending) - k
  BY <1>2, <1>3, <1>5, Cut
<1>7. a \o b = pending
  <2>1. /\ 1 \in 1..(Len(pending) + 1) /\ k \in (1 - 1)..Len(pending)
        /\ Len(pending) \in k..Len(pending)
    BY <1>3, <1>5
  <2>2. a \o b = SubSeq(pending, 1, Len(pending))
    BY Zenon, <1>2, <2>1, ConcatAdjacentSubSeq
  <2> QED BY Zenon, <1>2, <2>2, SubSeqFull
<1> HIDE DEF a, b, w
<1>8. /\ sent' \in Seq(Bytes) /\ Len(sent') = Len(sent) + k
      /\ \A i \in 1..Len(sent) : sent'[i] = sent[i]
      /\ \A i \in 1..k : sent'[Len(sent) + i] = a[i]
  <2>1. /\ sent \o a \in Seq(Bytes) /\ Len(sent \o a) = Len(sent) + Len(a)
        /\ \A i \in 1..Len(sent) : (sent \o a)[i] = sent[i]
        /\ \A i \in 1..Len(a) : (sent \o a)[Len(sent) + i] = a[i]
    BY Zenon, <1>2, <1>5, Join
  <2> QED BY <1>0, <1>5, <2>1
<1>9. /\ wire' \in Seq(Bytes) /\ Len(wire') = Len(wire) + k
      /\ \A i \in 1..Len(wire) : wire'[i] = wire[i]
      /\ \A i \in 1..k : wire'[Len(wire) + i] = a[i]
  <2>1. /\ wire \o a \in Seq(Bytes) /\ Len(wire \o a) = Len(wire) + Len(a)
        /\ \A i \in 1..Len(wire) : (wire \o a)[i] = wire[i]
        /\ \A i \in 1..Len(a) : (wire \o a)[Len(wire) + i] = a[i]
    BY Zenon, <1>2, <1>5, Join
  <2> QED BY <1>0, <1>5, <2>1
<1>10. Consumed' = Consumed /\ Consumed \in Nat /\ Consumed + Len(wire) = Len(sent)
  BY <1>3, <1>8, <1>9 DEF Consumed
<1>11. StreamInv'
  <2>1. Len(wire') <= Len(sent')
    BY <1>3, <1>8, <1>9
  <2>2. ASSUME NEW i \in 1..Len(wire') PROVE wire'[i] = sent'[Consumed + i]
    <3>1. CASE i <= Len(wire)
      <4>1. i \in 1..Len(wire) /\ Consumed + i \in 1..Len(sent)
        BY <1>3, <1>9, <1>10, <3>1
      <4> QED BY SMTT(30), <1>8, <1>9, <4>1 DEF StreamInv
    <3>2. CASE ~(i <= Len(wire))
      <4> DEFINE j == i - Len(wire)
                 lw == Len(wire)
                 ls == Len(sent)
      <4>0. lw \in Nat /\ ls \in Nat /\ i \in 1..(lw + k) /\ ~(i <= lw) /\ Consumed + lw = ls
        BY <1>3, <1>9, <1>10, <3>2
      <4>1. j \in 1..k /\ i = Len(wire) + j /\ Consumed + i = Len(sent) + j
        <5> HIDE DEF lw, ls
        <5>1. i - lw \in 1..k /\ i = lw + (i - lw) /\ Consumed + i = ls + (i - lw)
          BY <1>10, <4>0
        <5> QED BY <5>1 DEF lw, ls
      <4> HIDE DEF j
      <4> QED BY Zenon, <1>8, <1>9, <4>1
    <3> QED BY <3>1, <3>2
  <2> QED BY <1>10, <2>1, <2>2 DEF StreamInv
<1>12. ReaderInv'
  <2>1. Consumed <= Len(sent') /\ \A i \in 1..Consumed : sent'[i] = sent[i]
    BY <1>3, <1>8, <1>10
  <2>2. UNCHANGED <<script, readerVars>> /\ writer \notin Gone
    BY <1>0 DEF Writing, Gone
  <2> QED BY <1>8, <1>10, <2>1, <2>2, ReaderKeeps
<1>13. Flat' = Flat /\ \A n : AllFit(n)' = AllFit(n)
  BY <1>0 DEF Flat, AllFit
<1>14. w + 1 \in 0..Len(script) /\ Flat[w + 1] \in Seq(Bytes)
  <2>1. w + 1 \in 0..Len(script)
    BY <1>3, <1>4
  <2> QED BY Zenon, <1>2, <2>1, FlatDef DEF Flat
<1>15. (sent' \o b) \o payload = Flat[w + 1]
  <2>1. sent \o (a \o b) = (sent \o a) \o b
    <3>1. sent \in Seq(Bytes) /\ a \in Seq(Bytes) /\ b \in Seq(Bytes)
      BY ONLY <1>2, <1>5, <1>6
    <3> QED BY ONLY SMTT(30), <3>1, JoinThree
  <2> QED BY Zenon, <1>0, <1>4, <1>7, <2>1
<1>16. Begins(sent', Flat[w + 1])
  <2> DEFINE c == b \o payload
  <2>1. c \in Seq(Bytes)
    BY <1>2, <1>6, Join
  <2>2. (sent' \o b) \o payload = sent' \o c
    <3> DEFINE s1 == sent'
    <3>1. s1 \in Seq(Bytes)
      BY <1>8
    <3> HIDE DEF s1
    <3>2. (s1 \o b) \o payload = s1 \o (b \o payload)
      BY Zenon, <1>2, <1>6, <3>1, JoinThree
    <3> QED BY <3>2 DEF s1
  <2> HIDE DEF c
  <2>3. Len(sent' \o c) = Len(sent') + Len(c) /\ \A i \in 1..Len(sent') : (sent' \o c)[i] = sent'[i]
    BY Zenon, <1>8, <2>1, Join
  <2>4. Flat[w + 1] = sent' \o c
    BY <1>15, <2>2
  <2>5. Len(sent') \in Nat /\ Len(c) \in Nat
    BY <1>8, <2>1
  <2> QED BY <2>3, <2>4, <2>5 DEF Begins
<1>17. (\E j \in 0..Len(script) : Begins(sent, Flat[j]) /\ AllFit(j))'
  BY SMTT(30), <1>0, <1>4, <1>13, <1>14, <1>16 DEF AllFit
<1>18. Len(wire') <= BufferSize
  BY <1>0, <1>3, <1>9
<1>19. CASE k < Len(pending)
  <2>1. pending' = b /\ writer' \in Writing /\ payload' = payload /\ outbox' = outbox
    BY <1>0, <1>19 DEF HandOver, b, Writing
  <2>2. WireTypes'
    BY <1>0, <1>1, <1>6, <1>8, <1>9, <1>18, <2>1 DEF WireTypes, TypeOK, Writing
  <2>3. Written' = w
    BY <1>0, <2>1 DEF Written, w
  <2>4. b # <<>>
    BY <1>3, <1>6, <1>19
  <2>5. (Len(outbox) <= Len(script))' /\ (\A i \in 1..Len(outbox) : outbox[i] = script[Written + i])'
    BY <1>0, <2>1, <2>3 DEF WriterInv, w
  <2>6. (Written < Len(script) /\ AllFit(Written + 1))'
    BY <1>0, <1>4, <2>3 DEF AllFit
  <2>7. (pending # <<>> /\ (sent \o pending) \o payload = Flat[Written + 1])'
    BY <1>13, <1>15, <2>1, <2>3, <2>4
  <2>8. WriterInv'
    BY Zenon, <1>17, <2>1, <2>5, <2>6, <2>7 DEF WriterInv, Writing
  <2> QED BY <1>11, <1>12, <2>2, <2>8
<1>20. CASE ~(k < Len(pending))
  <2>1. /\ pending' = payload /\ payload' = <<>>
        /\ writer' = IF payload = <<>> THEN "idle" ELSE "wait"
        /\ outbox' = IF payload = <<>> THEN Tail(outbox) ELSE outbox
    BY <1>0, <1>20 DEF HandOver
  <2>2. b = <<>>
    BY <1>3, <1>5, <1>6, <1>20
  <2>3. sent' \o payload = Flat[w + 1]
    <3>1. sent' \o b = sent'
      BY <1>8, <2>2, ConcatEmptySeq
    <3> QED BY <1>15, <3>1
  <2>4. outbox # <<>>
    BY <1>3, <1>4 DEF Written, w
  <2>5. CASE payload = <<>>
    <3>1. /\ Tail(outbox) \in Seq(Seq(Bytes)) /\ Len(Tail(outbox)) = Len(outbox) - 1
          /\ \A i \in 1..Len(Tail(outbox)) : Tail(outbox)[i] = outbox[i + 1]
      BY <1>2, <2>4, HeadTailProperties
    <3>2. WireTypes'
      BY <1>0, <1>1, <1>2, <1>8, <1>9, <1>18, <2>1, <2>5, <3>1 DEF WireTypes, TypeOK
    <3>3. Written' = w + 1
      BY <1>0, <1>3, <2>1, <2>5, <3>1 DEF Written, w
    <3>4. sent' = Flat[w + 1]
      <4>1. sent' \o payload = sent'
        BY <1>8, <2>5, ConcatEmptySeq
      <4> QED BY <2>3, <4>1
    <3>5. (Len(outbox) <= Len(script))'
      BY <1>0, <1>3, <2>1, <2>5, <3>1
    <3>6. (\A i \in 1..Len(outbox) : outbox[i] = script[Written + i])'
      <4>1. ASSUME NEW i \in 1..Len(Tail(outbox)) PROVE Tail(outbox)[i] = script[(w + 1) + i]
        <5>1. i + 1 \in 1..Len(outbox) /\ w + (i + 1) = (w + 1) + i
          BY <1>3, <1>4, <3>1
        <5>2. outbox[i + 1] = script[w + (i + 1)]
          BY <5>1 DEF WriterInv, w
        <5> QED BY <3>1, <5>1, <5>2
      <4> QED BY <1>0, <2>1, <2>5, <3>3, <4>1
    <3>7. (sent = Flat[Written] /\ AllFit(Written))'
      BY <1>0, <1>4, <1>13, <3>3, <3>4 DEF AllFit
    <3>8. WriterInv'
      BY SMTT(30), <1>17, <2>1, <2>5, <3>5, <3>6, <3>7 DEF WriterInv, Writing
    <3> QED BY <1>11, <1>12, <3>2, <3>8
  <2>6. CASE payload # <<>>
    <3>1. WireTypes'
      BY <1>0, <1>1, <1>2, <1>8, <1>9, <1>18, <2>1, <2>6 DEF WireTypes, TypeOK, Writing
    <3>2. Written' = w
      BY <1>0, <2>1, <2>6 DEF Written, w
    <3>3. (Len(outbox) <= Len(script))' /\ (\A i \in 1..Len(outbox) : outbox[i] = script[Written + i])'
      BY SMTT(30), <1>0, <2>1, <2>6, <3>2 DEF WriterInv, w
    <3>4. (Written < Len(script) /\ AllFit(Written + 1))'
      BY <1>0, <1>4, <3>2 DEF AllFit
    <3>5. (sent' \o payload) \o <<>> = Flat[w + 1]
      <4>1. sent' \o payload \in Seq(Bytes)
        BY <1>2, <1>8, Join
      <4>2. (sent' \o payload) \o <<>> = sent' \o payload
        BY <4>1, ConcatEmptySeq
      <4> QED BY <2>3, <4>2
    <3>6. (pending # <<>> /\ (sent \o pending) \o payload = Flat[Written + 1])'
      BY SMTT(30), <1>13, <2>1, <2>6, <3>2, <3>5
    <3>7. WriterInv'
      BY SMTT(30), <1>17, <2>1, <2>6, <3>3, <3>4, <3>6 DEF WriterInv, Writing
    <3> QED BY <1>11, <1>12, <3>1, <3>7
  <2> QED BY <2>5, <2>6
<1> QED BY <1>19, <1>20

-----------------------------------------------------------------------------
(* The steps of the reader. *)

(* What the writer has done does not depend on the reader. *)
LEMMA WriterKeeps ==
    ASSUME WriterInv, UNCHANGED writerVars
    PROVE  WriterInv'
<1>1. /\ script' = script /\ outbox' = outbox /\ writer' = writer
      /\ pending' = pending /\ payload' = payload /\ sent' = sent
  BY DEF writerVars
<1>2. Flat' = Flat /\ Written' = Written
  BY <1>1 DEF Flat, Written
<1>3. (Len(outbox) <= Len(script) /\ \A i \in 1..Len(outbox) : outbox[i] = script[Written + i])'
  BY <1>1, <1>2 DEF WriterInv
<1>4. (writer = "idle" => sent = Flat[Written] /\ AllFit(Written))'
  BY <1>1, <1>2 DEF WriterInv, AllFit
<1>5. (writer \in Writing =>
          /\ Written < Len(script) /\ AllFit(Written + 1)
          /\ pending # <<>>
          /\ (sent \o pending) \o payload = Flat[Written + 1])'
  BY <1>1, <1>2 DEF WriterInv, AllFit, Writing
<1>6. (\E k \in 0..Len(script) : Begins(sent, Flat[k]) /\ AllFit(k))'
  BY <1>1, <1>2 DEF WriterInv, AllFit
<1> QED BY <1>3, <1>4, <1>5, <1>6 DEF WriterInv

(* read_message() begins where a frame ends. *)
LEMMA ReadCallKeeps ==
    ASSUME WireInv, ReadCall
    PROVE  WireInv'
<1> USE DEF WireInv
<1>0. /\ reader = "idle" /\ reader' = "header" /\ need' = HeaderBytes /\ got' = <<>>
      /\ offset' = Consumed /\ tls' = tls /\ UNCHANGED writerVars /\ wire' = wire
      /\ status' = status /\ received' = received
  BY DEF ReadCall, Consumed
<1>1. /\ script' = script /\ outbox' = outbox /\ writer' = writer
      /\ pending' = pending /\ payload' = payload /\ sent' = sent
  BY <1>0 DEF writerVars
<1>2. /\ HeaderBytes \in Nat /\ HeaderBytes > 0 /\ Len(sent) \in Nat /\ Len(wire) \in Nat
      /\ Len(wire) <= Len(sent)
  BY Sizes DEF StreamInv
<1>3. Consumed \in Nat /\ Consumed' = Consumed
  BY <1>0, <1>1, <1>2 DEF Consumed
<1>4. got' \in Seq(Bytes) /\ Len(got') = 0
  BY <1>0
<1>5. WireTypes'
  BY <1>0, <1>1, <1>2, <1>3, <1>4 DEF WireTypes, TypeOK, Reading
<1>6. WriterInv'
  BY <1>0, WriterKeeps
<1>7. StreamInv'
  BY <1>0, <1>1, <1>3 DEF StreamInv
<1>8. Flat' = Flat /\ Delivered' = Delivered /\ Consumed = Len(Flat[Delivered])
  BY <1>0, <1>1 DEF Flat, Delivered, ReaderInv
<1>9. Begins(received, script)'
  BY <1>0, <1>1 DEF ReaderInv, Begins
<1>10. Consumed' = offset' + Len(got') /\ Len(got') < need'
  BY <1>0, <1>2, <1>3, <1>4
<1>11. ReaderInv'
  BY <1>0, <1>4, <1>8, <1>9, <1>10 DEF ReaderInv, Reading
<1> QED BY <1>5, <1>6, <1>7, <1>11

(* A read_message() that returns without a message. *)
LEMMA ReturnKeeps ==
    ASSUME WireInv, reader \in Reading, reader' = "returned", received' = received,
           status' \in {"timeout", "peer_closed", "io_error"},
           status' # "timeout" => wire = <<>> /\ writer \in Gone,
           need' = need, got' = <<>>, UNCHANGED <<tls, writerVars, wire, offset>>
    PROVE  WireInv'
<1> USE DEF WireInv
<1>1. /\ script' = script /\ outbox' = outbox /\ writer' = writer
      /\ pending' = pending /\ payload' = payload /\ sent' = sent
      /\ tls' = tls /\ wire' = wire /\ offset' = offset
  BY DEF writerVars
<1>2. /\ HeaderBytes \in Nat /\ Len(sent) \in Nat /\ Len(wire) \in Nat
      /\ Len(got) \in Nat /\ offset \in Nat /\ need \in Nat
  BY Sizes
<1>3. got' \in Seq(Bytes) /\ Len(got') = 0
  OBVIOUS
<1>4. WireTypes'
  BY <1>1, <1>2, <1>3 DEF WireTypes, TypeOK
<1>5. WriterInv'
  BY WriterKeeps
<1>6. StreamInv'
  BY <1>1 DEF StreamInv, Consumed
<1>7. Begins(received, script)'
  BY <1>1 DEF ReaderInv, Begins
<1>8. ASSUME wire = <<>>
      PROVE  /\ offset <= Len(sent)
             /\ \/ Len(sent) < offset + HeaderBytes
                \/ /\ Length(HeaderAt) <= MaxPayload
                   /\ Len(sent) < (offset + HeaderBytes) + Length(HeaderAt)
  <2>1. Consumed = Len(sent) /\ Len(got) < need
    BY <1>2, <1>8 DEF Consumed, ReaderInv
  <2>2. CASE reader = "header"
    <3>1. need = HeaderBytes /\ Consumed = offset + Len(got)
      BY <2>2 DEF ReaderInv
    <3> QED BY <1>2, <2>1, <3>1
  <2>3. CASE reader = "payload"
    <3>1. /\ Consumed = (offset + HeaderBytes) + Len(got)
          /\ need = Length(HeaderAt) /\ need <= MaxPayload
      BY <2>3 DEF ReaderInv
    <3> DEFINE l == Length(HeaderAt)
    <3> HIDE DEF l
    <3>2. need = l
      BY <3>1 DEF l
    <3>3. offset <= Len(sent) /\ l <= MaxPayload /\ Len(sent) < (offset + HeaderBytes) + l
      BY <1>2, <2>1, <3>1, <3>2
    <3> QED BY <3>3 DEF l
  <2> QED BY <2>2, <2>3 DEF Reading
<1>9. HeaderAt' = HeaderAt
  BY <1>1 DEF HeaderAt
<1>10. ReaderInv'
  BY <1>1, <1>7, <1>8, <1>9 DEF ReaderInv, Reading
<1> QED BY <1>4, <1>5, <1>6, <1>10

(* The caller goes on to the next message, or closes. *)
LEMMA GoesOnKeeps ==
    ASSUME WireInv, ReaderGoesOn
    PROVE  WireInv'
<1> USE DEF WireInv
<1>0. /\ reader = "returned" /\ reader' \in {"idle", "closed"}
      /\ reader' = "idle" => status = "ok"
      /\ tls' = tls /\ UNCHANGED writerVars /\ wire' = wire /\ need' = need /\ got' = got
      /\ offset' = offset /\ status' = status /\ received' = received
  BY DEF ReaderGoesOn
<1>1. /\ script' = script /\ outbox' = outbox /\ writer' = writer
      /\ pending' = pending /\ payload' = payload /\ sent' = sent
  BY <1>0 DEF writerVars
<1>2. WireTypes'
  BY <1>0, <1>1 DEF WireTypes, TypeOK, Reading
<1>3. WriterInv'
  BY <1>0, WriterKeeps
<1>4. StreamInv'
  BY <1>0, <1>1 DEF StreamInv, Consumed
<1>5. Begins(received, script)'
  BY <1>0, <1>1 DEF ReaderInv, Begins
<1>6. (reader = "idle" => Consumed = Len(Flat[Delivered]))'
  BY <1>0, <1>1 DEF ReaderInv, Consumed, Flat, Delivered
<1>7. ReaderInv'
  BY SMTT(30), <1>0, <1>5, <1>6 DEF ReaderInv, Reading
<1> QED BY <1>2, <1>3, <1>4, <1>7

(* A read_message() that delivers the next payload of the script. *)
LEMMA DeliverKeeps ==
    ASSUME WireInv, reader \in Reading, Delivered < Len(script), NEW p \in Seq(Bytes),
           p = script[Delivered + 1], Len(p) <= MaxPayload,
           reader' = "returned", status' = "ok", received' = Append(received, p),
           script' = script, offset' = offset, Consumed' = Len(Flat[Delivered + 1])
    PROVE  ReaderInv' /\ received' \in Seq(Seq(Bytes))
<1> USE DEF WireInv
<1>1. /\ received \in Seq(Seq(Bytes)) /\ script \in Seq(Seq(Bytes))
      /\ Len(received) \in Nat /\ Len(script) \in Nat
  BY Sizes DEF WireTypes
<1> DEFINE d == Len(received)
           q == Append(received, p)
<1>2. /\ q \in Seq(Seq(Bytes)) /\ Len(q) = d + 1 /\ q[d + 1] = p
      /\ \A i \in 1..d : q[i] = received[i]
  BY <1>1, AppendProperties
<1> HIDE DEF q
<1>3. d < Len(script) /\ p = script[d + 1]
  BY DEF Delivered
<1>4. Begins(q, script)
  <2>1. Len(q) <= Len(script)
    BY SMTT(30), <1>1, <1>2, <1>3
  <2>2. ASSUME NEW i \in 1..Len(q) PROVE q[i] = script[i]
    <3>1. i \in 1..d \/ i = d + 1
      BY <1>1, <1>2
    <3> QED BY SMTT(30), <1>2, <1>3, <3>1 DEF ReaderInv, Begins
  <2> QED BY <2>1, <2>2 DEF Begins
<1>5. received' = q /\ Delivered' = d + 1 /\ Delivered = d /\ Flat' = Flat
  BY <1>2 DEF Delivered, Flat, q
<1>6. (/\ Delivered > 0
       /\ offset = Len(Flat[Delivered - 1]) /\ Consumed = Len(Flat[Delivered])
       /\ Len(received[Delivered]) <= MaxPayload)'
  <2>1. d + 1 > 0 /\ (d + 1) - 1 = d
    BY <1>1
  <2>2. offset = Len(Flat[d])
    BY <1>5 DEF ReaderInv
  <2> QED BY <1>2, <1>5, <2>1, <2>2
<1>7. Begins(received, script)'
  BY <1>4, <1>5
<1> QED BY <1>2, <1>5, <1>6, <1>7 DEF ReaderInv, Reading

(* recv() returns bytes of the header or of the payload; the last of them end
   the one or deliver the other. *)
LEMMA ReceiveKeeps ==
    ASSUME WireInv, NEW k \in Nat, Receive(k)
    PROVE  WireInv'
<1> USE DEF WireInv
<1> DEFINE a == SubSeq(wire, 1, k)
           bytes == got \o a
           rest == SubSeq(wire, k + 1, Len(wire))
           base == IF reader = "header" THEN offset ELSE offset + HeaderBytes
<1>0. /\ reader \in Reading /\ k \in 1..(need - Len(got)) /\ k <= Len(wire)
      /\ IF Complete(bytes)
         THEN Got(bytes) /\ got' = <<>>
         ELSE got' = bytes /\ UNCHANGED <<reader, need, status, received>>
      /\ wire' = rest /\ tls' = tls /\ UNCHANGED writerVars /\ offset' = offset
  BY DEF Receive
<1>1. /\ script' = script /\ outbox' = outbox /\ writer' = writer
      /\ pending' = pending /\ payload' = payload /\ sent' = sent
  BY <1>0 DEF writerVars
<1>2. /\ wire \in Seq(Bytes) /\ sent \in Seq(Bytes) /\ got \in Seq(Bytes)
      /\ script \in Seq(Seq(Bytes)) /\ received \in Seq(Seq(Bytes))
  BY Sizes DEF WireTypes
<1>3. /\ Len(wire) \in Nat /\ Len(sent) \in Nat /\ Len(got) \in Nat /\ need \in Nat
      /\ offset \in Nat /\ HeaderBytes \in Nat /\ HeaderBytes > 0 /\ Len(wire) <= Len(sent)
      /\ MaxPayload \in Nat /\ BufferSize \in Nat /\ Len(wire) <= BufferSize
      /\ Len(received) \in Nat /\ Len(script) \in Nat
  BY Sizes, BoundsAssumption DEF StreamInv, WireTypes, TypeOK
<1>4. k > 0 /\ k <= need - Len(got) /\ k <= Len(wire)
  BY <1>0, <1>3
<1>5. a \in Seq(Bytes) /\ Len(a) = k /\ \A i \in 1..k : a[i] = wire[i]
  <2>1. 0 + 1 = 1 /\ 0 <= k /\ k - 0 = k /\ \A i \in 1..k : 0 + i = i
    BY <1>4
  <2>2. /\ SubSeq(wire, 0 + 1, k) \in Seq(Bytes) /\ Len(SubSeq(wire, 0 + 1, k)) = k - 0
        /\ \A i \in 1..(k - 0) : SubSeq(wire, 0 + 1, k)[i] = wire[0 + i]
    BY <1>2, <1>4, <2>1, Cut
  <2> QED BY <2>1, <2>2
<1>6. /\ rest \in Seq(Bytes) /\ Len(rest) = Len(wire) - k
      /\ \A i \in 1..(Len(wire) - k) : rest[i] = wire[k + i]
  BY <1>2, <1>3, <1>4, Cut
<1> HIDE DEF a, rest
<1>7. /\ bytes \in Seq(Bytes) /\ Len(bytes) = Len(got) + k
      /\ \A i \in 1..Len(got) : bytes[i] = got[i]
      /\ \A i \in 1..k : bytes[Len(got) + i] = a[i]
  BY Zenon, <1>2, <1>5, Join
<1> HIDE DEF bytes
<1>8. Consumed' = Consumed + k /\ Consumed \in Nat /\ Consumed' \in Nat /\ Consumed' <= Len(sent)
  BY <1>0, <1>1, <1>3, <1>4, <1>6 DEF Consumed
<1>9. /\ Consumed = base + Len(got) /\ base \in Nat
      /\ \A i \in 1..Len(got) : got[i] = sent[base + i]
  <2>1. CASE reader = "header"
    BY <1>3, <2>1 DEF ReaderInv
  <2>2. CASE reader = "payload"
    <3>1. /\ Consumed = (offset + HeaderBytes) + Len(got)
          /\ \A i \in 1..Len(got) : got[i] = sent[(offset + HeaderBytes) + i]
      BY <2>2 DEF ReaderInv
    <3>2. base = offset + HeaderBytes
      BY <2>2
    <3> QED BY SMTT(30), <1>3, <3>1, <3>2
  <2> QED BY <1>0, <2>1, <2>2 DEF Reading
<1>10. (reader = "header" => base = offset) /\ (reader = "payload" => base = offset + HeaderBytes)
  OBVIOUS
<1> HIDE DEF base
<1>11. Consumed' = base + Len(bytes) /\ Len(bytes) \in Nat
  BY <1>3, <1>7, <1>8, <1>9
<1>12. ASSUME NEW i \in 1..Len(bytes) PROVE bytes[i] = sent[base + i]
  <2>1. CASE i <= Len(got)
    <3>1. i \in 1..Len(got)
      BY <1>3, <2>1
    <3> QED BY <1>7, <1>9, <3>1
  <2>2. CASE ~(i <= Len(got))
    <3> DEFINE j == i - Len(got)
    <3>1. j \in 1..k /\ i = Len(got) + j /\ base + i = Consumed + j
      BY <1>3, <1>7, <1>9, <2>2
    <3>2. j \in 1..Len(wire)
      BY <1>3, <1>4, <3>1
    <3> HIDE DEF j
    <3>3. bytes[i] = a[j] /\ a[j] = wire[j] /\ wire[j] = sent[Consumed + j]
      BY <1>5, <1>7, <3>1, <3>2 DEF StreamInv
    <3> QED BY <3>1, <3>3
  <2> QED BY <2>1, <2>2
<1>13. StreamInv'
  <2>1. Len(wire') = Len(wire) - k /\ Len(wire') <= Len(sent')
    BY SMTT(30), <1>0, <1>1, <1>3, <1>4, <1>6
  <2>2. ASSUME NEW i \in 1..Len(wire') PROVE wire'[i] = sent'[Consumed' + i]
    <3>1. i \in 1..(Len(wire) - k) /\ k + i \in 1..Len(wire) /\ Consumed' + i = Consumed + (k + i)
      BY <1>3, <1>4, <1>8, <2>1
    <3>2. wire[k + i] = sent[Consumed + (k + i)]
      BY <3>1 DEF StreamInv
    <3> QED BY <1>0, <1>1, <1>6, <3>1, <3>2
  <2> QED BY <2>1, <2>2 DEF StreamInv
<1>14. WriterInv'
  BY <1>0, WriterKeeps
<1>15. wire' \in Seq(Bytes) /\ Len(wire') <= BufferSize
  BY <1>0, <1>3, <1>4, <1>6
<1>16. Flat' = Flat
  BY <1>1 DEF Flat
<1>17. HeaderAt' = HeaderAt
  BY <1>0, <1>1 DEF HeaderAt
<1>18. CASE ~Complete(bytes)
  <2>1. /\ got' = bytes /\ reader' = reader /\ need' = need
        /\ status' = status /\ received' = received
    BY <1>0, <1>18
  <2>2. Len(bytes) < need
    <3> DEFINE n == Len(bytes)
    <3>1. n # need /\ n = Len(got) + k
      BY <1>7, <1>18 DEF Complete
    <3> HIDE DEF n
    <3>2. n < need
      BY SMTT(30), <1>3, <1>4, <3>1
    <3> QED BY <3>2 DEF n
  <2>3. WireTypes'
    BY SMTT(30), <1>0, <1>1, <1>7, <1>15, <2>1, <2>2, <1>11, <1>3 DEF WireTypes, TypeOK
  <2>4. Begins(received, script)'
    BY <1>1, <2>1 DEF ReaderInv, Begins
  <2>5. offset' = Len(Flat'[Delivered']) /\ Len(got') < need'
    BY SMTT(30), <1>0, <1>16, <2>1, <2>2 DEF ReaderInv, Delivered
  <2>6. \A i \in 1..Len(got') : got'[i] = sent'[base + i]
    BY <1>1, <1>12, <2>1
  <2>7. ReaderInv'
    <3>1. /\ Consumed' = base + Len(got') /\ reader' = reader /\ need' = need
          /\ offset' = offset /\ HeaderAt' = HeaderAt
      BY SMTT(30), <1>0, <1>11, <1>17, <2>1
    <3>2. CASE reader = "header"
      <4>1. need = HeaderBytes /\ base = offset
        BY SMTT(30), <1>10, <3>2 DEF ReaderInv
      <4> QED BY ONLY SMTT(30), <2>4, <2>5, <2>6, <3>1, <3>2, <4>1 DEF ReaderInv, Reading
    <3>3. CASE reader = "payload"
      <4>1. base = offset + HeaderBytes /\ need = Length(HeaderAt) /\ need <= MaxPayload
        BY <1>10, <3>3 DEF ReaderInv
      <4> QED BY ONLY SMTT(30), <2>4, <2>5, <2>6, <3>1, <3>3, <4>1 DEF ReaderInv, Reading
    <3> QED BY <1>0, <3>2, <3>3 DEF Reading
  <2> QED BY <1>13, <1>14, <2>3, <2>7
<1>19. CASE Complete(bytes)
  <2>0. Len(bytes) = need /\ Got(bytes) /\ got' = <<>>
    BY <1>0, <1>19 DEF Complete
  <2>1. got' \in Seq(Bytes) /\ Len(got') = 0
    BY <2>0
  <2> DEFINE d == Delivered
             p == script[d + 1]
  <2>2. d \in 0..Len(script) /\ offset = Len(Flat[d])
    BY <1>0, <1>3 DEF ReaderInv, Begins, Delivered
  <2>3. offset + HeaderBytes <= Len(sent) /\ offset + HeaderBytes <= Consumed'
    <3>1. CASE reader = "header"
      BY <1>3, <1>8, <1>10, <1>11, <2>0, <3>1 DEF ReaderInv
    <3>2. CASE reader = "payload"
      BY SMTT(30), <1>3, <1>8, <1>10, <1>11, <3>2
    <3> QED BY SMTT(30), <1>0, <3>1, <3>2 DEF Reading
  <2>4. /\ d < Len(script) /\ Length(HeaderAt) = Len(p)
        /\ Len(Flat[d + 1]) = (offset + HeaderBytes) + Len(p)
        /\ \A i \in 1..Len(p) : (offset + HeaderBytes) + i <= Len(sent) =>
                                   sent[(offset + HeaderBytes) + i] = p[i]
    <3> HIDE DEF d
    <3> QED BY <2>2, <2>3, StreamSays
  <2>5. p \in Seq(Bytes) /\ Len(p) \in Nat
    <3>1. d + 1 \in 1..Len(script)
      BY <1>3, <2>2, <2>4
    <3>2. p \in Seq(Bytes)
      BY <1>2, <3>1, ElementOfSeq
    <3> QED BY <3>2
  <2> HIDE DEF p
  <2>6. CASE reader = "payload"
    <3>1. /\ reader' = "returned" /\ status' = "ok" /\ received' = Append(received, bytes)
          /\ need' = need
      BY SMTT(30), <2>0, <2>6 DEF Got, Return
    <3>2. Len(bytes) = Len(p) /\ Len(p) <= MaxPayload
      BY SMTT(30), <2>0, <2>4, <2>6 DEF ReaderInv
    <3>3. bytes = p
      <4>1. ASSUME NEW i \in 1..Len(bytes) PROVE bytes[i] = p[i]
        <5>1. base = offset + HeaderBytes /\ base + i <= Len(sent)
          BY <1>3, <1>8, <1>10, <1>11, <2>6
        <5> QED BY <1>12, <2>4, <3>2, <5>1
      <4> QED BY SMTT(30), <1>7, <2>5, <3>2, <4>1, SameBytes
    <3>4. Consumed' = Len(Flat[d + 1])
      BY SMTT(30), <1>10, <1>11, <2>4, <2>6, <3>2
    <3>5. ReaderInv' /\ received' \in Seq(Seq(Bytes))
      BY SMTT(30), <1>0, <1>1, <2>4, <2>5, <3>1, <3>2, <3>3, <3>4, DeliverKeeps DEF p
    <3>6. WireTypes'
      BY <1>0, <1>1, <1>3, <1>15, <2>1, <3>1, <3>5 DEF WireTypes, TypeOK
    <3> QED BY <1>13, <1>14, <3>5, <3>6
  <2>7. CASE reader = "header"
    <3>1. need = HeaderBytes /\ base = offset
      BY <1>10, <2>7 DEF ReaderInv
    <3>2. bytes = HeaderAt
      <4> DEFINE h == SubSeq(sent, offset + 1, offset + HeaderBytes)
      <4>1. /\ h \in Seq(Bytes) /\ Len(h) = HeaderBytes
            /\ \A i \in 1..HeaderBytes : h[i] = sent[offset + i]
        <5>1. /\ (offset + HeaderBytes) - offset = HeaderBytes /\ offset + HeaderBytes \in Nat
              /\ offset <= offset + HeaderBytes
          BY <1>3
        <5> QED BY <1>2, <1>3, <2>3, <5>1, Cut
      <4> HIDE DEF h
      <4>2. bytes = h
        BY <1>7, <1>12, <2>0, <3>1, <4>1, SameBytes
      <4> QED BY <4>2 DEF HeaderAt, h
    <3>3. Length(bytes) = Len(p)
      BY <2>4, <3>2
    <3>4. CASE Len(p) > MaxPayload
      <4>1. /\ reader' = "returned" /\ status' = "protocol_error" /\ received' = received
            /\ need' = need
        BY SMTT(30), <1>3, <2>0, <2>5, <2>7, <3>3, <3>4 DEF Got, Return, TooLong
      <4>2. WireTypes'
        BY SMTT(30), <1>0, <1>1, <1>3, <1>15, <2>1, <4>1 DEF WireTypes, TypeOK
      <4>3. Begins(received, script)'
        BY <1>1, <4>1 DEF ReaderInv, Begins
      <4>4. offset' + HeaderBytes <= Consumed' /\ Length(HeaderAt') > MaxPayload
        BY SMTT(30), <1>0, <1>17, <2>3, <2>4, <3>4
      <4>5. ReaderInv'
        BY ONLY <4>1, <4>3, <4>4 DEF ReaderInv, Reading
      <4> QED BY <1>13, <1>14, <4>2, <4>5
    <3>5. CASE Len(p) <= MaxPayload /\ Len(p) = 0
      <4>1. /\ reader' = "returned" /\ status' = "ok" /\ received' = Append(received, <<>>)
            /\ need' = need
        BY <1>3, <2>0, <2>7, <3>3, <3>5 DEF Got, Return, TooLong
      <4>2. p = <<>>
        BY <2>5, <3>5
      <4>3. Consumed' = Len(Flat[d + 1])
        BY SMTT(30), <1>3, <1>11, <2>0, <2>4, <3>1, <3>5
      <4>4. ReaderInv' /\ received' \in Seq(Seq(Bytes))
        BY ZenonT(30), <1>0, <1>1, <2>4, <2>5, <3>5, <4>1, <4>2, <4>3, DeliverKeeps DEF p
      <4>5. WireTypes'
        BY <1>0, <1>1, <1>3, <1>15, <2>1, <4>1, <4>4 DEF WireTypes, TypeOK
      <4> QED BY <1>13, <1>14, <4>4, <4>5
    <3>6. CASE Len(p) <= MaxPayload /\ Len(p) # 0
      <4>1. /\ reader' = "payload" /\ need' = Len(p) /\ status' = status
            /\ received' = received
        BY SMTT(30), <1>3, <2>0, <2>5, <2>7, <3>3, <3>6 DEF Got, Return, TooLong
      <4>2. WireTypes'
        BY SMTT(30), <1>0, <1>1, <1>3, <1>15, <2>1, <2>5, <3>6, <4>1 DEF WireTypes, TypeOK, Reading
      <4>3. Begins(received, script)'
        BY <1>1, <4>1 DEF ReaderInv, Begins
      <4>4. offset' = Len(Flat'[Delivered']) /\ Len(got') < need'
        BY SMTT(30), <1>0, <1>16, <2>1, <2>2, <2>5, <3>6, <4>1 DEF Delivered
      <4>5. /\ Consumed' = (offset' + HeaderBytes) + Len(got')
            /\ need' = Length(HeaderAt') /\ need' <= MaxPayload
        BY <1>0, <1>3, <1>11, <1>17, <2>0, <2>1, <2>4, <3>1, <3>6, <4>1
      <4>6. \A i \in 1..Len(got') : got'[i] = sent'[(offset' + HeaderBytes) + i]
        BY <2>1
      <4>7. ReaderInv'
        BY <4>1, <4>3, <4>4, <4>5, <4>6 DEF ReaderInv, Reading
      <4> QED BY <1>13, <1>14, <4>2, <4>7
    <3> QED BY <1>3, <2>5, <3>4, <3>5, <3>6
  <2> QED BY <1>0, <2>6, <2>7 DEF Reading
<1> QED BY <1>18, <1>19

-----------------------------------------------------------------------------
(* The theorems. *)

(* The invariant holds when the connection is made. *)
LEMMA InitWireInv ==
    ASSUME Init
    PROVE  WireInv
<1>0. /\ tls \in BOOLEAN /\ script \in Scripts /\ outbox = script /\ writer = "idle"
      /\ pending = <<>> /\ payload = <<>> /\ wire = <<>> /\ sent = <<>>
      /\ reader \in {"idle", "deaf"} /\ need = 0 /\ got = <<>> /\ offset = 0
      /\ status = "none" /\ received = <<>>
  BY DEF Init
<1>1. script \in Seq(Seq(Bytes)) /\ Len(script) \in Nat /\ BufferSize \in Nat
  <2>1. script \in Seq(Seq(Bytes))
    BY <1>0, ScriptShape
  <2> QED BY <2>1, BoundsAssumption
<1>2. <<>> \in Seq(Bytes) /\ <<>> \in Seq(Seq(Bytes)) /\ Len(<<>>) = 0
  OBVIOUS
<1>3. WireTypes
  BY <1>0, <1>1, <1>2 DEF WireTypes, TypeOK, Reading
<1>4. Flat[0] = <<>>
  BY Zenon, <1>1, FlatDef DEF Flat
<1>5. Written = 0 /\ Delivered = 0 /\ Consumed = 0
  BY <1>0, <1>1, <1>2 DEF Written, Delivered, Consumed
<1>6. AllFit(0) /\ Begins(<<>>, Flat[0])
  BY <1>4 DEF AllFit, Begins
<1>7. WriterInv
  <2>1. \A i \in 1..Len(outbox) : outbox[i] = script[Written + i]
    BY <1>0, <1>1, <1>5
  <2>2. \E k \in 0..Len(script) : Begins(sent, Flat[k]) /\ AllFit(k)
    <3>1. 0 \in 0..Len(script)
      BY <1>1
    <3> QED BY <1>0, <1>6, <3>1
  <2> QED BY <1>0, <1>1, <1>4, <1>5, <1>6, <2>1, <2>2 DEF WriterInv, Writing
<1>8. StreamInv
  BY <1>0, <1>2 DEF StreamInv
<1>9. Begins(received, script)
  BY <1>0, <1>1, <1>2 DEF Begins
<1>10. ReaderInv
  BY SMTT(30), <1>0, <1>2, <1>4, <1>5, <1>9 DEF ReaderInv, Reading
<1> QED BY <1>3, <1>7, <1>8, <1>10 DEF WireInv

(* Every step of the writer, the reader or the network keeps the invariant. *)
LEMMA StepWireInv ==
    ASSUME WireInv, [Next]_vars
    PROVE  WireInv'
<1>1. CASE WriteCall
  BY <1>1, WriteCallKeeps
<1>2. CASE PollOut
  BY <1>2, WriterTurns DEF PollOut, Writing, Gone
<1>3. ASSUME NEW k \in 1..BufferSize, HandOver(k) PROVE WireInv'
  BY <1>3, HandOverKeeps, BoundsAssumption
<1>4. CASE WriteTimesOut
  BY <1>4, WriterTurns DEF WriteTimesOut, Gone
<1>5. CASE WritePeerClosed
  BY <1>5, WriterTurns DEF WritePeerClosed, Writing, Gone
<1>6. CASE WriterCloses
  BY <1>6, WriterTurns DEF WriterCloses
<1>7. ASSUME NEW lost \in 0..BufferSize, Reset(lost) PROVE WireInv'
  BY <1>7, ResetKeeps, BoundsAssumption
<1>8. CASE ReadCall
  BY <1>8, ReadCallKeeps
<1>9. ASSUME NEW k \in 1..BufferSize, Receive(k) PROVE WireInv'
  BY <1>9, ReceiveKeeps, BoundsAssumption
<1>10. CASE ReadTimesOut
  BY <1>10, ReturnKeeps DEF ReadTimesOut, Return
<1>11. CASE ReadEof
  <2>1. /\ reader \in Reading /\ wire = <<>> /\ writer \in Gone
        /\ reader' = "returned" /\ status' \in {"peer_closed", "io_error"}
        /\ received' = received /\ need' = need /\ got' = <<>>
        /\ UNCHANGED <<tls, writerVars, wire, offset>>
    BY <1>11 DEF ReadEof, Return
  <2> QED BY <2>1, ReturnKeeps
<1>12. CASE ReaderGoesOn
  BY <1>12, GoesOnKeeps
<1>13. CASE UNCHANGED vars
  <2>1. UNCHANGED writerVars /\ UNCHANGED readerVars /\ tls' = tls /\ wire' = wire
    BY <1>13 DEF vars
  <2>2. /\ script' = script /\ outbox' = outbox /\ writer' = writer
        /\ pending' = pending /\ payload' = payload /\ sent' = sent
        /\ reader' = reader /\ need' = need /\ got' = got
        /\ offset' = offset /\ status' = status /\ received' = received
    BY <2>1 DEF writerVars, readerVars
  <2>3. WireTypes'
    BY <2>1, <2>2 DEF WireInv, WireTypes, TypeOK
  <2>4. WriterInv'
    BY <2>1, WriterKeeps DEF WireInv
  <2>5. StreamInv'
    BY <2>1, <2>2 DEF WireInv, StreamInv, Consumed
  <2>6. ReaderInv'
    <3>1. Consumed' = Consumed /\ Consumed <= Len(sent') /\ sent' \in Seq(Bytes)
      BY <2>1, <2>2, Sizes DEF WireInv, WireTypes, Consumed
    <3> QED BY <2>1, <2>2, <3>1, ReaderKeeps
  <2> QED BY <2>3, <2>4, <2>5, <2>6 DEF WireInv
<1> QED BY <1>1, <1>2, <1>3, <1>4, <1>5, <1>6, <1>7, <1>8, <1>9, <1>10, <1>11, <1>12, <1>13
        DEF Next, WriterStep, ReaderStep

(* The invariant holds in every reachable state. *)
THEOREM WireInvariant == Spec => []WireInv
<1>1. Init => WireInv
  BY InitWireInv
<1>2. WireInv /\ [Next]_vars => WireInv'
  BY StepWireInv
<1> QED BY <1>1, <1>2, PTL DEF Spec

(* read_exact() never overruns its buffer and no frame makes the reader allocate
   more than max_payload. *)
THEOREM WireTypeOK == Spec => []TypeOK
<1>1. WireInv => TypeOK
  BY DEF WireInv, WireTypes
<1> QED BY <1>1, WireInvariant, PTL

(* What read_message() delivers is a prefix of what write_message() was given,
   however the stream is cut and wherever the writer stops. *)
THEOREM MessagesInOrder == Spec => []FramesInOrder
<1>1. WireInv => FramesInOrder
  BY DEF WireInv, ReaderInv, Begins, FramesInOrder
<1> QED BY <1>1, WireInvariant, PTL

(* A read_message() that did not time out returns what parse_frame() makes of the
   bytes from where it began, and kOk consumes exactly that frame. *)
THEOREM ReadIsParseFrame == Spec => []AgreesWithParseFrame
<1>1. ASSUME WireInv PROVE AgreesWithParseFrame
  <2> SUFFICES ASSUME reader = "returned", status # "timeout"
               PROVE  LET p == ParseFrame(SubSeq(sent, offset + 1, Len(sent))) IN
                         /\ p.status = IF status = "io_error" THEN "peer_closed" ELSE status
                         /\ status = "ok" => /\ p.out = received[Len(received)]
                                             /\ offset + p.consumed = Len(sent) - Len(wire)
    BY DEF AgreesWithParseFrame
  <2> DEFINE t == SubSeq(sent, offset + 1, Len(sent))
             p == ParseFrame(t)
             h == SubSeq(t, 1, HeaderBytes)
             len == Length(h)
  <2>1. /\ sent \in Seq(Bytes) /\ script \in Seq(Seq(Bytes)) /\ received \in Seq(Seq(Bytes))
        /\ Len(sent) \in Nat /\ Len(wire) \in Nat /\ Len(wire) <= Len(sent)
        /\ offset \in Nat /\ HeaderBytes \in Nat /\ HeaderBytes > 0
        /\ MaxPayload \in Nat /\ Len(received) \in Nat /\ Len(script) \in Nat
    BY <1>1, Sizes DEF WireInv, WireTypes, StreamInv
  <2>2. status \in {"ok", "protocol_error", "peer_closed", "io_error"}
    BY <1>1 DEF WireInv, WireTypes, TypeOK, ReaderInv
  <2>3. ASSUME offset <= Len(sent)
        PROVE  /\ t \in Seq(Bytes) /\ Len(t) = Len(sent) - offset
               /\ \A i \in 1..(Len(sent) - offset) : t[i] = sent[offset + i]
    BY <2>1, <2>3, Cut
  <2>4. ASSUME offset + HeaderBytes <= Len(sent) PROVE h = HeaderAt
    <3>1. offset <= Len(sent)
      BY <2>1, <2>4
    <3>2. /\ t \in Seq(Bytes) /\ Len(t) = Len(sent) - offset
          /\ \A i \in 1..(Len(sent) - offset) : t[i] = sent[offset + i]
      BY <2>3, <3>1
    <3> HIDE DEF t
    <3>3. h \in Seq(Bytes) /\ Len(h) = HeaderBytes /\ \A i \in 1..HeaderBytes : h[i] = t[i]
      <4>1. /\ 0 + 1 = 1 /\ HeaderBytes - 0 = HeaderBytes /\ 0 <= HeaderBytes
            /\ HeaderBytes <= Len(t) /\ \A i \in 1..HeaderBytes : 0 + i = i
        BY <2>1, <2>4, <3>2
      <4>2. /\ SubSeq(t, 0 + 1, HeaderBytes) \in Seq(Bytes)
            /\ Len(SubSeq(t, 0 + 1, HeaderBytes)) = HeaderBytes - 0
            /\ \A i \in 1..(HeaderBytes - 0) : SubSeq(t, 0 + 1, HeaderBytes)[i] = t[0 + i]
        BY <2>1, <3>2, <4>1, Cut
      <4> QED BY <4>1, <4>2
    <3> DEFINE g == SubSeq(sent, offset + 1, offset + HeaderBytes)
    <3>4. /\ g \in Seq(Bytes) /\ Len(g) = HeaderBytes
          /\ \A i \in 1..HeaderBytes : g[i] = sent[offset + i]
      <4>1. /\ (offset + HeaderBytes) - offset = HeaderBytes /\ offset + HeaderBytes \in Nat
            /\ offset <= offset + HeaderBytes
        BY <2>1
      <4> QED BY <2>1, <2>4, <4>1, Cut
    <3>5. \A i \in 1..HeaderBytes : t[i] = sent[offset + i]
      BY <2>1, <2>4, <3>2
    <3> HIDE DEF h, g
    <3>6. h = g
      BY <3>3, <3>4, <3>5, SameBytes
    <3> QED BY <3>6 DEF HeaderAt, g
  <2>5. CASE status = "protocol_error"
    <3>1. offset + HeaderBytes <= Len(sent) /\ Length(HeaderAt) > MaxPayload
      <4>1. offset + HeaderBytes <= Consumed /\ Length(HeaderAt) > MaxPayload
        BY <1>1, <2>5 DEF WireInv, ReaderInv
      <4>2. Consumed <= Len(sent) /\ Consumed \in Nat
        BY <2>1 DEF Consumed
      <4> QED BY <2>1, <4>1, <4>2
    <3>2. offset <= Len(sent)
      BY <2>1, <3>1
    <3>3. len > MaxPayload /\ Len(t) = Len(sent) - offset
      BY Zenon, <2>3, <2>4, <3>1, <3>2
    <3>4. ~(Len(t) < HeaderBytes)
      BY <2>1, <3>1, <3>3
    <3> HIDE DEF t
    <3>5. p.status = "protocol_error"
      BY <3>3, <3>4 DEF ParseFrame
    <3> QED BY <2>5, <3>5 DEF t
  <2>6. CASE status \in {"peer_closed", "io_error"}
    <3>1. /\ offset <= Len(sent)
          /\ \/ Len(sent) < offset + HeaderBytes
             \/ /\ Length(HeaderAt) <= MaxPayload
                /\ Len(sent) < (offset + HeaderBytes) + Length(HeaderAt)
      BY <1>1, <2>6 DEF WireInv, ReaderInv
    <3>2. t \in Seq(Bytes) /\ Len(t) = Len(sent) - offset
      BY <2>3, <3>1
    <3>3. CASE Len(sent) < offset + HeaderBytes
      <4>1. Len(t) < HeaderBytes
        BY <2>1, <3>1, <3>2, <3>3
      <4> HIDE DEF t
      <4>2. p.status = "peer_closed"
        BY <4>1 DEF ParseFrame
      <4> QED BY <2>6, <4>2 DEF t
    <3>4. CASE ~(Len(sent) < offset + HeaderBytes)
      <4>1. offset + HeaderBytes <= Len(sent)
        BY <2>1, <3>4
      <4>2. h = HeaderAt
        BY Zenon, <2>4, <4>1
      <4>3. HeaderAt \in Seq(Bytes) /\ Len(HeaderAt) = HeaderBytes
        <5>1. /\ (offset + HeaderBytes) - offset = HeaderBytes /\ offset + HeaderBytes \in Nat
              /\ offset <= offset + HeaderBytes
          BY <2>1
        <5> QED BY <2>1, <4>1, <5>1, Cut DEF HeaderAt
      <4>4. len \in Nat
        BY Zenon, <4>2, <4>3, LengthIsNatural
      <4> HIDE DEF h
      <4>5. len <= MaxPayload /\ Len(sent) < (offset + HeaderBytes) + len
        BY <3>1, <3>4, <4>2
      <4> HIDE DEF len
      <4>6. ~(Len(t) < HeaderBytes) /\ Len(t) < HeaderBytes + len /\ ~(len > MaxPayload)
        BY SMTT(30), <2>1, <3>2, <4>1, <4>4, <4>5
      <4> HIDE DEF t
      <4>7. p.status = "peer_closed"
        BY <4>6 DEF ParseFrame, len, h
      <4> QED BY <2>6, <4>7 DEF t
    <3> QED BY <3>3, <3>4
  <2>7. CASE status = "ok"
    <3> DEFINE d == Delivered - 1
               m == script[d + 1]
    <3>1. /\ Delivered > 0 /\ offset = Len(Flat[d]) /\ Consumed = Len(Flat[Delivered])
          /\ Len(received[Delivered]) <= MaxPayload /\ Begins(received, script)
      BY <1>1, <2>7 DEF WireInv, ReaderInv
    <3>2. /\ d \in 0..Len(script) /\ d + 1 = Delivered /\ d + 1 \in 1..Len(script)
          /\ m = received[Delivered]
      <4>1. /\ Delivered \in 1..Len(received) /\ Delivered \in 1..Len(script)
        BY <2>1, <3>1 DEF Begins, Delivered
      <4>2. received[Delivered] = script[Delivered]
        BY <3>1, <4>1 DEF Begins
      <4>3. d + 1 = Delivered /\ d \in 0..Len(script)
        BY <2>1, <4>1
      <4> QED BY <4>1, <4>2, <4>3
    <3>3. m \in Seq(Bytes) /\ Len(m) \in Nat
      <4>1. m \in Seq(Bytes)
        BY <2>1, <3>2, ElementOfSeq
      <4> QED BY <4>1
    <3> HIDE DEF d
    <3>4. offset + HeaderBytes <= Len(sent)
      <4>1. FlatOf(script)[d + 1] = FlatOf(script)[(d + 1) - 1] \o Frame(script[d + 1])
            /\ FlatOf(script)[d] \in Seq(Bytes)
        BY Zenon, <2>1, <3>2, FlatDef
      <4>2. Flat[d + 1] = Flat[d] \o Frame(m) /\ Flat[d] \in Seq(Bytes)
        <5>1. (d + 1) - 1 = d
          BY <3>2
        <5> QED BY Zenon, <4>1, <5>1 DEF Flat
      <4>3. Frame(m) \in Seq(Bytes) /\ Len(Frame(m)) = HeaderBytes + Len(m)
        BY <3>3, FrameParts
      <4>4. Len(Flat[d + 1]) = offset + (HeaderBytes + Len(m))
        <5>1. Len(Flat[d] \o Frame(m)) = Len(Flat[d]) + Len(Frame(m))
          BY Zenon, <4>2, <4>3, Join
        <5> QED BY SMTT(30), <3>1, <4>2, <4>3, <5>1
      <4>5. Consumed = offset + (HeaderBytes + Len(m))
        BY <3>1, <3>2, <4>4
      <4>6. Consumed <= Len(sent)
        BY <2>1 DEF Consumed
      <4> HIDE DEF m
      <4>7. Consumed \in Nat
        BY <2>1 DEF Consumed
      <4> QED BY SMTT(30), <2>1, <3>3, <4>5, <4>6, <4>7
    <3>5. /\ Length(HeaderAt) = Len(m)
          /\ Len(Flat[d + 1]) = (offset + HeaderBytes) + Len(m)
          /\ \A i \in 1..Len(m) : (offset + HeaderBytes) + i <= Len(sent) =>
                                     sent[(offset + HeaderBytes) + i] = m[i]
      BY Zenon, <1>1, <3>1, <3>2, <3>4, StreamSays DEF WireInv
    <3> HIDE DEF m
    <3>6. /\ Consumed = (offset + HeaderBytes) + Len(m) /\ Len(m) <= MaxPayload
          /\ (offset + HeaderBytes) + Len(m) <= Len(sent)
      <4>1. Consumed = (offset + HeaderBytes) + Len(m) /\ Len(m) <= MaxPayload
        BY <3>1, <3>2, <3>5
      <4>2. Consumed <= Len(sent)
        BY <2>1 DEF Consumed
      <4> QED BY <4>1, <4>2
    <3>7. len = Len(m)
      BY Zenon, <2>4, <3>4, <3>5
    <3>8. offset <= Len(sent)
      BY <2>1, <3>4
    <3>9. /\ t \in Seq(Bytes) /\ Len(t) = Len(sent) - offset
          /\ \A i \in 1..(Len(sent) - offset) : t[i] = sent[offset + i]
      BY <2>3, <3>8
    <3> HIDE DEF len, t
    <3>10. /\ ~(Len(t) < HeaderBytes) /\ ~(len > MaxPayload) /\ ~(Len(t) < HeaderBytes + len)
      BY SMTT(30), <2>1, <3>3, <3>4, <3>6, <3>7, <3>9
    <3>11. p = [status |-> "ok", out |-> SubSeq(t, HeaderBytes + 1, HeaderBytes + len),
                consumed |-> HeaderBytes + len]
      BY <3>10 DEF ParseFrame, len
    <3>12. SubSeq(t, HeaderBytes + 1, HeaderBytes + len) = m
      <4> DEFINE e == HeaderBytes + len
                 o == SubSeq(t, HeaderBytes + 1, e)
      <4>1. e \in Nat /\ HeaderBytes <= e /\ e <= Len(t) /\ e - HeaderBytes = len
        BY <2>1, <3>3, <3>7, <3>9, <3>10
      <4>2. /\ o \in Seq(Bytes) /\ Len(o) = len
            /\ \A i \in 1..len : o[i] = t[HeaderBytes + i]
        <5> HIDE DEF e
        <5> QED BY <2>1, <3>9, <4>1, Cut
      <4> HIDE DEF o
      <4>3. ASSUME NEW i \in 1..len PROVE o[i] = m[i]
        <5>1. /\ HeaderBytes + i \in 1..(Len(sent) - offset)
              /\ offset + (HeaderBytes + i) = (offset + HeaderBytes) + i
              /\ (offset + HeaderBytes) + i <= Len(sent) /\ i \in 1..Len(m)
          BY <2>1, <3>3, <3>6, <3>7
        <5> QED BY <3>5, <3>9, <4>2, <5>1
      <4>4. o = m
        BY <3>3, <3>7, <4>2, <4>3, SameBytes
      <4> QED BY <4>4 DEF o
    <3>13. p.status = "ok" /\ p.out = received[Len(received)] /\ offset + p.consumed = Len(sent) - Len(wire)
      <4>1. received[Len(received)] = m
        BY <3>2 DEF Delivered
      <4>2. offset + (HeaderBytes + len) = Consumed
        BY <2>1, <3>3, <3>6, <3>7
      <4> QED BY <3>11, <3>12, <4>1, <4>2 DEF Consumed
    <3> QED BY <2>7, <3>13 DEF t
  <2> QED BY <2>2, <2>5, <2>6, <2>7
<1> QED BY <1>1, WireInvariant, PTL
=============================================================================
