------------------------- MODULE BackendPoolProofs --------------------------
(***************************************************************************)
(* Every invariant of BackendPool that TLC checks, for any number of        *)
(* borrowers and descriptors, any max_size and any timeouts.  First what    *)
(* the reaper's loop and the deque operations do to the descriptors in a    *)
(* deque, then the count in_use_, then the inductive invariant IInv, one    *)
(* lemma for each of its conjuncts, and the theorems.                       *)
(***************************************************************************)
EXTENDS BackendPool, Induction, SequenceTheorems, FiniteSetTheorems

(* The loop of the reaper over the idle deque. *)

(* pass[n] of Swept. *)
Pass(slots, kill, f, n) ==
    IF n = 0 THEN <<>>
    ELSE IF Expired(slots[n]) <=> kill
         THEN Append(f[n - 1], slots[n])
         ELSE f[n - 1]

Passes(slots, kill, f, m) == f = [n \in 0..m |-> Pass(slots, kill, f, n)]

(* The recursion of Swept defines a function, whatever the length. *)
LEMMA PassExists ==
    ASSUME NEW slots, NEW kill, NEW m \in Nat
    PROVE  \E f : Passes(slots, kill, f, m)
<1> DEFINE S == {k \in Nat : \E f : Passes(slots, kill, f, k)}
<1>1. 0 \in S
  <2> DEFINE f == [n \in 0..0 |-> <<>>]
  <2>1. Passes(slots, kill, f, 0)
    BY DEF Passes, Pass
  <2> QED BY <2>1
<1>2. ASSUME NEW k \in Nat, k \in S PROVE k + 1 \in S
  <2>1. PICK f : Passes(slots, kill, f, k)
    BY <1>2
  <2> DEFINE g == [n \in 0..(k + 1) |-> Pass(slots, kill, f, n)]
  <2>2. \A n \in 0..k : g[n] = f[n]
    BY <2>1 DEF Passes
  <2>3. ASSUME NEW n \in 0..(k + 1) PROVE Pass(slots, kill, f, n) = Pass(slots, kill, g, n)
    <3>1. CASE n = 0
      BY <3>1 DEF Pass
    <3>2. CASE n # 0
      <4>1. g[n - 1] = f[n - 1]
        BY <2>2, <3>2
      <4> HIDE DEF g
      <4> QED BY <4>1 DEF Pass
    <3> QED BY <3>1, <3>2
  <2>4. Passes(slots, kill, g, k + 1)
    BY <2>3 DEF Passes
  <2> HIDE DEF g
  <2> QED BY <2>4
<1>3. Nat \subseteq S
  <2> HIDE DEF S
  <2> QED BY <1>1, <1>2, NatSetInduction
<1> QED BY <1>3

(* Swept is the last value of that function. *)
LEMMA SweptIs ==
    ASSUME NEW slots \in Seq(Slot), NEW kill \in BOOLEAN
    PROVE  \E f : Passes(slots, kill, f, Len(slots)) /\ Swept(slots, kill) = f[Len(slots)]
<1> DEFINE f == CHOOSE g : Passes(slots, kill, g, Len(slots))
<1>1. \E g : Passes(slots, kill, g, Len(slots))
  BY Zenon, PassExists, LenProperties
<1>2. Passes(slots, kill, f, Len(slots))
  BY <1>1
<1>3. Swept(slots, kill) = f[Len(slots)]
  BY DEF Swept, Passes, Pass
<1> HIDE DEF f
<1> QED BY <1>2, <1>3

(* No two slots of a deque hold the same descriptor. *)
Distinct(slots) == \A i, j \in 1..Len(slots) : slots[i].fd = slots[j].fd => i = j

(* What n iterations of the loop have made of the first n slots. *)
Sifts(slots, kill, out, n) ==
    /\ out \in Seq(Slot)
    /\ Len(out) <= n
    /\ \A i \in 1..Len(out) : \E j \in 1..n : out[i] = slots[j] /\ (Expired(slots[j]) <=> kill)
    /\ \A j \in 1..n : (Expired(slots[j]) <=> kill) => \E i \in 1..Len(out) : out[i] = slots[j]
    /\ Distinct(slots) => Distinct(out)

(* One more iteration that keeps the slot. *)
LEMMA SiftsOne ==
    ASSUME NEW slots \in Seq(Slot), NEW kill \in BOOLEAN, NEW n \in Nat, n + 1 <= Len(slots),
           NEW out, Sifts(slots, kill, out, n), Expired(slots[n + 1]) <=> kill
    PROVE  Sifts(slots, kill, Append(out, slots[n + 1]), n + 1)
<1> DEFINE s == slots[n + 1]
           new == Append(out, s)
<1>1. s \in Slot /\ out \in Seq(Slot) /\ Len(out) \in Nat /\ Len(slots) \in Nat
  BY LenProperties, ElementOfSeq DEF Sifts
<1>2. /\ new \in Seq(Slot) /\ Len(new) = Len(out) + 1
      /\ \A i \in 1..Len(out) : new[i] = out[i]
      /\ new[Len(out) + 1] = s
  BY <1>1, AppendProperties
<1> HIDE DEF new
<1>3. \A i \in 1..Len(new) : i \in 1..Len(out) \/ i = Len(out) + 1
  BY <1>1, <1>2
<1>4. \A j \in 1..(n + 1) : j \in 1..n \/ j = n + 1
  OBVIOUS
<1>5. \A i \in 1..Len(new) : \E j \in 1..(n + 1) : new[i] = slots[j] /\ (Expired(slots[j]) <=> kill)
  <2> SUFFICES ASSUME NEW i \in 1..Len(new)
               PROVE  \E j \in 1..(n + 1) : new[i] = slots[j] /\ (Expired(slots[j]) <=> kill)
    OBVIOUS
  <2>1. CASE i \in 1..Len(out)
    <3>1. PICK j \in 1..n : out[i] = slots[j] /\ (Expired(slots[j]) <=> kill)
      BY <2>1 DEF Sifts
    <3>2. j \in 1..(n + 1) /\ new[i] = out[i]
      BY <1>2, <2>1
    <3> QED BY <3>1, <3>2
  <2>2. CASE i = Len(out) + 1
    <3>1. n + 1 \in 1..(n + 1) /\ new[i] = slots[n + 1]
      BY <1>2, <2>2
    <3> QED BY <3>1
  <2> QED BY <1>3, <2>1, <2>2
<1>6. \A j \in 1..(n + 1) : (Expired(slots[j]) <=> kill) => \E i \in 1..Len(new) : new[i] = slots[j]
  <2> SUFFICES ASSUME NEW j \in 1..(n + 1), Expired(slots[j]) <=> kill
               PROVE  \E i \in 1..Len(new) : new[i] = slots[j]
    OBVIOUS
  <2>1. CASE j \in 1..n
    <3>1. PICK i \in 1..Len(out) : out[i] = slots[j]
      BY <2>1 DEF Sifts
    <3>2. i \in 1..Len(new) /\ new[i] = out[i]
      BY <1>1, <1>2
    <3> QED BY <3>1, <3>2
  <2>2. CASE j = n + 1
    <3>1. Len(out) + 1 \in 1..Len(new)
      BY <1>1, <1>2
    <3> QED BY <1>2, <2>2, <3>1
  <2> QED BY <1>4, <2>1, <2>2
<1>7. ASSUME Distinct(slots) PROVE Distinct(new)
  <2>1. ASSUME NEW i \in 1..Len(out) PROVE out[i].fd # s.fd
    <3>1. PICK j \in 1..n : out[i] = slots[j]
      BY DEF Sifts
    <3>2. j \in 1..Len(slots) /\ n + 1 \in 1..Len(slots) /\ j # n + 1
      BY <1>1
    <3> QED BY <1>7, <3>1, <3>2 DEF Distinct
  <2>2. Distinct(out)
    BY <1>7 DEF Sifts
  <2>3. ASSUME NEW i \in 1..Len(new), NEW j \in 1..Len(new), new[i].fd = new[j].fd PROVE i = j
    BY <1>2, <1>3, <2>1, <2>2, <2>3 DEF Distinct
  <2> QED BY <2>3 DEF Distinct
<1>8. Len(new) <= n + 1
  BY <1>1, <1>2 DEF Sifts
<1> QED BY Zenon, <1>2, <1>5, <1>6, <1>7, <1>8 DEF Sifts, new

(* One more iteration that skips the slot. *)
LEMMA SiftsNone ==
    ASSUME NEW slots \in Seq(Slot), NEW kill \in BOOLEAN, NEW n \in Nat, n + 1 <= Len(slots),
           NEW out, Sifts(slots, kill, out, n), ~(Expired(slots[n + 1]) <=> kill)
    PROVE  Sifts(slots, kill, out, n + 1)
<1>1. out \in Seq(Slot) /\ Len(out) \in Nat
  BY LenProperties DEF Sifts
<1>2. \A j \in 1..(n + 1) : j \in 1..n \/ j = n + 1
  OBVIOUS
<1>3. \A j \in 1..n : j \in 1..(n + 1)
  OBVIOUS
<1>4. Len(out) <= n + 1
  BY <1>1 DEF Sifts
<1>5. \A i \in 1..Len(out) : \E j \in 1..(n + 1) : out[i] = slots[j] /\ (Expired(slots[j]) <=> kill)
  BY <1>3 DEF Sifts
<1>6. \A j \in 1..(n + 1) : (Expired(slots[j]) <=> kill) => \E i \in 1..Len(out) : out[i] = slots[j]
  BY <1>2 DEF Sifts
<1> QED BY <1>1, <1>4, <1>5, <1>6 DEF Sifts

(* The loop of reaper_main_ splits the idle list as its condition says. *)
LEMMA SweptSifts ==
    ASSUME NEW slots \in Seq(Slot), NEW kill \in BOOLEAN
    PROVE  Sifts(slots, kill, Swept(slots, kill), Len(slots))
<1>1. PICK f : Passes(slots, kill, f, Len(slots)) /\ Swept(slots, kill) = f[Len(slots)]
  BY SweptIs
<1>2. Len(slots) \in Nat
  BY LenProperties
<1>3. \A n \in 0..Len(slots) : f[n] = Pass(slots, kill, f, n)
  BY <1>1 DEF Passes
<1> DEFINE S == {n \in Nat : n <= Len(slots) => Sifts(slots, kill, f[n], n)}
<1>4. 0 \in S
  <2>1. f[0] = <<>>
    BY <1>2, <1>3 DEF Pass
  <2>2. Sifts(slots, kill, <<>>, 0)
    BY EmptySeq DEF Sifts, Distinct
  <2> QED BY <2>1, <2>2
<1>5. ASSUME NEW n \in Nat, n \in S PROVE n + 1 \in S
  <2> SUFFICES ASSUME n + 1 <= Len(slots) PROVE Sifts(slots, kill, f[n + 1], n + 1)
    OBVIOUS
  <2>1. Sifts(slots, kill, f[n], n)
    BY <1>2, <1>5
  <2>2. f[n + 1] = IF Expired(slots[n + 1]) <=> kill THEN Append(f[n], slots[n + 1]) ELSE f[n]
    <3>1. n + 1 \in 0..Len(slots) /\ n + 1 # 0 /\ (n + 1) - 1 = n
      BY <1>2
    <3>2. f[n + 1] = Pass(slots, kill, f, n + 1)
      BY <1>3, <3>1
    <3> QED BY <3>1, <3>2 DEF Pass
  <2> QED BY <2>1, <2>2, SiftsOne, SiftsNone
<1>6. Nat \subseteq S
  <2> HIDE DEF S
  <2> QED BY <1>4, <1>5, NatSetInduction
<1> QED BY <1>1, <1>2, <1>6

-----------------------------------------------------------------------------
(* Descriptors in a deque, under the operations on deques. *)

(* An empty deque holds no descriptor. *)
LEMMA FdsEmpty == FdsOf(<<>>) = {} /\ Distinct(<<>>) /\ <<>> \in Seq(Slot)
BY EmptySeq DEF FdsOf, Distinct

(* A deque holds the descriptors of its slots. *)
LEMMA FdsMember ==
    ASSUME NEW slots \in Seq(Slot)
    PROVE  /\ \A i \in 1..Len(slots) : slots[i].fd \in FdsOf(slots) /\ slots[i].fd \in Fds
           /\ \A f \in FdsOf(slots) : \E i \in 1..Len(slots) : slots[i].fd = f
           /\ FdsOf(slots) \subseteq Fds
<1>1. DOMAIN slots = 1..Len(slots)
  BY LenProperties
<1>2. \A i \in 1..Len(slots) : slots[i] \in Slot
  BY ElementOfSeq
<1>3. \A i \in 1..Len(slots) : slots[i].fd \in Fds
  BY <1>2 DEF Slot
<1> QED BY <1>1, <1>3 DEF FdsOf

(* push_back() adds one descriptor. *)
LEMMA FdsAppend ==
    ASSUME NEW slots \in Seq(Slot), NEW s \in Slot
    PROVE  /\ Append(slots, s) \in Seq(Slot)
           /\ Len(Append(slots, s)) = Len(slots) + 1
           /\ FdsOf(Append(slots, s)) = FdsOf(slots) \cup {s.fd}
           /\ Distinct(slots) /\ s.fd \notin FdsOf(slots) => Distinct(Append(slots, s))
<1> DEFINE new == Append(slots, s)
<1>1. /\ new \in Seq(Slot) /\ Len(new) = Len(slots) + 1 /\ Len(slots) \in Nat
      /\ \A i \in 1..Len(slots) : new[i] = slots[i]
      /\ new[Len(slots) + 1] = s
  BY AppendProperties, LenProperties
<1> HIDE DEF new
<1>2. \A i \in 1..Len(new) : i \in 1..Len(slots) \/ i = Len(slots) + 1
  BY <1>1
<1>3. \A i \in 1..Len(slots) : i \in 1..Len(new)
  BY <1>1
<1>4. FdsOf(new) \subseteq FdsOf(slots) \cup {s.fd}
  <2> SUFFICES ASSUME NEW f \in FdsOf(new) PROVE f \in FdsOf(slots) \cup {s.fd}
    OBVIOUS
  <2>1. PICK i \in 1..Len(new) : new[i].fd = f
    BY <1>1, FdsMember
  <2> QED BY <1>1, <1>2, <2>1, FdsMember
<1>5. FdsOf(slots) \cup {s.fd} \subseteq FdsOf(new)
  <2> SUFFICES ASSUME NEW f \in FdsOf(slots) \cup {s.fd} PROVE f \in FdsOf(new)
    OBVIOUS
  <2>1. CASE f \in FdsOf(slots)
    <3>1. PICK i \in 1..Len(slots) : slots[i].fd = f
      BY <2>1, FdsMember
    <3>2. i \in 1..Len(new) /\ new[i].fd = f
      BY <1>1, <1>3, <3>1
    <3> QED BY <1>1, <3>2, FdsMember
  <2>2. CASE f = s.fd
    <3>1. Len(slots) + 1 \in 1..Len(new) /\ new[Len(slots) + 1].fd = f
      BY <1>1, <2>2
    <3> QED BY <1>1, <3>1, FdsMember
  <2> QED BY <2>1, <2>2
<1>6. ASSUME Distinct(slots), s.fd \notin FdsOf(slots) PROVE Distinct(new)
  <2>1. \A i \in 1..Len(slots) : slots[i].fd # s.fd
    BY <1>6, FdsMember
  <2> QED BY <1>1, <1>2, <1>6, <2>1 DEF Distinct
<1> QED BY <1>1, <1>4, <1>5, <1>6 DEF new

(* pop_front() takes one away. *)
LEMMA FdsTail ==
    ASSUME NEW slots \in Seq(Slot), slots # <<>>
    PROVE  /\ Head(slots) \in Slot /\ Tail(slots) \in Seq(Slot)
           /\ Len(Tail(slots)) = Len(slots) - 1
           /\ Head(slots).fd \in FdsOf(slots)
           /\ FdsOf(slots) = FdsOf(Tail(slots)) \cup {Head(slots).fd}
           /\ Distinct(slots) => Distinct(Tail(slots)) /\ Head(slots).fd \notin FdsOf(Tail(slots))
<1> DEFINE rest == Tail(slots)
<1>1. /\ rest \in Seq(Slot) /\ Head(slots) \in Slot /\ Len(rest) = Len(slots) - 1
      /\ \A i \in 1..Len(rest) : rest[i] = slots[i + 1]
  BY HeadTailProperties
<1>2. Len(slots) \in Nat \ {0} /\ Head(slots) = slots[1]
  BY EmptySeq
<1> HIDE DEF rest
<1>3. 1 \in 1..Len(slots) /\ \A i \in 1..Len(rest) : i + 1 \in 1..Len(slots) /\ i + 1 # 1
  BY <1>1, <1>2
<1>4. Head(slots).fd \in FdsOf(slots)
  BY <1>2, <1>3, FdsMember
<1>5. FdsOf(rest) \subseteq FdsOf(slots)
  <2> SUFFICES ASSUME NEW f \in FdsOf(rest) PROVE f \in FdsOf(slots)
    OBVIOUS
  <2>1. PICK i \in 1..Len(rest) : rest[i].fd = f
    BY <1>1, FdsMember
  <2>2. i + 1 \in 1..Len(slots) /\ slots[i + 1].fd = f
    BY <1>1, <1>3, <2>1
  <2> QED BY <2>2, FdsMember
<1>6. FdsOf(slots) \subseteq FdsOf(rest) \cup {Head(slots).fd}
  <2> SUFFICES ASSUME NEW f \in FdsOf(slots), f # Head(slots).fd PROVE f \in FdsOf(rest)
    OBVIOUS
  <2>1. PICK i \in 1..Len(slots) : slots[i].fd = f
    BY FdsMember
  <2>2. i - 1 \in 1..Len(rest) /\ (i - 1) + 1 = i
    BY <1>1, <1>2, <2>1
  <2>3. rest[i - 1].fd = f
    BY <1>1, <2>1, <2>2
  <2> QED BY <1>1, <2>2, <2>3, FdsMember
<1>7. ASSUME Distinct(slots) PROVE Distinct(rest) /\ Head(slots).fd \notin FdsOf(rest)
  <2>1. Distinct(rest)
    <3> SUFFICES ASSUME NEW i \in 1..Len(rest), NEW j \in 1..Len(rest), rest[i].fd = rest[j].fd
                 PROVE  i = j
      BY DEF Distinct
    <3>1. i + 1 \in 1..Len(slots) /\ j + 1 \in 1..Len(slots) /\ slots[i + 1].fd = slots[j + 1].fd
      BY <1>1, <1>3
    <3>2. i + 1 = j + 1
      BY <1>7, <3>1 DEF Distinct
    <3> QED BY <3>2
  <2>2. ASSUME NEW i \in 1..Len(rest) PROVE rest[i].fd # Head(slots).fd
    BY <1>1, <1>2, <1>3, <1>7 DEF Distinct
  <2> QED BY Zenon, <1>1, <2>1, <2>2, FdsMember
<1> QED BY <1>1, <1>4, <1>5, <1>6, <1>7 DEF rest

(* Pushing back a whole deque adds its descriptors. *)
LEMMA FdsConcat ==
    ASSUME NEW s \in Seq(Slot), NEW t \in Seq(Slot)
    PROVE  /\ s \o t \in Seq(Slot)
           /\ Len(s \o t) = Len(s) + Len(t)
           /\ FdsOf(s \o t) = FdsOf(s) \cup FdsOf(t)
           /\ Distinct(s) /\ Distinct(t) /\ FdsOf(s) \cap FdsOf(t) = {} => Distinct(s \o t)
<1> DEFINE new == s \o t
<1>1. /\ new \in Seq(Slot) /\ Len(new) = Len(s) + Len(t) /\ Len(s) \in Nat /\ Len(t) \in Nat
      /\ \A i \in 1..(Len(s) + Len(t)) : new[i] = IF i <= Len(s) THEN s[i] ELSE t[i - Len(s)]
  BY ConcatProperties, LenProperties
<1> HIDE DEF new
<1>2. \A i \in 1..Len(new) : \/ i \in 1..Len(s) /\ new[i] = s[i]
                             \/ i - Len(s) \in 1..Len(t) /\ new[i] = t[i - Len(s)]
  BY <1>1
<1>3. \A i \in 1..Len(s) : i \in 1..Len(new) /\ new[i] = s[i]
  BY <1>1
<1>4. \A i \in 1..Len(t) : i + Len(s) \in 1..Len(new) /\ new[i + Len(s)] = t[i]
  BY <1>1
<1>5. FdsOf(new) \subseteq FdsOf(s) \cup FdsOf(t)
  <2> SUFFICES ASSUME NEW f \in FdsOf(new) PROVE f \in FdsOf(s) \cup FdsOf(t)
    OBVIOUS
  <2>1. PICK i \in 1..Len(new) : new[i].fd = f
    BY <1>1, FdsMember
  <2>2. CASE i \in 1..Len(s) /\ new[i] = s[i]
    BY <2>1, <2>2, FdsMember
  <2>3. CASE i - Len(s) \in 1..Len(t) /\ new[i] = t[i - Len(s)]
    BY <2>1, <2>3, FdsMember
  <2> QED BY <1>2, <2>2, <2>3
<1>6. FdsOf(s) \subseteq FdsOf(new)
  <2> SUFFICES ASSUME NEW f \in FdsOf(s) PROVE f \in FdsOf(new)
    OBVIOUS
  <2>1. PICK i \in 1..Len(s) : s[i].fd = f
    BY FdsMember
  <2> QED BY <1>1, <1>3, <2>1, FdsMember
<1>7. FdsOf(t) \subseteq FdsOf(new)
  <2> SUFFICES ASSUME NEW f \in FdsOf(t) PROVE f \in FdsOf(new)
    OBVIOUS
  <2>1. PICK i \in 1..Len(t) : t[i].fd = f
    BY FdsMember
  <2> QED BY Zenon, <1>1, <1>4, <2>1, FdsMember
<1>8. ASSUME Distinct(s), Distinct(t), FdsOf(s) \cap FdsOf(t) = {} PROVE Distinct(new)
  <2>1. \A i \in 1..Len(s), j \in 1..Len(t) : s[i].fd # t[j].fd
    BY <1>8, FdsMember
  <2> SUFFICES ASSUME NEW i \in 1..Len(new), NEW j \in 1..Len(new), new[i].fd = new[j].fd
               PROVE  i = j
    BY DEF Distinct
  <2>2. CASE i \in 1..Len(s) /\ j \in 1..Len(s)
    BY <1>3, <1>8, <2>2 DEF Distinct
  <2>3. CASE i - Len(s) \in 1..Len(t) /\ j - Len(s) \in 1..Len(t)
    <3>1. new[i] = t[i - Len(s)] /\ new[j] = t[j - Len(s)]
      BY <1>1, <2>3
    <3>2. i - Len(s) = j - Len(s)
      BY <1>8, <2>3, <3>1 DEF Distinct
    <3> QED BY <1>1, <3>2
  <2> QED BY Zenon, <1>2, <2>1, <2>2, <2>3
<1> QED BY <1>1, <1>5, <1>6, <1>7, <1>8 DEF new

(* The reaper's loop distributes the idle list: nothing is lost or doubled. *)
LEMMA FdsSwept ==
    ASSUME NEW slots \in Seq(Slot)
    PROVE  /\ Swept(slots, TRUE) \in Seq(Slot) /\ Swept(slots, FALSE) \in Seq(Slot)
           /\ Len(Swept(slots, FALSE)) <= Len(slots)
           /\ FdsOf(slots) = FdsOf(Swept(slots, TRUE)) \cup FdsOf(Swept(slots, FALSE))
           /\ Distinct(slots) =>
                /\ Distinct(Swept(slots, TRUE)) /\ Distinct(Swept(slots, FALSE))
                /\ FdsOf(Swept(slots, TRUE)) \cap FdsOf(Swept(slots, FALSE)) = {}
<1> DEFINE v == Swept(slots, TRUE)
           r == Swept(slots, FALSE)
<1>1. Sifts(slots, TRUE, v, Len(slots)) /\ Sifts(slots, FALSE, r, Len(slots))
  BY Zenon, SweptSifts
<1> HIDE DEF v, r
<1>2. v \in Seq(Slot) /\ r \in Seq(Slot) /\ Len(r) <= Len(slots)
  BY <1>1 DEF Sifts
<1>3. \A i \in 1..Len(v) : \E j \in 1..Len(slots) : v[i] = slots[j] /\ Expired(slots[j])
  BY <1>1 DEF Sifts
<1>4. \A i \in 1..Len(r) : \E j \in 1..Len(slots) : r[i] = slots[j] /\ ~Expired(slots[j])
  BY <1>1 DEF Sifts
<1>5. \A j \in 1..Len(slots) : \/ \E i \in 1..Len(v) : v[i] = slots[j]
                               \/ \E i \in 1..Len(r) : r[i] = slots[j]
  BY Zenon, <1>1 DEF Sifts
<1>6. FdsOf(v) \subseteq FdsOf(slots)
  BY <1>2, <1>3, FdsMember
<1>7. FdsOf(r) \subseteq FdsOf(slots)
  BY <1>2, <1>4, FdsMember
<1>8. FdsOf(slots) \subseteq FdsOf(v) \cup FdsOf(r)
  <2> SUFFICES ASSUME NEW f \in FdsOf(slots) PROVE f \in FdsOf(v) \/ f \in FdsOf(r)
    OBVIOUS
  <2>1. PICK j \in 1..Len(slots) : slots[j].fd = f
    BY FdsMember
  <2>2. ASSUME NEW i \in 1..Len(v), v[i] = slots[j] PROVE f \in FdsOf(v)
    BY <1>2, <2>1, <2>2, FdsMember
  <2>3. ASSUME NEW i \in 1..Len(r), r[i] = slots[j] PROVE f \in FdsOf(r)
    BY <1>2, <2>1, <2>3, FdsMember
  <2> QED BY <1>5, <2>2, <2>3
<1>9. ASSUME Distinct(slots) PROVE Distinct(v) /\ Distinct(r) /\ FdsOf(v) \cap FdsOf(r) = {}
  <2>1. Distinct(v) /\ Distinct(r)
    BY <1>1, <1>9 DEF Sifts
  <2>2. ASSUME NEW f \in FdsOf(v), f \in FdsOf(r) PROVE FALSE
    <3>1. PICK i \in 1..Len(v) : v[i].fd = f
      BY <1>2, FdsMember
    <3>2. PICK k \in 1..Len(r) : r[k].fd = f
      BY <1>2, <2>2, FdsMember
    <3>3. PICK j \in 1..Len(slots) : v[i] = slots[j] /\ Expired(slots[j])
      BY <1>3
    <3>4. PICK l \in 1..Len(slots) : r[k] = slots[l] /\ ~Expired(slots[l])
      BY <1>4
    <3>5. j = l
      BY <1>9, <3>1, <3>2, <3>3, <3>4 DEF Distinct
    <3> QED BY <3>3, <3>4, <3>5
  <2> QED BY <2>1, <2>2
<1> QED BY Zenon, <1>2, <1>6, <1>7, <1>8, <1>9 DEF v, r

-----------------------------------------------------------------------------
(* in_use_ counts the borrowers that occupy a slot of max_size. *)

In(f) == {b \in Borrowers : f[b] \in Counted}

CountInv ==
    /\ borrower \in [Borrowers -> BorrowerPlaces]
    /\ in_use = Cardinality(In(borrower))

(* Only whether a borrower is counted matters. *)
LEMMA SameCount ==
    ASSUME NEW f, NEW g, \A b \in Borrowers : g[b] \in Counted <=> f[b] \in Counted
    PROVE  Cardinality(In(g)) = Cardinality(In(f))
<1>1. In(g) = In(f)
  BY DEF In
<1> QED BY <1>1

(* The borrowers that in_use_ should count are a finite set. *)
LEMMA CountNat ==
    ASSUME NEW f
    PROVE  IsFiniteSet(In(f)) /\ Cardinality(In(f)) \in Nat
BY BorrowersFinite, FS_Subset, FS_CardinalityType DEF In

(* One borrower that starts to count makes one more. *)
LEMMA OneMore ==
    ASSUME NEW f, NEW g, NEW b \in Borrowers, f[b] \notin Counted, g[b] \in Counted,
           \A x \in Borrowers \ {b} : g[x] \in Counted <=> f[x] \in Counted
    PROVE  Cardinality(In(g)) = Cardinality(In(f)) + 1
<1>1. In(g) = In(f) \cup {b} /\ b \notin In(f)
  BY DEF In
<1> QED BY Zenon, <1>1, CountNat, FS_AddElement

(* One borrower that stops counting makes one fewer, and there was one. *)
LEMMA OneFewer ==
    ASSUME NEW f, NEW g, NEW b \in Borrowers, f[b] \in Counted, g[b] \notin Counted,
           \A x \in Borrowers \ {b} : g[x] \in Counted <=> f[x] \in Counted
    PROVE  Cardinality(In(g)) = Cardinality(In(f)) - 1 /\ Cardinality(In(f)) > 0
<1>1. In(g) = In(f) \ {b} /\ b \in In(f)
  BY DEF In
<1>2. Cardinality(In(g)) = Cardinality(In(f)) - 1
  BY Zenon, <1>1, CountNat, FS_RemoveElement
<1> QED BY <1>2, CountNat

(* A notify_one moves a sleeper, which is not counted, and b goes to place. *)
LEMMA NotifyMoves ==
    ASSUME borrower \in [Borrowers -> BorrowerPlaces], NEW b \in Borrowers,
           borrower[b] \in Counted, NEW place \in {"out", "close"}, MoveAndNotifyOne(b, place)
    PROVE  /\ borrower' \in [Borrowers -> BorrowerPlaces]
           /\ borrower'[b] \notin Counted
           /\ \A x \in Borrowers \ {b} : borrower'[x] \in Counted <=> borrower[x] \in Counted
<1>1. CASE borrower' = [borrower EXCEPT ![b] = place]
  BY <1>1 DEF BorrowerPlaces, Counted
<1>2. ASSUME NEW x \in Asleep, borrower' = [borrower EXCEPT ![b] = place, ![x] = "woken"]
      PROVE  /\ borrower' \in [Borrowers -> BorrowerPlaces]
             /\ borrower'[b] \notin Counted
             /\ \A y \in Borrowers \ {b} : borrower'[y] \in Counted <=> borrower[y] \in Counted
  BY <1>2 DEF Asleep, BorrowerPlaces, Counted
<1> QED BY <1>1, <1>2 DEF MoveAndNotifyOne

(* A step that moves borrowers, but none in or out of the count. *)
LEMMA StepKeeps ==
    ASSUME CountInv, in_use' = in_use, borrower' \in [Borrowers -> BorrowerPlaces],
           \A b \in Borrowers : borrower'[b] \in Counted <=> borrower[b] \in Counted
    PROVE  CountInv'
BY SameCount DEF CountInv

(* Every step of borrow() keeps in_use_ exact: the slot is counted before the
   dial and given back when the dial fails. *)
LEMMA BorrowCounts ==
    ASSUME CountInv, NEW b \in Borrowers,
           BorrowCall(b) \/ BorrowStep(b) \/ BorrowTimesOut(b) \/ SpuriousWake(b)
    PROVE  CountInv'
<1> USE DEF Move
<1>0. borrower \in [Borrowers -> BorrowerPlaces]
  BY DEF CountInv
<1>1. ASSUME BorrowCall(b) \/ BorrowAborted(b) \/ BorrowWaits(b) \/ BorrowTimesOut(b)
             \/ SpuriousWake(b) \/ DialSucceeds(b)
      PROVE  CountInv'
  <2>1. /\ in_use' = in_use
        /\ borrower' \in [Borrowers -> BorrowerPlaces]
        /\ \A x \in Borrowers : borrower'[x] \in Counted <=> borrower[x] \in Counted
    BY <1>0, <1>1 DEF BorrowCall, BorrowAborted, BorrowWaits, BorrowTimesOut, SpuriousWake,
                      DialSucceeds, InLoop, BorrowerPlaces, Counted, poolState
  <2> QED BY <2>1, StepKeeps
<1>2. ASSUME BorrowIdle(b) \/ BorrowDials(b) PROVE CountInv'
  <2>1. /\ in_use' = in_use + 1
        /\ borrower' \in [Borrowers -> BorrowerPlaces]
        /\ borrower[b] \notin Counted /\ borrower'[b] \in Counted
        /\ \A x \in Borrowers \ {b} : borrower'[x] \in Counted <=> borrower[x] \in Counted
    BY <1>0, <1>2 DEF BorrowIdle, BorrowDials, InLoop, BorrowerPlaces, Counted
  <2> QED BY <2>1, OneMore DEF CountInv
<1>3. ASSUME DialFails(b) PROVE CountInv'
  <2>1. in_use' = in_use - 1 /\ borrower[b] \in Counted /\ MoveAndNotifyOne(b, "out")
    BY <1>3 DEF DialFails, Counted
  <2>2. /\ borrower' \in [Borrowers -> BorrowerPlaces]
        /\ borrower'[b] \notin Counted
        /\ \A x \in Borrowers \ {b} : borrower'[x] \in Counted <=> borrower[x] \in Counted
    BY <1>0, <2>1, NotifyMoves
  <2> QED BY <2>1, <2>2, OneFewer DEF CountInv
<1> QED BY <1>1, <1>2, <1>3 DEF BorrowStep

(* Every step of release() keeps in_use_ exact: it drops in the locked part. *)
LEMMA ReleaseCounts ==
    ASSUME CountInv, NEW b \in Borrowers,
           (\E ok \in BOOLEAN : ReleaseCall(b, ok)) \/ ReleaseStep(b)
    PROVE  CountInv'
<1>0. borrower \in [Borrowers -> BorrowerPlaces]
  BY DEF CountInv
<1>1. ASSUME (\E ok \in BOOLEAN : ReleaseCall(b, ok)) \/ ReleaseCloses(b) PROVE CountInv'
  <2>1. /\ in_use' = in_use
        /\ borrower' \in [Borrowers -> BorrowerPlaces]
        /\ \A x \in Borrowers : borrower'[x] \in Counted <=> borrower[x] \in Counted
    BY <1>0, <1>1 DEF ReleaseCall, ReleaseCloses, Move, BorrowerPlaces, Counted, poolState
  <2> QED BY <2>1, StepKeeps
<1>2. ASSUME ReleaseLocked(b) PROVE CountInv'
  <2>1. PICK place \in {"out", "close"} : MoveAndNotifyOne(b, place)
    BY <1>2 DEF ReleaseLocked
  <2>2. borrower[b] \in Counted /\ in_use' = IF in_use > 0 THEN in_use - 1 ELSE in_use
    BY <1>2 DEF ReleaseLocked, Counted
  <2>3. /\ borrower' \in [Borrowers -> BorrowerPlaces]
        /\ borrower'[b] \notin Counted
        /\ \A x \in Borrowers \ {b} : borrower'[x] \in Counted <=> borrower[x] \in Counted
    BY <1>0, <2>1, <2>2, NotifyMoves
  <2> QED BY <2>2, <2>3, OneFewer DEF CountInv
<1> QED BY <1>1, <1>2 DEF ReleaseStep

(* shutdown(), the reaper and the clock leave in_use_ alone. *)
LEMMA OthersCount ==
    ASSUME CountInv,
           ShutdownBegins \/ ShutdownNotifies \/ ReaperStep \/ Tick \/ UNCHANGED vars
    PROVE  CountInv'
<1>1. CASE ShutdownNotifies
  <2>1. /\ in_use' = in_use
        /\ borrower' \in [Borrowers -> BorrowerPlaces]
        /\ \A x \in Borrowers : borrower'[x] \in Counted <=> borrower[x] \in Counted
    BY <1>1 DEF ShutdownNotifies, CountInv, BorrowerPlaces, Counted, poolState
  <2> QED BY <2>1, StepKeeps
<1>2. CASE ShutdownBegins \/ ReaperStep \/ Tick \/ UNCHANGED vars
  <2>1. UNCHANGED <<in_use, borrower>>
    BY Zenon, <1>2 DEF ShutdownBegins, ReaperStep, ReaperExits, ReaperScans, ReaperClosesVictims,
                ReaperPings, ReaperClosesDead, ReaperPushes, Tick, vars, poolState, borrowerState
  <2> QED BY <2>1 DEF CountInv, In
<1> QED BY <1>1, <1>2

-----------------------------------------------------------------------------
(* The inductive invariant. *)

(* Which of the reaper's deques can hold something, by its place. *)
ReaperInv ==
    /\ reaper # "close_victims" => victims = <<>>
    /\ reaper \notin {"close_victims", "ping"} => to_check = <<>>
    /\ reaper = "ping" => to_check # <<>>
    /\ reaper \notin {"ping", "close_dead", "push"} => survivors = <<>>
    /\ reaper \notin {"ping", "close_dead"} => dead = <<>>
    /\ ~health_check => to_check = <<>> /\ reaper \in {"wait", "close_victims", "exited"}

Holding == {"hold", "release", "close"}

(* The descriptors in the hands of borrowers. *)
Held == {fd[b] : b \in {x \in Borrowers : borrower[x] \in Holding}}

HolderInv ==
    /\ \A b \in Borrowers : borrower[b] \in Holding => fd[b] \in Fds
    /\ \A b \in Borrowers : borrower[b] \notin Holding => fd[b] = NoFd
    /\ \A a, b \in Borrowers :
          borrower[a] \in Holding /\ borrower[b] \in Holding /\ fd[a] = fd[b] => a = b

(* No descriptor is in two of these sets. *)
Separate(i, v, c, s, d, h) ==
    /\ i \cap (v \cup c \cup s \cup d \cup h) = {}
    /\ v \cap (c \cup s \cup d \cup h) = {}
    /\ c \cap (s \cup d \cup h) = {}
    /\ s \cap (d \cup h) = {}
    /\ d \cap h = {}

(* The open descriptors are distributed over the deques and the borrowers. *)
OwnInv ==
    /\ Distinct(idle) /\ Distinct(victims) /\ Distinct(to_check)
    /\ Distinct(survivors) /\ Distinct(dead)
    /\ Separate(FdsOf(idle), FdsOf(victims), FdsOf(to_check), FdsOf(survivors), FdsOf(dead), Held)
    /\ open = FdsOf(idle) \cup FdsOf(victims) \cup FdsOf(to_check)
                \cup FdsOf(survivors) \cup FdsOf(dead) \cup Held

(* Six separate sets stay separate when one descriptor goes from one to another:
   from the idle deque to a borrower and back, from the slots to check to the
   survivors or to the dead. *)
LEMMA Reassigned ==
    ASSUME NEW i, NEW v, NEW c, NEW s, NEW d, NEW h, NEW f
    PROVE  /\ Separate(i \cup {f}, v, c, s, d, h) /\ f \notin i => Separate(i, v, c, s, d, h \cup {f})
           /\ Separate(i, v, c, s, d, h) /\ f \in h => Separate(i \cup {f}, v, c, s, d, h \ {f})
           /\ Separate(i, v, c \cup {f}, s, d, h) /\ f \notin c => Separate(i, v, c, s \cup {f}, d, h)
           /\ Separate(i, v, c \cup {f}, s, d, h) /\ f \notin c => Separate(i, v, c, s, d \cup {f}, h)
<1>1. ASSUME Separate(i \cup {f}, v, c, s, d, h), f \notin i
      PROVE  Separate(i, v, c, s, d, h \cup {f})
  BY <1>1 DEF Separate
<1>2. ASSUME Separate(i, v, c, s, d, h), f \in h
      PROVE  Separate(i \cup {f}, v, c, s, d, h \ {f})
  BY <1>2 DEF Separate
<1>3. ASSUME Separate(i, v, c \cup {f}, s, d, h), f \notin c
      PROVE  Separate(i, v, c, s \cup {f}, d, h)
  BY <1>3 DEF Separate
<1>4. ASSUME Separate(i, v, c \cup {f}, s, d, h), f \notin c
      PROVE  Separate(i, v, c, s, d \cup {f}, h)
  BY <1>4 DEF Separate
<1> QED BY <1>1, <1>2, <1>3, <1>4

(* What one of six separate sets holds, the five others do not. *)
LEMMA InOneOfSix ==
    ASSUME NEW i, NEW v, NEW c, NEW s, NEW d, NEW h, Separate(i, v, c, s, d, h),
           NEW f \in i \cup v \cup c \cup s \cup d \cup h
    PROVE  \/ f \in i /\ f \notin v /\ f \notin c /\ f \notin s /\ f \notin d /\ f \notin h
           \/ f \notin i /\ f \in v /\ f \notin c /\ f \notin s /\ f \notin d /\ f \notin h
           \/ f \notin i /\ f \notin v /\ f \in c /\ f \notin s /\ f \notin d /\ f \notin h
           \/ f \notin i /\ f \notin v /\ f \notin c /\ f \in s /\ f \notin d /\ f \notin h
           \/ f \notin i /\ f \notin v /\ f \notin c /\ f \notin s /\ f \in d /\ f \notin h
           \/ f \notin i /\ f \notin v /\ f \notin c /\ f \notin s /\ f \notin d /\ f \in h
BY DEF Separate

(* A slot was created when its connection was last given back, and last used then
   or, if there are pings, later. *)
Aged(slots, back, pinged) ==
    \A i \in 1..Len(slots) : /\ slots[i].created = back[slots[i].fd]
                             /\ back[slots[i].fd] <= slots[i].last_used
                             /\ ~pinged => slots[i].last_used = back[slots[i].fd]

AgeInv ==
    /\ \A f \in Fds : returned[f] <= now
    /\ Aged(idle, returned, health_check)
    /\ Aged(to_check, returned, health_check)
    /\ Aged(survivors, returned, health_check)

(* After shutdown() only what it missed is in the pool or on its way back to it. *)
MissedInv ==
    /\ shutting_down <=> shutter # "out"
    /\ shutting_down =>
          /\ FdsOf(idle) \cup FdsOf(to_check) \cup FdsOf(survivors) \subseteq missed
          /\ \A b \in Borrowers : borrower[b] = "release" /\ ~close_it[b] => fd[b] \in missed

(* The inductive invariant. *)
IInv ==
    /\ TypeOK
    /\ CountInv
    /\ ReaperInv
    /\ HolderInv
    /\ OwnInv
    /\ AgeInv
    /\ WithinMaxSizeUnpinged
    /\ MissedInv

-----------------------------------------------------------------------------
(* Each conjunct is kept by every step. *)

(* Every step keeps the type invariant. *)
LEMMA StepTypes ==
    ASSUME IInv, [Next]_vars
    PROVE  TypeOK'
<1>0. TypeOK /\ CountInv /\ HolderInv
  BY DEF IInv
<1> USE DEF poolState, borrowerState, reaperState, shutterState, clockState
<1>1. ASSUME NEW b \in Borrowers,
             \/ BorrowCall(b) \/ BorrowAborted(b) \/ BorrowWaits(b)
             \/ BorrowTimesOut(b) \/ SpuriousWake(b)
      PROVE  TypeOK'
  BY Zenon, <1>0, <1>1 DEF BorrowCall, BorrowAborted, BorrowWaits, BorrowTimesOut, SpuriousWake, Move,
                    TypeOK, BorrowerPlaces
<1>2. ASSUME NEW b \in Borrowers, BorrowIdle(b) PROVE TypeOK'
  <2>1. Head(idle).fd \in Fds /\ idle' \in Seq(Slot)
    BY Zenon, <1>0, <1>2, FdsTail DEF BorrowIdle, TypeOK, Slot
  <2>2. borrower' \in [Borrowers -> BorrowerPlaces] /\ fd' \in [Borrowers -> Fds \cup {NoFd}]
    BY <1>0, <1>2, <2>1 DEF BorrowIdle, Move, TypeOK, BorrowerPlaces
  <2>3. /\ in_use' = in_use + 1 /\ open' = open
        /\ UNCHANGED <<shutting_down, close_it, reaperState, shutterState, clockState>>
    BY <1>2 DEF BorrowIdle
  <2> QED BY <1>0, <2>1, <2>2, <2>3 DEF TypeOK
<1>3. ASSUME NEW b \in Borrowers, BorrowDials(b) PROVE TypeOK'
  BY <1>0, <1>3 DEF BorrowDials, Move, TypeOK, BorrowerPlaces
<1>4. ASSUME NEW b \in Borrowers, DialSucceeds(b) PROVE TypeOK'
  BY <1>0, <1>4 DEF DialSucceeds, Move, TypeOK, BorrowerPlaces
<1>5. ASSUME NEW b \in Borrowers, DialFails(b) PROVE TypeOK'
  <2>1. borrower' \in [Borrowers -> BorrowerPlaces]
    BY <1>0, <1>5, NotifyMoves DEF DialFails, Counted, TypeOK
  <2>2. CountInv'
    BY <1>0, <1>5, BorrowCounts DEF BorrowStep
  <2>3. in_use' \in Nat
    BY <1>0, <2>2, CountNat DEF CountInv
  <2> QED BY <1>0, <1>5, <2>1, <2>3 DEF DialFails, TypeOK
<1>6. ASSUME NEW b \in Borrowers, NEW ok \in BOOLEAN, ReleaseCall(b, ok) PROVE TypeOK'
  BY <1>0, <1>6 DEF ReleaseCall, Move, TypeOK, BorrowerPlaces
<1>7. ASSUME NEW b \in Borrowers, ReleaseLocked(b) PROVE TypeOK'
  <2>1. PICK place \in {"out", "close"} : MoveAndNotifyOne(b, place)
    BY <1>0, <1>7 DEF ReleaseLocked
  <2>2. borrower' \in [Borrowers -> BorrowerPlaces]
    BY <1>0, <1>7, <2>1, NotifyMoves DEF ReleaseLocked, Counted, TypeOK
  <2>3. in_use' \in Nat
    BY <1>0, <1>7 DEF ReleaseLocked, TypeOK
  <2>4. idle' \in Seq(Slot)
    <3>1. [fd |-> fd[b], created |-> now, last_used |-> now] \in Slot
      BY <1>0, <1>7 DEF TypeOK, Slot, HolderInv, Holding, ReleaseLocked
    <3> QED BY SMTT(30), <1>0, <1>7, <3>1, FdsAppend DEF ReleaseLocked, ReturnedToIdle, TypeOK
  <2> QED BY Zenon, <1>0, <1>7, <2>2, <2>3, <2>4 DEF ReleaseLocked, TypeOK
<1>8. ASSUME NEW b \in Borrowers, ReleaseCloses(b) PROVE TypeOK'
  BY <1>0, <1>8 DEF ReleaseCloses, Move, TypeOK, BorrowerPlaces
<1>9. CASE ShutdownBegins
  <2>1. Returning \subseteq Fds
    <3>1. FdsOf(to_check) \subseteq Fds /\ FdsOf(survivors) \subseteq Fds
      BY Zenon, <1>0, FdsMember DEF TypeOK
    <3>2. \A b \in Borrowers : borrower[b] = "release" => fd[b] \in Fds
      BY <1>0 DEF HolderInv, Holding
    <3> QED BY <3>1, <3>2 DEF Returning
  <2> HIDE DEF Returning
  <2> QED BY <1>0, <1>9, <2>1, FdsEmpty DEF ShutdownBegins, TypeOK
<1>10. CASE ShutdownNotifies
  BY <1>0, <1>10 DEF ShutdownNotifies, TypeOK, BorrowerPlaces
<1>11. CASE ReaperExits
  BY <1>0, <1>11 DEF ReaperExits, TypeOK, ReaperPlaces
<1>12. CASE ReaperScans
  <2>1. Swept(idle, TRUE) \in Seq(Slot) /\ Swept(idle, FALSE) \in Seq(Slot)
    BY Zenon, <1>0, FdsSwept DEF TypeOK
  <2> QED BY Zenon, <1>0, <1>12, <2>1, FdsEmpty DEF ReaperScans, TypeOK, ReaperPlaces
<1>13. CASE ReaperClosesVictims
  BY <1>0, <1>13, FdsEmpty DEF ReaperClosesVictims, TypeOK, ReaperPlaces
<1>14. ASSUME NEW ok \in BOOLEAN, ReaperPings(ok) PROVE TypeOK'
  <2>1. Head(to_check) \in Slot /\ Tail(to_check) \in Seq(Slot)
    BY <1>0, <1>14, FdsTail DEF ReaperPings, TypeOK
  <2>2. [Head(to_check) EXCEPT !.last_used = now] \in Slot
    BY Zenon, <1>0, <2>1 DEF TypeOK, Slot
  <2>3. survivors' \in Seq(Slot) /\ dead' \in Seq(Slot)
    BY Zenon, <1>0, <1>14, <2>1, <2>2, FdsAppend DEF ReaperPings, TypeOK
  <2> QED BY SMTT(30), <1>0, <1>14, <2>1, <2>3 DEF ReaperPings, TypeOK, ReaperPlaces
<1>15. CASE ReaperClosesDead
  BY <1>0, <1>15, FdsEmpty DEF ReaperClosesDead, TypeOK, ReaperPlaces
<1>16. CASE ReaperPushes
  BY <1>0, <1>16, FdsEmpty, FdsConcat DEF ReaperPushes, TypeOK, ReaperPlaces
<1>17. CASE Tick
  BY <1>0, <1>17 DEF Tick, TypeOK
<1>18. CASE UNCHANGED vars
  BY <1>0, <1>18 DEF vars, TypeOK
<1> QED BY SMTT(30), <1>1, <1>2, <1>3, <1>4, <1>5, <1>6, <1>7, <1>8, <1>9, <1>10, <1>11, <1>12, <1>13,
           <1>14, <1>15, <1>16, <1>17, <1>18
        DEF Next, BorrowStep, ReleaseStep, ReaperStep

(* The reaper's deques fill and empty in the order of its places. *)
LEMMA StepReaper ==
    ASSUME IInv, [Next]_vars
    PROVE  ReaperInv'
<1>0. TypeOK /\ ReaperInv
  BY DEF IInv
<1>1. ASSUME UNCHANGED <<reaperState, health_check>> PROVE ReaperInv'
  BY <1>0, <1>1 DEF ReaperInv, reaperState
<1>2. CASE ReaperExits \/ ReaperScans
  BY Zenon, <1>0, <1>2 DEF ReaperExits, ReaperScans, ReaperInv, TypeOK, shutterState
<1>3. CASE ReaperClosesVictims
  BY <1>0, <1>3 DEF ReaperClosesVictims, ReaperInv, TypeOK, shutterState
<1>4. ASSUME NEW ok \in BOOLEAN, ReaperPings(ok) PROVE ReaperInv'
  BY <1>0, <1>4 DEF ReaperPings, ReaperInv, TypeOK, shutterState
<1>5. CASE ReaperClosesDead \/ ReaperPushes
  BY <1>0, <1>5 DEF ReaperClosesDead, ReaperPushes, ReaperInv, TypeOK, shutterState
<1>6. ASSUME NEW b \in Borrowers,
             \/ BorrowCall(b) \/ BorrowStep(b) \/ BorrowTimesOut(b) \/ SpuriousWake(b)
             \/ (\E ok \in BOOLEAN : ReleaseCall(b, ok)) \/ ReleaseStep(b)
      PROVE  UNCHANGED <<reaperState, health_check>>
  BY <1>6 DEF BorrowCall, BorrowStep, BorrowAborted, BorrowIdle, BorrowDials, BorrowWaits,
              DialSucceeds, DialFails, BorrowTimesOut, SpuriousWake, ReleaseCall, ReleaseStep,
              ReleaseLocked, ReleaseCloses, shutterState
<1>7. ASSUME ShutdownBegins \/ ShutdownNotifies \/ Tick \/ UNCHANGED vars
      PROVE  UNCHANGED <<reaperState, health_check>>
  BY Zenon, <1>7 DEF ShutdownBegins, ShutdownNotifies, Tick, vars, shutterState
<1> QED BY <1>1, <1>2, <1>3, <1>4, <1>5, <1>6, <1>7 DEF Next, ReaperStep

-----------------------------------------------------------------------------
(* What the borrowers hold. *)

(* Nobody takes or gives up a descriptor. *)
LEMMA HeldStays ==
    ASSUME HolderInv, fd' = fd,
           \A b \in Borrowers : borrower'[b] \in Holding <=> borrower[b] \in Holding
    PROVE  HolderInv' /\ Held' = Held
BY DEF HolderInv, Held

(* b gets a descriptor nobody holds. *)
LEMMA HeldGrows ==
    ASSUME TypeOK, HolderInv, NEW b \in Borrowers, NEW f \in Fds, f \notin Held,
           fd' = [fd EXCEPT ![b] = f],
           borrower[b] \notin Holding, borrower'[b] \in Holding,
           \A x \in Borrowers \ {b} : borrower'[x] = borrower[x]
    PROVE  HolderInv' /\ Held' = Held \cup {f}
<1>1. fd'[b] = f /\ \A x \in Borrowers \ {b} : fd'[x] = fd[x]
  BY DEF TypeOK
<1>2. \A x \in Borrowers : borrower[x] \in Holding => fd[x] # f /\ x # b
  BY DEF Held
<1>3. HolderInv'
  BY <1>1, <1>2 DEF HolderInv
<1>4. Held' \subseteq Held \cup {f}
  BY <1>1 DEF Held
<1>5. Held \cup {f} \subseteq Held'
  BY <1>1, <1>2 DEF Held
<1> QED BY <1>3, <1>4, <1>5

(* b gives its descriptor up. *)
LEMMA HeldShrinks ==
    ASSUME TypeOK, HolderInv, NEW b \in Borrowers,
           fd' = [fd EXCEPT ![b] = NoFd],
           borrower[b] \in Holding, borrower'[b] \notin Holding,
           \A x \in Borrowers \ {b} : borrower'[x] \in Holding <=> borrower[x] \in Holding
    PROVE  HolderInv' /\ Held' = Held \ {fd[b]} /\ fd[b] \in Held /\ fd[b] \in Fds
<1>1. fd'[b] = NoFd /\ \A x \in Borrowers \ {b} : fd'[x] = fd[x]
  BY DEF TypeOK
<1>2. \A x \in Borrowers \ {b} : borrower[x] \in Holding => fd[x] # fd[b]
  BY DEF HolderInv
<1>3. HolderInv'
  BY <1>1, <1>2 DEF HolderInv
<1>4. Held' \subseteq Held \ {fd[b]}
  BY <1>1, <1>2 DEF Held
<1>5. Held \ {fd[b]} \subseteq Held'
  BY <1>1, <1>2 DEF Held
<1>6. fd[b] \in Held /\ fd[b] \in Fds
  BY DEF Held, HolderInv
<1> QED BY <1>3, <1>4, <1>5, <1>6

(* The steps that leave every descriptor where it is. *)
StillStep ==
    \/ \E b \in Borrowers :
          \/ BorrowCall(b) \/ BorrowAborted(b) \/ BorrowDials(b) \/ BorrowWaits(b)
          \/ BorrowTimesOut(b) \/ SpuriousWake(b) \/ DialFails(b)
          \/ \E ok \in BOOLEAN : ReleaseCall(b, ok)
    \/ ShutdownNotifies \/ ReaperExits \/ Tick \/ UNCHANGED vars

(* Such a step keeps who owns what. *)
LEMMA StillKeeps ==
    ASSUME IInv, StillStep
    PROVE  /\ HolderInv' /\ OwnInv'
           /\ UNCHANGED <<idle, victims, to_check, survivors, dead, open, birth, returned>>
<1>0. TypeOK /\ HolderInv /\ OwnInv
  BY DEF IInv
<1> DEFINE Still ==
             /\ fd' = fd
             /\ UNCHANGED <<idle, victims, to_check, survivors, dead, open, birth, returned>>
             /\ \A x \in Borrowers : borrower'[x] \in Holding <=> borrower[x] \in Holding
<1>1. Still
  <2> USE <1>0 DEF poolState, borrowerState, reaperState, shutterState, clockState, TypeOK, Holding
  <2>2. ASSUME NEW b \in Borrowers,
               \/ BorrowCall(b) \/ BorrowAborted(b) \/ BorrowDials(b) \/ BorrowWaits(b)
               \/ BorrowTimesOut(b) \/ SpuriousWake(b)
        PROVE Still
    BY <2>2 DEF BorrowCall, BorrowAborted, BorrowDials, BorrowWaits, BorrowTimesOut, SpuriousWake,
                Move, InLoop
  <2>3. ASSUME NEW b \in Borrowers, DialFails(b) PROVE Still
    BY Zenon, <2>3 DEF DialFails, MoveAndNotifyOne, Asleep
  <2>4. ASSUME NEW b \in Borrowers, NEW ok \in BOOLEAN, ReleaseCall(b, ok)
        PROVE  Still
    BY <2>4 DEF ReleaseCall, Move
  <2>5. CASE ShutdownNotifies
    BY <2>5 DEF ShutdownNotifies
  <2>6. CASE ReaperExits \/ Tick \/ UNCHANGED vars
    BY <2>6 DEF ReaperExits, Tick, vars
  <2> QED BY SMTT(30), <2>2, <2>3, <2>4, <2>5, <2>6 DEF StillStep
<1>2. HolderInv' /\ Held' = Held
  BY <1>0, <1>1, HeldStays
<1> QED BY <1>0, <1>1, <1>2 DEF OwnInv

(* Every step moves descriptors between the deques and the borrowers, or opens or
   closes them, so that the open ones stay distributed. *)
LEMMA StepOwn ==
    ASSUME IInv, [Next]_vars
    PROVE  HolderInv' /\ OwnInv'
<1>0. TypeOK /\ HolderInv /\ OwnInv /\ ReaperInv
  BY DEF IInv
<1>t. /\ idle \in Seq(Slot) /\ victims \in Seq(Slot) /\ to_check \in Seq(Slot)
      /\ survivors \in Seq(Slot) /\ dead \in Seq(Slot)
      /\ FdsOf(<<>>) = {} /\ Distinct(<<>>)
  BY <1>0, FdsEmpty DEF TypeOK
<1>1. CASE StillStep
  BY <1>1, StillKeeps
<1> USE DEF poolState, borrowerState, reaperState, shutterState, clockState
<1>2. ASSUME NEW b \in Borrowers, BorrowIdle(b) PROVE HolderInv' /\ OwnInv'
  <2> DEFINE f == Head(idle).fd
  <2>1. /\ f \in FdsOf(idle) /\ FdsOf(idle) = FdsOf(idle') \cup {f}
        /\ Distinct(idle') /\ f \notin FdsOf(idle') /\ f \in Fds
    BY SMTT(30), <1>0, <1>t, <1>2, FdsTail, FdsMember DEF BorrowIdle, OwnInv
  <2>2. f \notin Held
    BY <1>0, <2>1 DEF OwnInv, Separate
  <2>3. /\ fd' = [fd EXCEPT ![b] = f] /\ borrower[b] \notin Holding /\ borrower'[b] \in Holding
        /\ \A x \in Borrowers \ {b} : borrower'[x] = borrower[x]
    BY <1>0, <1>2 DEF BorrowIdle, InLoop, Move, Holding, TypeOK
  <2> HIDE DEF f
  <2>4. HolderInv' /\ Held' = Held \cup {f}
    BY Zenon, <1>0, <2>1, <2>2, <2>3, HeldGrows
  <2>5. UNCHANGED <<victims, to_check, survivors, dead, open>>
    BY <1>2 DEF BorrowIdle
  <2>6. Separate(FdsOf(idle'), FdsOf(victims), FdsOf(to_check), FdsOf(survivors), FdsOf(dead),
                 Held \cup {f})
    BY Zenon, <1>0, <2>1, Reassigned DEF OwnInv
  <2> QED BY SMTT(30), <1>0, <2>1, <2>4, <2>5, <2>6 DEF OwnInv
<1>3. ASSUME NEW b \in Borrowers, DialSucceeds(b) PROVE HolderInv' /\ OwnInv'
  <2>1. PICK f \in Fds \ open : open' = open \cup {f} /\ fd' = [fd EXCEPT ![b] = f]
    BY Zenon, <1>3 DEF DialSucceeds
  <2>2. /\ borrower[b] \notin Holding /\ borrower'[b] \in Holding
        /\ \A x \in Borrowers \ {b} : borrower'[x] = borrower[x]
    BY <1>0, <1>3 DEF DialSucceeds, Move, Holding, TypeOK
  <2>3. HolderInv' /\ Held' = Held \cup {f}
    BY Zenon, <1>0, <2>1, <2>2, HeldGrows DEF OwnInv
  <2>4. UNCHANGED <<idle, victims, to_check, survivors, dead>>
    BY <1>3 DEF DialSucceeds
  <2> QED BY <1>0, <2>1, <2>3, <2>4 DEF OwnInv, Separate
<1>4. ASSUME NEW b \in Borrowers, ReleaseLocked(b) PROVE HolderInv' /\ OwnInv'
  <2>1. UNCHANGED <<victims, to_check, survivors, dead, open>>
    BY <1>4 DEF ReleaseLocked
  <2>2. /\ borrower[b] \in Holding
        /\ borrower'[b] = IF close_it[b] THEN "close" ELSE "out"
        /\ \A x \in Borrowers \ {b} : borrower'[x] \in Holding <=> borrower[x] \in Holding
    BY <1>0, <1>4 DEF ReleaseLocked, MoveAndNotifyOne, Asleep, Holding, TypeOK
  <2>3. CASE close_it[b]
    <3>1. idle' = idle /\ fd' = fd
      BY <1>0, <1>4, <2>3 DEF ReleaseLocked, ReturnedToIdle, TypeOK
    <3>2. HolderInv' /\ Held' = Held
      BY SMTT(30), <1>0, <2>2, <2>3, <3>1, HeldStays DEF Holding
    <3> QED BY <1>0, <2>1, <3>1, <3>2 DEF OwnInv
  <2>4. CASE ~close_it[b]
    <3> DEFINE slot == [fd |-> fd[b], created |-> now, last_used |-> now]
    <3>1. idle' = Append(idle, slot) /\ fd' = [fd EXCEPT ![b] = NoFd]
      BY <1>0, <1>4, <2>4 DEF ReleaseLocked, ReturnedToIdle, TypeOK
    <3>2. HolderInv' /\ Held' = Held \ {fd[b]} /\ fd[b] \in Held /\ fd[b] \in Fds
      BY Zenon, <1>0, <2>2, <2>4, <3>1, HeldShrinks DEF Holding
    <3>3. slot \in Slot /\ slot.fd = fd[b]
      BY <1>0, <3>2 DEF Slot, TypeOK
    <3>4. fd[b] \notin FdsOf(idle)
      BY <1>0, <3>2 DEF OwnInv, Separate
    <3>5. FdsOf(idle') = FdsOf(idle) \cup {fd[b]} /\ Distinct(idle')
      BY SMTT(30), <1>0, <1>t, <3>1, <3>3, <3>4, FdsAppend DEF OwnInv
    <3>6. Separate(FdsOf(idle) \cup {fd[b]}, FdsOf(victims), FdsOf(to_check), FdsOf(survivors),
                   FdsOf(dead), Held \ {fd[b]})
      BY ZenonT(30), <1>0, <3>2, Reassigned DEF OwnInv
    <3> QED BY SMTT(30), <1>0, <2>1, <3>2, <3>5, <3>6 DEF OwnInv
  <2> QED BY <2>3, <2>4
<1>5. ASSUME NEW b \in Borrowers, ReleaseCloses(b) PROVE HolderInv' /\ OwnInv'
  <2>1. /\ fd' = [fd EXCEPT ![b] = NoFd] /\ borrower[b] \in Holding /\ borrower'[b] \notin Holding
        /\ \A x \in Borrowers \ {b} : borrower'[x] \in Holding <=> borrower[x] \in Holding
    BY SMTT(30), <1>0, <1>5 DEF ReleaseCloses, Move, Holding, TypeOK
  <2>2. HolderInv' /\ Held' = Held \ {fd[b]} /\ fd[b] \in Held /\ fd[b] \in Fds
    BY Zenon, <1>0, <2>1, HeldShrinks
  <2>3. open' = open \ {fd[b]} /\ UNCHANGED <<idle, victims, to_check, survivors, dead>>
    BY <1>5 DEF ReleaseCloses
  <2> QED BY <1>0, <2>2, <2>3 DEF OwnInv, Separate
<1>6. ASSUME ShutdownBegins \/ ReaperStep
      PROVE  HolderInv' /\ Held' = Held
  <2>1. UNCHANGED <<borrower, fd>>
    BY Zenon, <1>6 DEF ShutdownBegins, ReaperStep, ReaperExits, ReaperScans, ReaperClosesVictims,
                ReaperPings, ReaperClosesDead, ReaperPushes
  <2> QED BY <1>0, <2>1, HeldStays
<1>7. CASE ShutdownBegins
  <2>1. /\ idle' = <<>> /\ open' = open \ FdsOf(idle)
        /\ UNCHANGED <<victims, to_check, survivors, dead>>
    BY <1>7 DEF ShutdownBegins, ClosedAtShutdown
  <2> QED BY <1>0, <1>t, <1>6, <1>7, <2>1 DEF OwnInv, Separate
<1>8. CASE ReaperScans
  <2>1. victims = <<>> /\ to_check = <<>>
    BY <1>0, <1>8 DEF ReaperScans, ReaperInv
  <2> DEFINE v == Swept(idle, TRUE)
             r == Swept(idle, FALSE)
  <2>2. /\ FdsOf(idle) = FdsOf(v) \cup FdsOf(r) /\ FdsOf(v) \cap FdsOf(r) = {}
        /\ Distinct(v) /\ Distinct(r)
    BY Zenon, <1>0, <1>t, FdsSwept DEF OwnInv
  <2>3. /\ victims' = v /\ UNCHANGED <<survivors, dead, open>>
        /\ \/ to_check' = r /\ idle' = <<>>
           \/ to_check' = <<>> /\ idle' = r
    BY ZenonT(30), <1>8 DEF ReaperScans
  <2> HIDE DEF v, r
  <2>4. CASE to_check' = r /\ idle' = <<>>
    BY SMTT(30), <1>0, <1>t, <1>6, <1>8, <2>1, <2>2, <2>3, <2>4 DEF OwnInv, Separate, ReaperStep
  <2>5. CASE to_check' = <<>> /\ idle' = r
    BY SMTT(30), <1>0, <1>t, <1>6, <1>8, <2>1, <2>2, <2>3, <2>5 DEF OwnInv, Separate, ReaperStep
  <2> QED BY <2>3, <2>4, <2>5
<1>9. CASE ReaperClosesVictims
  <2>1. /\ victims' = <<>> /\ open' = open \ FdsOf(victims)
        /\ UNCHANGED <<idle, to_check, survivors, dead>>
    BY <1>9 DEF ReaperClosesVictims
  <2> QED BY SMTT(30), <1>0, <1>t, <1>6, <1>9, <2>1 DEF OwnInv, Separate, ReaperStep
<1>10. ASSUME NEW ok \in BOOLEAN, ReaperPings(ok) PROVE HolderInv' /\ OwnInv'
  <2> DEFINE s == Head(to_check)
             f == s.fd
  <2>1. /\ s \in Slot /\ f \in FdsOf(to_check) /\ FdsOf(to_check) = FdsOf(to_check') \cup {f}
        /\ Distinct(to_check') /\ f \notin FdsOf(to_check')
    BY ZenonT(30), <1>0, <1>t, <1>10, FdsTail DEF ReaperPings, OwnInv
  <2>2. f \notin FdsOf(survivors) /\ f \notin FdsOf(dead)
    BY <1>0, <2>1 DEF OwnInv, Separate
  <2>3. UNCHANGED <<idle, victims, open>>
    BY <1>10 DEF ReaperPings
  <2>4. HolderInv' /\ Held' = Held
    BY <1>6, <1>10 DEF ReaperStep
  <2>5. CASE ok
    <3> DEFINE n == [s EXCEPT !.last_used = now]
    <3>1. n \in Slot /\ n.fd = f
      BY ZenonT(30), <1>0, <2>1 DEF Slot, TypeOK
    <3>2. survivors' = Append(survivors, n) /\ dead' = dead
      BY <1>10, <2>5 DEF ReaperPings
    <3> HIDE DEF n, f, s
    <3>3. FdsOf(survivors') = FdsOf(survivors) \cup {f} /\ Distinct(survivors')
      BY <1>0, <1>t, <2>2, <3>1, <3>2, FdsAppend DEF OwnInv
    <3>4. Separate(FdsOf(idle), FdsOf(victims), FdsOf(to_check'), FdsOf(survivors) \cup {f},
                   FdsOf(dead), Held)
      BY Zenon, <1>0, <2>1, Reassigned DEF OwnInv
    <3> QED BY SMTT(30), <1>0, <2>1, <2>3, <2>4, <3>2, <3>3, <3>4 DEF OwnInv
  <2>6. CASE ~ok
    <3>1. dead' = Append(dead, s) /\ survivors' = survivors
      BY SMTT(30), <1>10, <2>6 DEF ReaperPings
    <3>2. FdsOf(dead') = FdsOf(dead) \cup {f} /\ Distinct(dead')
      BY SMTT(30), <1>0, <1>t, <2>1, <2>2, <3>1, FdsAppend DEF OwnInv
    <3> HIDE DEF f, s
    <3>3. Separate(FdsOf(idle), FdsOf(victims), FdsOf(to_check'), FdsOf(survivors),
                   FdsOf(dead) \cup {f}, Held)
      BY Zenon, <1>0, <2>1, Reassigned DEF OwnInv
    <3> QED BY SMTT(30), <1>0, <2>1, <2>3, <2>4, <3>1, <3>2, <3>3 DEF OwnInv
  <2> QED BY SMTT(30), <2>5, <2>6
<1>11. CASE ReaperClosesDead
  <2>1. /\ dead' = <<>> /\ open' = open \ FdsOf(dead)
        /\ UNCHANGED <<idle, victims, to_check, survivors>>
    BY SMTT(30), <1>11 DEF ReaperClosesDead
  <2> QED BY <1>0, <1>t, <1>6, <1>11, <2>1 DEF OwnInv, Separate, ReaperStep
<1>12. CASE ReaperPushes
  <2>1. /\ idle' = idle \o survivors /\ survivors' = <<>>
        /\ UNCHANGED <<victims, to_check, dead, open>>
    BY <1>12 DEF ReaperPushes
  <2>2. FdsOf(idle) \cap FdsOf(survivors) = {}
    BY <1>0 DEF OwnInv, Separate
  <2>3. FdsOf(idle') = FdsOf(idle) \cup FdsOf(survivors) /\ Distinct(idle')
    BY <1>0, <1>t, <2>1, <2>2, FdsConcat DEF OwnInv
  <2> QED BY SMTT(30), <1>0, <1>t, <1>6, <1>12, <2>1, <2>3 DEF OwnInv, Separate, ReaperStep
<1> QED
  BY SMTT(30), <1>1, <1>2, <1>3, <1>4, <1>5, <1>7, <1>8, <1>9, <1>10, <1>11, <1>12
     DEF Next, BorrowStep, ReleaseStep, ReaperStep, StillStep

-----------------------------------------------------------------------------
(* The times of a slot and of its connection. *)

(* Aged under the operations on deques. *)
LEMMA AgedEmpty == ASSUME NEW back, NEW pinged PROVE Aged(<<>>, back, pinged)
BY SMTT(30), EmptySeq DEF Aged

(* push_back() of a slot with the right times. *)
LEMMA AgedAppend ==
    ASSUME NEW slots \in Seq(Slot), NEW s \in Slot, NEW back, NEW pinged,
           Aged(slots, back, pinged), s.created = back[s.fd], back[s.fd] <= s.last_used,
           ~pinged => s.last_used = back[s.fd]
    PROVE  Aged(Append(slots, s), back, pinged)
<1>1. /\ Len(Append(slots, s)) = Len(slots) + 1 /\ Len(slots) \in Nat
      /\ \A i \in 1..Len(slots) : Append(slots, s)[i] = slots[i]
      /\ Append(slots, s)[Len(slots) + 1] = s
  BY AppendProperties, LenProperties
<1>2. \A i \in 1..(Len(slots) + 1) : i \in 1..Len(slots) \/ i = Len(slots) + 1
  BY <1>1
<1> QED BY SMTT(30), <1>1, <1>2 DEF Aged

(* pop_front() leaves the other slots as they are. *)
LEMMA AgedTail ==
    ASSUME NEW slots \in Seq(Slot), slots # <<>>, NEW back, NEW pinged, Aged(slots, back, pinged)
    PROVE  /\ Aged(Tail(slots), back, pinged)
           /\ Head(slots).created = back[Head(slots).fd]
<1>1. /\ Len(Tail(slots)) = Len(slots) - 1
      /\ \A i \in 1..Len(Tail(slots)) : Tail(slots)[i] = slots[i + 1]
      /\ Head(slots) = slots[1] /\ Len(slots) \in Nat
  BY HeadTailProperties, LenProperties
<1>2. Len(slots) # 0
  BY EmptySeq
<1>3. \A i \in 1..Len(Tail(slots)) : i + 1 \in 1..Len(slots)
  BY <1>1
<1>4. 1 \in 1..Len(slots)
  BY <1>1, <1>2
<1> QED BY <1>1, <1>3, <1>4 DEF Aged

(* Pushing back a whole deque. *)
LEMMA AgedConcat ==
    ASSUME NEW s \in Seq(Slot), NEW t \in Seq(Slot), NEW back, NEW pinged,
           Aged(s, back, pinged), Aged(t, back, pinged)
    PROVE  Aged(s \o t, back, pinged)
<1>1. /\ Len(s \o t) = Len(s) + Len(t) /\ Len(s) \in Nat /\ Len(t) \in Nat
      /\ \A i \in 1..(Len(s) + Len(t)) : (s \o t)[i] = IF i <= Len(s) THEN s[i] ELSE t[i - Len(s)]
  BY ConcatProperties, LenProperties
<1>2. \A i \in 1..(Len(s) + Len(t)) : \/ i \in 1..Len(s) /\ (s \o t)[i] = s[i]
                                      \/ i - Len(s) \in 1..Len(t) /\ (s \o t)[i] = t[i - Len(s)]
  BY SMTT(30), <1>1
<1> QED BY SMTT(30), <1>1, <1>2 DEF Aged

(* The scan keeps the times of the slots; it erases the expired ones and no other. *)
LEMMA AgedSwept ==
    ASSUME NEW slots \in Seq(Slot), NEW kill \in BOOLEAN, NEW back, NEW pinged,
           Aged(slots, back, pinged)
    PROVE  /\ Aged(Swept(slots, kill), back, pinged)
           /\ \A i \in 1..Len(Swept(slots, kill)) : Expired(Swept(slots, kill)[i]) <=> kill
<1>1. Sifts(slots, kill, Swept(slots, kill), Len(slots))
  BY SweptSifts
<1> DEFINE out == Swept(slots, kill)
<1>2. ASSUME NEW i \in 1..Len(out)
      PROVE  \E j \in 1..Len(slots) : out[i] = slots[j] /\ (Expired(slots[j]) <=> kill)
  BY Zenon, <1>1 DEF Sifts
<1> HIDE DEF out
<1>3. ASSUME NEW i \in 1..Len(out)
      PROVE  /\ out[i].created = back[out[i].fd] /\ back[out[i].fd] <= out[i].last_used
             /\ ~pinged => out[i].last_used = back[out[i].fd]
             /\ Expired(out[i]) <=> kill
  <2>1. PICK j \in 1..Len(slots) : out[i] = slots[j] /\ (Expired(slots[j]) <=> kill)
    BY <1>2
  <2>2. /\ slots[j].created = back[slots[j].fd] /\ back[slots[j].fd] <= slots[j].last_used
        /\ ~pinged => slots[j].last_used = back[slots[j].fd]
    BY Zenon DEF Aged
  <2> QED BY Zenon, <2>1, <2>2
<1> QED BY Zenon, <1>3 DEF Aged, out

(* When a descriptor that is not in the deque was given back does not matter to it. *)
LEMMA AgedElsewhere ==
    ASSUME NEW slots \in Seq(Slot), NEW back \in [Fds -> Nat], NEW pinged,
           NEW f \in Fds, f \notin FdsOf(slots), NEW t, Aged(slots, back, pinged)
    PROVE  Aged(slots, [back EXCEPT ![f] = t], pinged)
<1>1. \A i \in 1..Len(slots) : slots[i].fd # f /\ slots[i].fd \in Fds
  BY FdsMember
<1>2. \A g \in Fds : g # f => [back EXCEPT ![f] = t][g] = back[g]
  OBVIOUS
<1> QED BY <1>1, <1>2 DEF Aged

(* By its last return, an expired slot is too old and another is not. *)
AgeMatches(s, pinged) ==
    LET age == now - returned[s.fd] IN
        /\ Expired(s) => age > IdleTimeout \/ age > MaxLifetime
        /\ ~Expired(s) => age <= MaxLifetime /\ (~pinged => age <= IdleTimeout)

(* A slot's times say when its connection was given back. *)
LEMMA AgeOfSlot ==
    ASSUME NEW slots \in Seq(Slot), returned \in [Fds -> Nat], now \in Nat, NEW pinged,
           Aged(slots, returned, pinged), NEW i \in 1..Len(slots)
    PROVE  AgeMatches(slots[i], pinged)
<1> DEFINE s == slots[i]
           r == returned[s.fd]
<1>1. s \in Slot
  BY ElementOfSeq
<1>2. s.fd \in Fds /\ s.created \in Nat /\ s.last_used \in Nat
  BY <1>1 DEF Slot
<1>3. r \in Nat
  BY <1>2
<1>4. s.created = r /\ r <= s.last_used /\ (~pinged => s.last_used = r)
  BY Zenon DEF Aged
<1>5. Expired(s) <=> now - s.last_used > IdleTimeout \/ now - s.created > MaxLifetime
  BY Zenon DEF Expired
<1> HIDE DEF s, r
<1>6. /\ Expired(s) => now - r > IdleTimeout \/ now - r > MaxLifetime
      /\ ~Expired(s) => now - r <= MaxLifetime /\ (~pinged => now - r <= IdleTimeout)
  BY SMTT(30), <1>2, <1>3, <1>4, <1>5, ClockAssumption
<1> QED BY Zenon, <1>6 DEF s, r, AgeMatches

(* The clock only goes forward. *)
LEMMA NowGrows ==
    ASSUME TypeOK, [Next]_vars
    PROVE  now' \in Nat /\ now' >= now
<1>1. now' = now \/ now' = now + 1
  <2> USE DEF poolState, borrowerState, reaperState, shutterState, clockState
  <2>1. ASSUME NEW b \in Borrowers,
               \/ BorrowCall(b) \/ BorrowStep(b) \/ BorrowTimesOut(b) \/ SpuriousWake(b)
               \/ (\E ok \in BOOLEAN : ReleaseCall(b, ok)) \/ ReleaseStep(b)
        PROVE  now' = now
    BY <2>1 DEF BorrowCall, BorrowStep, BorrowAborted, BorrowIdle, BorrowDials, BorrowWaits,
                DialSucceeds, DialFails, BorrowTimesOut, SpuriousWake, ReleaseCall, ReleaseStep,
                ReleaseLocked, ReleaseCloses
  <2>2. ASSUME ReaperStep PROVE now' = now
    BY Zenon, <2>2 DEF ReaperStep, ReaperExits, ReaperScans, ReaperClosesVictims, ReaperPings,
                ReaperClosesDead, ReaperPushes
  <2>3. ASSUME ShutdownBegins \/ ShutdownNotifies \/ UNCHANGED vars PROVE now' = now
    BY Zenon, <2>3 DEF ShutdownBegins, ShutdownNotifies, vars
  <2> QED BY SMTT(30), <2>1, <2>2, <2>3 DEF Next, Tick
<1> QED BY SMTT(30), <1>1 DEF TypeOK

(* No step parts the times of a slot from those of its connection: release() sets
   both to now, the ping moves last_used only. *)
LEMMA StepAge ==
    ASSUME IInv, [Next]_vars
    PROVE  AgeInv'
<1>0. TypeOK /\ HolderInv /\ OwnInv /\ ReaperInv /\ AgeInv
  BY DEF IInv
<1>t. /\ idle \in Seq(Slot) /\ to_check \in Seq(Slot) /\ survivors \in Seq(Slot) /\ now \in Nat
      /\ returned \in [Fds -> Nat]
  BY <1>0 DEF TypeOK
<1>n. now' \in Nat /\ now' >= now
  BY <1>0, NowGrows
<1>e. Aged(<<>>, returned, health_check)
  BY AgedEmpty
<1>k. ASSUME returned' = returned PROVE \A f \in Fds : returned'[f] <= now'
  BY SMTT(30), <1>0, <1>t, <1>n, <1>k DEF AgeInv
<1> USE DEF poolState, borrowerState, reaperState, shutterState, clockState
<1>1. CASE \/ StillStep \/ ReaperClosesVictims \/ ReaperClosesDead
           \/ \E b \in Borrowers : ReleaseCloses(b) \/ DialSucceeds(b)
  <2>1. UNCHANGED <<idle, to_check, survivors, returned>>
    BY <1>1, StillKeeps DEF ReleaseCloses, DialSucceeds, ReaperClosesVictims, ReaperClosesDead
  <2>2. health_check' = health_check
    BY Zenon, <1>1 DEF StillStep, BorrowCall, BorrowAborted, BorrowDials, BorrowWaits, BorrowTimesOut,
                SpuriousWake, DialFails, ReleaseCall, ShutdownNotifies, ReaperExits, Tick, vars,
                ReleaseCloses, DialSucceeds, ReaperClosesVictims, ReaperClosesDead
  <2> QED BY SMTT(30), <1>0, <1>k, <2>1, <2>2 DEF AgeInv
<1>2. ASSUME NEW b \in Borrowers, BorrowIdle(b) PROVE AgeInv'
  <2>1. Aged(idle', returned, health_check)
    BY <1>0, <1>t, <1>2, AgedTail DEF BorrowIdle, AgeInv
  <2>2. UNCHANGED <<to_check, survivors, returned, health_check>>
    BY SMTT(30), <1>2 DEF BorrowIdle
  <2> QED BY <1>0, <1>k, <2>1, <2>2 DEF AgeInv
<1>4. ASSUME NEW b \in Borrowers, ReleaseLocked(b) PROVE AgeInv'
  <2> DEFINE f == fd[b]
             slot == [fd |-> f, created |-> now, last_used |-> now]
  <2>1. f \in Held /\ f \in Fds
    BY <1>0, <1>4 DEF ReleaseLocked, Held, HolderInv, Holding
  <2>2. /\ returned' = [returned EXCEPT ![f] = now]
        /\ UNCHANGED <<to_check, survivors, now, health_check>>
    BY <1>4 DEF ReleaseLocked
  <2>3. idle' = idle \/ idle' = Append(idle, slot)
    BY <1>4 DEF ReleaseLocked, ReturnedToIdle
  <2>4. f \notin FdsOf(idle) /\ f \notin FdsOf(to_check) /\ f \notin FdsOf(survivors)
    BY <1>0, <2>1 DEF OwnInv, Separate
  <2>s. slot \in Slot /\ slot.fd = f /\ slot.created = now /\ slot.last_used = now
    BY <1>t, <2>1 DEF Slot
  <2> HIDE DEF f, slot
  <2>5. /\ Aged(idle, returned', health_check) /\ Aged(to_check, returned', health_check)
        /\ Aged(survivors, returned', health_check)
    BY Zenon, <1>0, <1>t, <2>1, <2>2, <2>4, AgedElsewhere DEF AgeInv
  <2>6. (\A g \in Fds : returned'[g] <= now') /\ returned'[f] = now /\ now <= now
    BY <1>0, <1>t, <2>1, <2>2 DEF AgeInv
  <2>7. Aged(Append(idle, slot), returned', health_check)
    BY ZenonT(30), <1>t, <2>5, <2>6, <2>s, AgedAppend
  <2> QED BY Zenon, <2>2, <2>3, <2>5, <2>6, <2>7 DEF AgeInv
<1>5. CASE ShutdownBegins
  <2>1. idle' = <<>> /\ UNCHANGED <<to_check, survivors, returned, health_check>>
    BY SMTT(30), <1>5 DEF ShutdownBegins
  <2> QED BY SMTT(30), <1>0, <1>e, <1>k, <2>1 DEF AgeInv
<1>6. CASE ReaperScans
  <2>1. /\ UNCHANGED <<survivors, returned, health_check>>
        /\ \/ to_check' = Swept(idle, FALSE) /\ idle' = <<>>
           \/ to_check' = <<>> /\ idle' = Swept(idle, FALSE)
    BY Zenon, <1>6 DEF ReaperScans
  <2>2. Aged(Swept(idle, FALSE), returned, health_check)
    BY ZenonT(30), <1>0, <1>t, AgedSwept DEF AgeInv
  <2> QED BY Zenon, <1>0, <1>e, <1>k, <2>1, <2>2 DEF AgeInv
<1>8. ASSUME NEW ok \in BOOLEAN, ReaperPings(ok) PROVE AgeInv'
  <2> DEFINE s == Head(to_check)
             n == [s EXCEPT !.last_used = now]
  <2>1. s \in Slot
    BY SMTT(30), <1>t, <1>8, FdsTail DEF ReaperPings
  <2>2. Aged(to_check', returned, health_check) /\ s.created = returned[s.fd]
    BY SMTT(30), <1>0, <1>t, <1>8, AgedTail DEF ReaperPings, AgeInv
  <2>3. UNCHANGED <<idle, returned, health_check>> /\ health_check
    BY <1>0, <1>8 DEF ReaperPings, ReaperInv
  <2>4. survivors' = survivors \/ survivors' = Append(survivors, n)
    BY <1>8 DEF ReaperPings
  <2>5. n \in Slot /\ n.fd = s.fd /\ n.created = s.created /\ n.last_used = now /\ n.fd \in Fds
    BY Zenon, <1>t, <2>1 DEF Slot
  <2> HIDE DEF s, n
  <2>6. returned[n.fd] <= now
    BY <1>0, <2>5 DEF AgeInv
  <2>7. Aged(survivors', returned, health_check)
    BY Zenon, <1>0, <1>t, <2>2, <2>3, <2>4, <2>5, <2>6, AgedAppend DEF AgeInv
  <2>8. Aged(idle, returned, health_check) /\ \A f \in Fds : returned'[f] <= now'
    BY <1>0, <1>k, <2>3 DEF AgeInv
  <2> QED BY Zenon, <2>2, <2>3, <2>7, <2>8 DEF AgeInv
<1>9. CASE ReaperPushes
  <2>1. /\ idle' = idle \o survivors /\ survivors' = <<>>
        /\ UNCHANGED <<to_check, returned, health_check>>
    BY <1>9 DEF ReaperPushes
  <2>2. Aged(idle', returned, health_check)
    BY <1>0, <1>t, <2>1, AgedConcat DEF AgeInv
  <2> QED BY <1>0, <1>e, <1>k, <2>1, <2>2 DEF AgeInv
<1> QED
  BY SMTT(30), <1>1, <1>2, <1>4, <1>5, <1>6, <1>8, <1>9
     DEF Next, BorrowStep, ReleaseStep, ReaperStep, StillStep

-----------------------------------------------------------------------------
(* The size of the pool, and what follows shutdown(). *)

(* in_use_ is positive while a borrower is counted. *)
LEMMA CountedPositive ==
    ASSUME CountInv, NEW b \in Borrowers, borrower[b] \in Counted
    PROVE  in_use \in Nat /\ in_use > 0
<1>1. b \in In(borrower)
  BY DEF In
<1>2. IsFiniteSet(In(borrower)) /\ Cardinality(In(borrower)) \in Nat
  BY CountNat
<1>3. Cardinality(In(borrower)) # 0
  BY <1>1, <1>2, FS_EmptySet
<1> QED BY <1>2, <1>3 DEF CountInv

(* Without health checks no step takes the pool over max_size. *)
LEMMA StepRoom ==
    ASSUME IInv, [Next]_vars
    PROVE  WithinMaxSizeUnpinged'
<1>0. TypeOK /\ CountInv /\ ReaperInv /\ WithinMaxSizeUnpinged
  BY DEF IInv
<1> USE DEF poolState, borrowerState, reaperState, shutterState, clockState
<1>t. in_use \in Nat /\ idle \in Seq(Slot) /\ Len(idle) \in Nat /\ MaxSize \in Nat /\ Len(<<>>) = 0
  BY <1>0, MaxSizeAssumption, LenProperties, EmptySeq DEF TypeOK
<1>1. ASSUME UNCHANGED <<idle, in_use, health_check>> PROVE WithinMaxSizeUnpinged'
  BY <1>0, <1>1 DEF WithinMaxSizeUnpinged
<1>2. ASSUME NEW b \in Borrowers, BorrowIdle(b) PROVE WithinMaxSizeUnpinged'
  <2>1. Len(idle') = Len(idle) - 1 /\ in_use' = in_use + 1 /\ health_check' = health_check
    BY <1>t, <1>2, FdsTail DEF BorrowIdle
  <2> QED BY SMTT(30), <1>0, <1>t, <2>1 DEF WithinMaxSizeUnpinged
<1>3. ASSUME NEW b \in Borrowers, BorrowDials(b) PROVE WithinMaxSizeUnpinged'
  BY <1>t, <1>3 DEF BorrowDials, HasRoom, WithinMaxSizeUnpinged
<1>4. ASSUME NEW b \in Borrowers, DialFails(b) PROVE WithinMaxSizeUnpinged'
  BY <1>0, <1>t, <1>4 DEF DialFails, WithinMaxSizeUnpinged
<1>5. ASSUME NEW b \in Borrowers, ReleaseLocked(b) PROVE WithinMaxSizeUnpinged'
  <2>1. in_use' = in_use - 1 /\ health_check' = health_check
    BY SMTT(30), <1>0, <1>t, <1>5, CountedPositive DEF ReleaseLocked, Counted
  <2> DEFINE slot == [fd |-> fd[b], created |-> now, last_used |-> now]
  <2>2. idle' = idle \/ idle' = Append(idle, slot)
    BY <1>5 DEF ReleaseLocked, ReturnedToIdle
  <2> HIDE DEF slot
  <2>3. Len(idle') = Len(idle) \/ Len(idle') = Len(idle) + 1
    BY <1>t, <2>2
  <2> QED BY SMTT(30), <1>0, <1>t, <2>1, <2>3 DEF WithinMaxSizeUnpinged
<1>6. CASE ShutdownBegins
  <2>1. Len(idle') = 0 /\ UNCHANGED <<in_use, health_check>>
    BY <1>t, <1>6 DEF ShutdownBegins
  <2> QED BY <1>0, <1>t, <2>1 DEF WithinMaxSizeUnpinged
<1>7. CASE ReaperScans
  <2>1. /\ UNCHANGED <<in_use, health_check>>
        /\ idle' = <<>> \/ idle' = Swept(idle, FALSE)
    BY Zenon, <1>7 DEF ReaperScans
  <2>2. Len(idle') \in Nat /\ Len(idle') <= Len(idle)
    <3>1. Swept(idle, FALSE) \in Seq(Slot) /\ Len(Swept(idle, FALSE)) <= Len(idle)
      BY Zenon, <1>t, FdsSwept
    <3>2. Len(Swept(idle, FALSE)) \in Nat
      BY Zenon, <3>1, LenProperties
    <3>3. CASE idle' = <<>>
      BY <1>t, <3>3
    <3>4. CASE idle' = Swept(idle, FALSE)
      BY Zenon, <3>1, <3>2, <3>4
    <3> QED BY Zenon, <2>1, <3>3, <3>4
  <2> QED BY <1>0, <1>t, <2>1, <2>2 DEF WithinMaxSizeUnpinged
<1>8. CASE ReaperPushes
  BY <1>0, <1>8 DEF ReaperPushes, ReaperInv, WithinMaxSizeUnpinged
<1>9. ASSUME \/ \E b \in Borrowers :
                   \/ BorrowCall(b) \/ BorrowAborted(b) \/ BorrowWaits(b) \/ BorrowTimesOut(b)
                   \/ SpuriousWake(b) \/ DialSucceeds(b) \/ ReleaseCloses(b)
                   \/ \E ok \in BOOLEAN : ReleaseCall(b, ok)
             \/ ShutdownNotifies \/ ReaperExits \/ ReaperClosesVictims \/ ReaperClosesDead
             \/ Tick \/ UNCHANGED vars \/ \E ok \in BOOLEAN : ReaperPings(ok)
      PROVE  UNCHANGED <<idle, in_use, health_check>>
  BY Zenon, <1>9 DEF BorrowCall, BorrowAborted, BorrowWaits, BorrowTimesOut, SpuriousWake, DialSucceeds,
              ReleaseCloses, ReleaseCall, ShutdownNotifies, ReaperExits, ReaperClosesVictims,
              ReaperClosesDead, Tick, vars, ReaperPings
<1> QED
  BY SMTT(30), <1>1, <1>2, <1>3, <1>4, <1>5, <1>6, <1>7, <1>8, <1>9
     DEF Next, BorrowStep, ReleaseStep, ReaperStep

(* MissedInv only looks at these, and not at where a borrower is outside release(). *)
LEMMA MissedKept ==
    ASSUME MissedInv, UNCHANGED <<shutting_down, shutter, missed>>,
           shutting_down => FdsOf(idle') \cup FdsOf(to_check') \cup FdsOf(survivors') \subseteq missed,
           shutting_down => \A b \in Borrowers : borrower'[b] = "release" /\ ~close_it'[b] =>
                borrower[b] = "release" /\ ~close_it[b] /\ fd'[b] = fd[b]
    PROVE  MissedInv'
BY DEF MissedInv

(* After shutdown() nothing it did not miss comes back to the idle list: a later
   release() closes, a later borrow() fails and the reaper scans no more. *)
LEMMA StepMissed ==
    ASSUME IInv, [Next]_vars
    PROVE  MissedInv'
<1>0. TypeOK /\ HolderInv /\ ReaperInv /\ MissedInv
  BY DEF IInv
<1>t. /\ idle \in Seq(Slot) /\ to_check \in Seq(Slot) /\ survivors \in Seq(Slot)
      /\ borrower \in [Borrowers -> BorrowerPlaces] /\ fd \in [Borrowers -> Fds \cup {NoFd}]
      /\ close_it \in [Borrowers -> BOOLEAN] /\ FdsOf(<<>>) = {}
  BY SMTT(30), <1>0, FdsEmpty DEF TypeOK
<1>m. shutting_down => FdsOf(idle) \cup FdsOf(to_check) \cup FdsOf(survivors) \subseteq missed
  BY <1>0 DEF MissedInv
<1> USE DEF poolState, borrowerState, reaperState, shutterState, clockState
<1>1. ASSUME NEW b \in Borrowers,
             \/ BorrowCall(b) \/ BorrowAborted(b) \/ BorrowDials(b) \/ BorrowWaits(b)
             \/ BorrowTimesOut(b) \/ SpuriousWake(b) \/ DialSucceeds(b) \/ ReleaseCloses(b)
             \/ (\E ok \in BOOLEAN : ReleaseCall(b, ok))
      PROVE  MissedInv'
  <2>1. UNCHANGED <<idle, to_check, survivors, shutting_down, shutter, missed>>
    BY Zenon, <1>1 DEF BorrowCall, BorrowAborted, BorrowDials, BorrowWaits, BorrowTimesOut, SpuriousWake,
                DialSucceeds, ReleaseCloses, ReleaseCall
  <2>2. \A x \in Borrowers \ {b} : borrower'[x] = borrower[x] /\ fd'[x] = fd[x] /\ close_it'[x] = close_it[x]
    BY SMTT(30), <1>1, <1>t DEF BorrowCall, BorrowAborted, BorrowDials, BorrowWaits, BorrowTimesOut, SpuriousWake,
                DialSucceeds, ReleaseCloses, ReleaseCall, Move
  <2>3. shutting_down => ~(borrower'[b] = "release" /\ ~close_it'[b])
    BY Zenon, <1>1, <1>t DEF BorrowCall, BorrowAborted, BorrowDials, BorrowWaits, BorrowTimesOut, SpuriousWake,
                DialSucceeds, ReleaseCloses, ReleaseCall, Move
  <2> QED BY <1>0, <1>m, <2>1, <2>2, <2>3, MissedKept
<1>2. ASSUME NEW b \in Borrowers, BorrowIdle(b) PROVE MissedInv'
  BY Zenon, <1>0, <1>2 DEF BorrowIdle, MissedInv
<1>3. ASSUME NEW b \in Borrowers, borrower[b] \in Counted, NEW place \in {"out", "close"},
             MoveAndNotifyOne(b, place), NEW x \in Borrowers, borrower'[x] = "release"
      PROVE  x # b /\ borrower[x] = "release"
  BY SMTT(30), <1>3, <1>t DEF MoveAndNotifyOne, Asleep, Counted
<1>4. ASSUME NEW b \in Borrowers, DialFails(b) PROVE MissedInv'
  <2>1. /\ UNCHANGED <<idle, to_check, survivors, shutting_down, shutter, missed, fd, close_it>>
        /\ borrower[b] \in Counted /\ MoveAndNotifyOne(b, "out")
    BY <1>4 DEF DialFails, Counted
  <2>2. \A x \in Borrowers : borrower'[x] = "release" => borrower[x] = "release"
    BY Zenon, <1>3, <2>1
  <2> QED BY ZenonT(30), <1>0, <1>m, <2>1, <2>2, MissedKept
<1>5. ASSUME NEW b \in Borrowers, ReleaseLocked(b) PROVE MissedInv'
  <2> DEFINE slot == [fd |-> fd[b], created |-> now, last_used |-> now]
  <2>1. /\ UNCHANGED <<to_check, survivors, shutting_down, shutter, missed>>
        /\ borrower[b] = "release" /\ borrower[b] \in Counted
        /\ \A x \in Borrowers \ {b} : fd'[x] = fd[x] /\ close_it'[x] = close_it[x]
    BY <1>5, <1>t DEF ReleaseLocked, Counted
  <2>2. PICK place \in {"out", "close"} : MoveAndNotifyOne(b, place)
    BY <1>5 DEF ReleaseLocked
  <2>3. \A x \in Borrowers : borrower'[x] = "release" => x # b /\ borrower[x] = "release"
    BY Zenon, <1>3, <2>1, <2>2
  <2>4. slot \in Slot /\ slot.fd = fd[b]
    BY <1>0, <2>1 DEF HolderInv, Holding, Slot, TypeOK
  <2>5. idle' = idle \/ (~close_it[b] /\ idle' = Append(idle, slot))
    BY <1>5, <1>t DEF ReleaseLocked, ReturnedToIdle
  <2> HIDE DEF slot
  <2>6. shutting_down => FdsOf(idle') \subseteq missed
    <3>1. FdsOf(Append(idle, slot)) = FdsOf(idle) \cup {fd[b]}
      BY Zenon, <1>t, <2>4, FdsAppend
    <3>2. shutting_down /\ ~close_it[b] => fd[b] \in missed
      BY <1>0, <2>1 DEF MissedInv
    <3> QED BY Zenon, <1>m, <2>5, <3>1, <3>2
  <2> QED BY ZenonT(30), <1>0, <1>m, <2>1, <2>3, <2>6, MissedKept
<1>6. CASE ShutdownBegins
  <2>1. /\ shutting_down' = TRUE /\ shutter' = "notify" /\ missed' = Returning /\ idle' = <<>>
        /\ UNCHANGED <<to_check, survivors, borrower, fd, close_it>>
    BY Zenon, <1>6 DEF ShutdownBegins
  <2>2. FdsOf(idle') = {}
    BY SMTT(30), <1>t, <2>1
  <2> QED BY <2>1, <2>2 DEF MissedInv, Returning
<1>7. CASE ShutdownNotifies
  <2>1. /\ UNCHANGED <<idle, to_check, survivors, shutting_down, missed, fd, close_it>>
        /\ shutter # "out" /\ shutter' # "out"
    BY <1>7 DEF ShutdownNotifies
  <2>2. \A x \in Borrowers : borrower'[x] = "release" => borrower[x] = "release"
    BY <1>7, <1>t DEF ShutdownNotifies
  <2> QED BY <1>0, <2>1, <2>2 DEF MissedInv
<1>8. ASSUME UNCHANGED <<borrowerState, shutting_down, shutter, missed>>,
             shutting_down => FdsOf(idle') \cup FdsOf(to_check') \cup FdsOf(survivors') \subseteq missed
      PROVE  MissedInv'
  BY <1>0, <1>8, MissedKept
<1>9. CASE ReaperStep
  <2>1. UNCHANGED <<borrowerState, shutting_down, shutter, missed>>
    BY Zenon, <1>9 DEF ReaperStep, ReaperExits, ReaperScans, ReaperClosesVictims, ReaperPings,
                ReaperClosesDead, ReaperPushes
  <2>2. CASE ReaperExits \/ ReaperClosesVictims \/ ReaperClosesDead
    <3>1. UNCHANGED <<idle, to_check, survivors>>
      BY <2>2 DEF ReaperExits, ReaperClosesVictims, ReaperClosesDead
    <3> QED BY SMTT(30), <1>m, <1>8, <2>1, <3>1
  <2>3. CASE ReaperScans
    BY <1>8, <2>1, <2>3 DEF ReaperScans
  <2>4. ASSUME NEW ok \in BOOLEAN, ReaperPings(ok) PROVE MissedInv'
    <3> DEFINE s == Head(to_check)
               n == [s EXCEPT !.last_used = now]
    <3>1. s \in Slot /\ FdsOf(to_check) = FdsOf(to_check') \cup {s.fd} /\ idle' = idle
      BY SMTT(30), <1>t, <2>4, FdsTail DEF ReaperPings
    <3>2. n \in Slot /\ n.fd = s.fd
      BY Zenon, <1>0, <3>1 DEF Slot, TypeOK
    <3>3. survivors' = survivors \/ survivors' = Append(survivors, n)
      BY <2>4 DEF ReaperPings
    <3> HIDE DEF s, n
    <3>4. FdsOf(survivors') \subseteq FdsOf(survivors) \cup {s.fd}
      BY ZenonT(30), <1>t, <3>2, <3>3, FdsAppend
    <3> QED BY SMTT(30), <1>m, <1>8, <2>1, <3>1, <3>4
  <2>5. CASE ReaperPushes
    <3>1. idle' = idle \o survivors /\ survivors' = <<>> /\ to_check' = to_check
      BY <2>5 DEF ReaperPushes
    <3>2. FdsOf(idle') = FdsOf(idle) \cup FdsOf(survivors)
      BY Zenon, <1>t, <3>1, FdsConcat
    <3> QED BY <1>m, <1>t, <1>8, <2>1, <3>1, <3>2
  <2> QED BY <1>9, <2>2, <2>3, <2>4, <2>5 DEF ReaperStep
<1>10. CASE Tick \/ UNCHANGED vars
  BY SMTT(30), <1>0, <1>10 DEF Tick, vars, MissedInv
<1> QED
  BY SMTT(30), <1>1, <1>2, <1>4, <1>5, <1>6, <1>7, <1>9, <1>10 DEF Next, BorrowStep, ReleaseStep

(* Every step of the pool keeps the invariant. *)
LEMMA StepKeepsIInv ==
    ASSUME IInv, [Next]_vars
    PROVE  IInv'
<1>1. CountInv'
  BY BorrowCounts, ReleaseCounts, OthersCount DEF IInv, Next
<1> QED BY SMTT(30), <1>1, StepTypes, StepReaper, StepOwn, StepAge, StepRoom, StepMissed DEF IInv

(* The pool starts in the invariant. *)
LEMMA InitIInv == Init => IInv
<1>1. SUFFICES ASSUME Init PROVE IInv
  OBVIOUS
<1>2. TypeOK
  <2>1. borrower \in [Borrowers -> BorrowerPlaces] /\ reaper \in ReaperPlaces
    BY <1>1 DEF Init, BorrowerPlaces, ReaperPlaces
  <2>2. fd \in [Borrowers -> Fds \cup {NoFd}] /\ close_it \in [Borrowers -> BOOLEAN]
    BY <1>1 DEF Init
  <2>3. birth \in [Fds -> Nat] /\ returned \in [Fds -> Nat]
    BY <1>1 DEF Init
  <2>4. <<>> \in Seq(Slot)
    BY FdsEmpty
  <2> QED BY Zenon, <1>1, <2>1, <2>2, <2>3, <2>4 DEF Init, TypeOK
<1>3. CountInv
  <2>1. In(borrower) = {}
    BY <1>1 DEF Init, In, Counted
  <2> QED BY Zenon, <1>1, <1>2, <2>1, FS_EmptySet DEF Init, CountInv, TypeOK
<1>4. ReaperInv /\ MissedInv
  BY <1>1 DEF Init, ReaperInv, MissedInv
<1>5. HolderInv /\ Held = {}
  BY <1>1 DEF Init, HolderInv, Held, Holding
<1>6. OwnInv
  BY <1>1, <1>5, FdsEmpty DEF Init, OwnInv, Separate
<1>7. AgeInv
  BY SMTT(30), <1>1, AgedEmpty DEF Init, AgeInv
<1>8. WithinMaxSizeUnpinged
  BY <1>1, MaxSizeAssumption DEF Init, WithinMaxSizeUnpinged
<1> QED BY SMTT(30), <1>2, <1>3, <1>4, <1>5, <1>6, <1>7, <1>8 DEF IInv

-----------------------------------------------------------------------------
(* What the invariant says of the properties. *)

(* The part of Owners(f) that one deque contributes. *)
Places(name, slots, f) == {<<name, i>> : i \in {j \in DOMAIN slots : slots[j].fd = f}}

(* A deque contributes nothing, or one place. *)
LEMMA PlacesOf ==
    ASSUME NEW name, NEW slots \in Seq(Slot), NEW f, Distinct(slots)
    PROVE  /\ f \notin FdsOf(slots) => Places(name, slots, f) = {}
           /\ f \in FdsOf(slots) => \E i : Places(name, slots, f) = {<<name, i>>}
<1>1. DOMAIN slots = 1..Len(slots)
  BY LenProperties
<1>2. ASSUME f \notin FdsOf(slots) PROVE Places(name, slots, f) = {}
  BY <1>2 DEF Places, FdsOf
<1>3. ASSUME f \in FdsOf(slots) PROVE \E i : Places(name, slots, f) = {<<name, i>>}
  <2>1. PICK i \in DOMAIN slots : slots[i].fd = f
    BY <1>3 DEF FdsOf
  <2>2. {j \in DOMAIN slots : slots[j].fd = f} = {i}
    BY SMTT(30), <1>1, <2>1 DEF Distinct
  <2>3. Places(name, slots, f) = {<<name, i>>}
    BY <2>2 DEF Places
  <2> QED BY SMTT(30), <2>3
<1> QED BY Zenon, <1>2, <1>3

(* The part that the borrowers contribute. *)
Lent(f) == {<<"borrower", b>> : b \in {x \in Borrowers : fd[x] = f}}

(* The borrowers contribute nothing, or one of them. *)
LEMMA LentTo ==
    ASSUME HolderInv, NEW f \in Fds
    PROVE  /\ f \notin Held => Lent(f) = {}
           /\ f \in Held => \E b : Lent(f) = {<<"borrower", b>>}
<1>1. \A b \in Borrowers : fd[b] = f => borrower[b] \in Holding
  BY SMTT(30), NoFdAssumption DEF HolderInv
<1>2. ASSUME f \notin Held PROVE Lent(f) = {}
  BY <1>1, <1>2 DEF Lent, Held
<1>3. ASSUME f \in Held PROVE \E b : Lent(f) = {<<"borrower", b>>}
  <2>1. PICK b \in Borrowers : borrower[b] \in Holding /\ fd[b] = f
    BY SMTT(30), <1>3 DEF Held
  <2>2. {x \in Borrowers : fd[x] = f} = {b}
    BY <1>1, <2>1 DEF HolderInv
  <2> QED BY <2>2 DEF Lent
<1> QED BY SMTT(30), <1>2, <1>3

(* Each open descriptor is in one deque, once, or with one borrower. *)
LEMMA OwnedOnce ==
    ASSUME TypeOK, HolderInv, OwnInv
    PROVE  OwnedExactlyOnce
<1>1. SUFFICES ASSUME NEW f \in Fds
               PROVE  Cardinality(Owners(f)) = IF f \in open THEN 1 ELSE 0
  BY SMTT(30) DEF OwnedExactlyOnce
<1> DEFINE I == Places("idle", idle, f)
           V == Places("victims", victims, f)
           C == Places("to_check", to_check, f)
           S == Places("survivors", survivors, f)
           D == Places("dead", dead, f)
           H == Lent(f)
           One(set) == \E o : set = {o}
<1>2. Owners(f) = I \cup V \cup C \cup S \cup D \cup H
  BY SMTT(30) DEF Owners, Places, Lent
<1>3. /\ (f \notin FdsOf(idle) => I = {}) /\ (f \in FdsOf(idle) => One(I))
      /\ (f \notin FdsOf(victims) => V = {}) /\ (f \in FdsOf(victims) => One(V))
      /\ (f \notin FdsOf(to_check) => C = {}) /\ (f \in FdsOf(to_check) => One(C))
      /\ (f \notin FdsOf(survivors) => S = {}) /\ (f \in FdsOf(survivors) => One(S))
      /\ (f \notin FdsOf(dead) => D = {}) /\ (f \in FdsOf(dead) => One(D))
  <2>1. \A name : \A slots \in Seq(Slot) : Distinct(slots) =>
            /\ f \notin FdsOf(slots) => Places(name, slots, f) = {}
            /\ f \in FdsOf(slots) => One(Places(name, slots, f))
    BY Zenon, PlacesOf
  <2> QED BY Zenon, <2>1 DEF TypeOK, OwnInv
<1>4. (f \notin Held => H = {}) /\ (f \in Held => One(H))
  BY Zenon, LentTo
<1> HIDE DEF I, V, C, S, D, H
<1>5. CASE f \notin open
  <2>1. Owners(f) = {}
    BY SMTT(30), <1>2, <1>3, <1>4, <1>5 DEF OwnInv
  <2> QED BY SMTT(30), <1>5, <2>1, FS_EmptySet
<1>6. CASE f \in open
  <2>1. One(Owners(f))
    <3> DEFINE i == FdsOf(idle)
               v == FdsOf(victims)
               c == FdsOf(to_check)
               s == FdsOf(survivors)
               d == FdsOf(dead)
               h == Held
    <3>1. Separate(i, v, c, s, d, h) /\ f \in i \cup v \cup c \cup s \cup d \cup h
      BY <1>6 DEF OwnInv
    <3>2. /\ (f \notin i => I = {}) /\ (f \in i => One(I))
          /\ (f \notin v => V = {}) /\ (f \in v => One(V))
          /\ (f \notin c => C = {}) /\ (f \in c => One(C))
          /\ (f \notin s => S = {}) /\ (f \in s => One(S))
          /\ (f \notin d => D = {}) /\ (f \in d => One(D))
          /\ (f \notin h => H = {}) /\ (f \in h => One(H))
      BY Zenon, <1>3, <1>4
    <3> HIDE DEF i, v, c, s, d, h
    <3>3. \/ One(I) /\ V = {} /\ C = {} /\ S = {} /\ D = {} /\ H = {}
          \/ I = {} /\ One(V) /\ C = {} /\ S = {} /\ D = {} /\ H = {}
          \/ I = {} /\ V = {} /\ One(C) /\ S = {} /\ D = {} /\ H = {}
          \/ I = {} /\ V = {} /\ C = {} /\ One(S) /\ D = {} /\ H = {}
          \/ I = {} /\ V = {} /\ C = {} /\ S = {} /\ One(D) /\ H = {}
          \/ I = {} /\ V = {} /\ C = {} /\ S = {} /\ D = {} /\ One(H)
      <4> HIDE DEF One
      <4> QED BY ONLY SMTT(30), <3>1, <3>2, InOneOfSix
    <3>4. One(I \cup V \cup C \cup S \cup D \cup H)
      BY ONLY SMTT(30), <3>3
    <3> QED BY SMTT(30), <1>2, <3>4
  <2>2. PICK o : Owners(f) = {o}
    BY SMTT(30), <2>1
  <2> QED BY SMTT(30), <1>6, <2>2, FS_Singleton
<1> QED BY <1>5, <1>6

(* When every thread is done the reaper's deques and the hands are empty. *)
LEMMA MissedLeft ==
    ASSUME IInv
    PROVE  OnlyMissedStayOpen
<1>1. SUFFICES ASSUME AllDone PROVE open \subseteq missed
  BY DEF OnlyMissedStayOpen
<1>2. victims = <<>> /\ to_check = <<>> /\ survivors = <<>> /\ dead = <<>>
  BY <1>1 DEF IInv, ReaperInv, AllDone
<1>3. Held = {}
  BY <1>1 DEF AllDone, Held, Holding
<1>4. FdsOf(idle) \subseteq missed
  BY <1>1 DEF IInv, MissedInv, AllDone
<1> QED BY <1>2, <1>3, <1>4, FdsEmpty DEF IInv, OwnInv

(* The only step from the reaper's wait to the close of its victims is the scan. *)
LEMMA ScanningScans ==
    ASSUME [Next]_vars, Scanning
    PROVE  ReaperScans
<1> USE DEF poolState, borrowerState, reaperState, shutterState, clockState
<1>1. reaper = "wait" /\ reaper' = "close_victims"
  BY DEF Scanning
<1>2. ASSUME NEW b \in Borrowers,
             \/ BorrowCall(b) \/ BorrowStep(b) \/ BorrowTimesOut(b) \/ SpuriousWake(b)
             \/ (\E ok \in BOOLEAN : ReleaseCall(b, ok)) \/ ReleaseStep(b)
      PROVE  reaper' = reaper
  BY Zenon, <1>2 DEF BorrowCall, BorrowStep, BorrowAborted, BorrowIdle, BorrowDials, BorrowWaits,
              DialSucceeds, DialFails, BorrowTimesOut, SpuriousWake, ReleaseCall, ReleaseStep,
              ReleaseLocked, ReleaseCloses
<1>3. ASSUME ShutdownBegins \/ ShutdownNotifies \/ Tick \/ UNCHANGED vars PROVE reaper' = reaper
  BY Zenon, <1>3 DEF ShutdownBegins, ShutdownNotifies, Tick, vars
<1>4. ASSUME ReaperExits \/ ReaperClosesVictims \/ ReaperClosesDead \/ ReaperPushes
             \/ \E ok \in BOOLEAN : ReaperPings(ok)
      PROVE  FALSE
  BY <1>1, <1>4 DEF ReaperExits, ReaperClosesVictims, ReaperClosesDead, ReaperPushes, ReaperPings
<1> QED BY SMTT(30), <1>1, <1>2, <1>3, <1>4 DEF Next, ReaperStep

(* What a scan takes out and what it leaves, by the time since the last return. *)
LEMMA ScanAges ==
    ASSUME TypeOK, AgeInv, ReaperScans
    PROVE  /\ \A f \in FdsOf(victims') :
                 now - returned[f] > IdleTimeout \/ now - returned[f] > MaxLifetime
           /\ \A f \in FdsOf(idle') \cup FdsOf(to_check') :
                 /\ now - returned[f] <= MaxLifetime
                 /\ ~health_check => now - returned[f] <= IdleTimeout
<1> DEFINE v == Swept(idle, TRUE)
           r == Swept(idle, FALSE)
<1>1. /\ v \in Seq(Slot) /\ Aged(v, returned, health_check)
      /\ \A i \in 1..Len(v) : Expired(v[i])
  BY Zenon, FdsSwept, AgedSwept DEF TypeOK, AgeInv
<1>2. /\ r \in Seq(Slot) /\ Aged(r, returned, health_check)
      /\ \A i \in 1..Len(r) : ~Expired(r[i])
  BY Zenon, FdsSwept, AgedSwept DEF TypeOK, AgeInv
<1>3. victims' = v /\ (idle' = <<>> \/ idle' = r) /\ (to_check' = <<>> \/ to_check' = r)
  BY Zenon DEF ReaperScans
<1> HIDE DEF v, r
<1>t. returned \in [Fds -> Nat] /\ now \in Nat
  BY DEF TypeOK
<1>4. ASSUME NEW f \in FdsOf(v)
      PROVE  now - returned[f] > IdleTimeout \/ now - returned[f] > MaxLifetime
  <2>1. PICK i \in 1..Len(v) : v[i].fd = f
    BY <1>1, FdsMember
  <2>2. Expired(v[i])
    BY <1>1
  <2>3. AgeMatches(v[i], health_check)
    BY Zenon, <1>1, <1>t, AgeOfSlot
  <2> QED BY Zenon, <2>1, <2>2, <2>3 DEF AgeMatches
<1>5. ASSUME NEW f \in FdsOf(r)
      PROVE  now - returned[f] <= MaxLifetime /\ (~health_check => now - returned[f] <= IdleTimeout)
  <2>1. PICK i \in 1..Len(r) : r[i].fd = f
    BY <1>2, FdsMember
  <2>2. ~Expired(r[i])
    BY <1>2
  <2>3. AgeMatches(r[i], health_check)
    BY Zenon, <1>2, <1>t, AgeOfSlot
  <2> QED BY Zenon, <2>1, <2>2, <2>3 DEF AgeMatches
<1>6. FdsOf(idle') \cup FdsOf(to_check') \subseteq FdsOf(r)
  BY <1>3, FdsEmpty
<1> QED BY Zenon, <1>3, <1>4, <1>5, <1>6

-----------------------------------------------------------------------------
(* Theorems. *)

(* in_use_ is the number of borrowers that dial, hold a connection or have yet
   to give it back, so the guard `if (in_use_ > 0)` of release() never hides an
   underflow and no failed dial leaves a slot of max_size occupied for ever. *)
THEOREM InUseIsExact == Spec => []InUseExact
<1>1. Init => CountInv
  <2>1. ASSUME Init
        PROVE  borrower \in [Borrowers -> BorrowerPlaces] /\ In(borrower) = {} /\ in_use = 0
    BY <2>1 DEF Init, In, BorrowerPlaces, Counted
  <2> QED BY <2>1, FS_EmptySet DEF CountInv
<1>2. CountInv /\ [Next]_vars => CountInv'
  BY BorrowCounts, ReleaseCounts, OthersCount DEF Next
<1>3. CountInv => InUseExact
  BY DEF CountInv, InUseExact, In
<1> QED BY <1>1, <1>2, <1>3, PTL DEF Spec

(* The inductive invariant holds. *)
THEOREM PoolInvariant == Spec => []IInv
BY InitIInv, StepKeepsIInv, PTL DEF Spec

(* The type invariant, for every instance. *)
THEOREM BackendPoolTypes == Spec => []TypeOK
<1>1. IInv => TypeOK
  BY DEF IInv
<1> QED BY <1>1, PoolInvariant, PTL

(* An open connection has exactly one owner, whatever the interleaving of borrow(),
   dial, release(), shutdown(), scan, ping and push: it is never lent twice, pinged
   while lent, or lost, and no descriptor is closed twice. *)
THEOREM ConnectionsOwnedOnce == Spec => []OwnedExactlyOnce
<1>1. IInv => OwnedExactlyOnce
  BY OwnedOnce DEF IInv
<1> QED BY <1>1, PoolInvariant, PTL

(* A scan of the reaper takes out only connections given back longer ago than
   idle_timeout or max_lifetime, and leaves none given back more than max_lifetime
   ago, whatever pings refreshed it since. *)
THEOREM ReaperGoesByLastReturn == Spec => ScanByLastReturn
<1> DEFINE Ages ==
             Scanning =>
                /\ \A f \in FdsOf(victims') :
                      now - returned[f] > IdleTimeout \/ now - returned[f] > MaxLifetime
                /\ \A f \in FdsOf(idle') \cup FdsOf(to_check') :
                      /\ now - returned[f] <= MaxLifetime
                      /\ ~health_check => now - returned[f] <= IdleTimeout
<1>1. IInv /\ [Next]_vars => [Ages]_vars
  BY Zenon, ScanningScans, ScanAges DEF IInv
<1>2. Spec => [][Ages]_vars
  BY <1>1, PoolInvariant, PTL DEF Spec
<1> QED BY <1>2 DEF ScanByLastReturn

(* With health checks off, idle and in-use connections never exceed max_size. *)
THEOREM MaxSizeWithoutPings == Spec => []WithinMaxSizeUnpinged
<1>1. IInv => WithinMaxSizeUnpinged
  BY DEF IInv
<1> QED BY <1>1, PoolInvariant, PTL

(* shutdown() at any moment, health checks on or off: what is still open when every
   thread is done was being pinged, or was in a release() past its load of
   shutting_down_, when shutdown() held mu_. *)
THEOREM ShutdownLeavesOnlyMissed == Spec => []OnlyMissedStayOpen
<1>1. IInv => OnlyMissedStayOpen
  BY MissedLeft
<1> QED BY <1>1, PoolInvariant, PTL
=============================================================================
