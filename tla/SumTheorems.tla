----------------------------- MODULE SumTheorems -----------------------------
(***************************************************************************)
(* Induction over the natural numbers, stated for sets, and what it says   *)
(* of SumTo.                                                               *)
(***************************************************************************)
EXTENDS Sums, Integers, TLAPS
LOCAL INSTANCE WellFoundedInduction

(* A set of natural numbers has a least element. *)
LEMMA LeastElement ==
  ASSUME NEW T, T \subseteq Nat, T # {}
  PROVE  \E x \in T : \A y \in T : x <= y
<1>1. PICK x \in T : \A y \in T : ~ (<<y, x>> \in OpToRel(<, Nat))
  BY NatLessThanWellFounded, WFMin, Zenon
<1>2. \A y \in T : ~(y < x)
  BY <1>1, Zenon DEF OpToRel
<1> QED
  BY <1>2

(* Induction for a set that contains zero and every successor. *)
LEMMA NatSetInduction ==
  ASSUME NEW S, 0 \in S, \A n \in Nat : n \in S => n + 1 \in S
  PROVE  \A n \in Nat : n \in S
<1> DEFINE T == {n \in Nat : n \notin S}
<1>1. SUFFICES ASSUME T # {} PROVE FALSE
  BY Zenon
<1>2. PICK x \in T : \A y \in T : x <= y
  BY Zenon, <1>1, LeastElement
<1>3. x \in Nat /\ x # 0 /\ x - 1 \in Nat /\ x - 1 \notin T
  BY <1>2
<1> QED
  BY <1>2, <1>3

-----------------------------------------------------------------------------
(* The recursion of SumTo as an equation, up to n *)
Sums(g, a, n) ==
  g = [k \in 0 .. n |-> IF k = 0 THEN 0 ELSE g[k - 1] + a[k]]

(* Two functions that satisfy the equation agree where both are defined. *)
LEMMA SumsUnique ==
  ASSUME NEW a, NEW m \in Nat, NEW n \in Nat, NEW g, NEW h,
         Sums(g, a, m), Sums(h, a, n), NEW k \in Nat, k <= m, k <= n
  PROVE  g[k] = h[k]
<1> DEFINE S == {j \in Nat : j <= m /\ j <= n => g[j] = h[j]}
<1>1. 0 \in S
  BY DEF Sums
<1>2. ASSUME NEW j \in Nat, j \in S PROVE j + 1 \in S
  <2>1. SUFFICES ASSUME j + 1 <= m, j + 1 <= n PROVE g[j + 1] = h[j + 1]
    OBVIOUS
  <2>2. g[j] = h[j] /\ j + 1 # 0 /\ (j + 1) - 1 = j
    BY <1>2, <2>1
  <2>3. g[j + 1] = g[j] + a[j + 1]
    BY <2>1, <2>2 DEF Sums
  <2>4. h[j + 1] = h[j] + a[j + 1]
    BY <2>1, <2>2 DEF Sums
  <2> QED
    BY Zenon, <2>2, <2>3, <2>4
<1> HIDE DEF S
<1>3. k \in S
  BY Zenon, <1>1, <1>2, NatSetInduction
<1> QED
  BY Zenon, <1>3 DEF S

(* There is such a function for every n. *)
LEMMA SumsExist ==
  ASSUME NEW a, NEW n \in Nat
  PROVE  \E g : Sums(g, a, n)
<1> DEFINE S == {j \in Nat : \E g : Sums(g, a, j)}
<1>1. 0 \in S
  <2>1. Sums([k \in 0 .. 0 |-> 0], a, 0)
    BY DEF Sums
  <2> QED
    BY Zenon, <2>1
<1>2. ASSUME NEW j \in Nat, j \in S PROVE j + 1 \in S
  <2>1. PICK g : Sums(g, a, j)
    BY Zenon, <1>2
  <2> DEFINE h == [k \in 0 .. j + 1 |-> IF k = j + 1 THEN g[j] + a[j + 1]
                                        ELSE g[k]]
  <2>2. ASSUME NEW k \in 0 .. j + 1
        PROVE  h[k] = IF k = 0 THEN 0 ELSE h[k - 1] + a[k]
    <3>1. CASE k = 0
      BY <2>1, <3>1 DEF Sums
    <3>2. CASE k = j + 1
      BY <3>2
    <3>3. CASE k \in 1 .. j
      BY <2>1, <3>3 DEF Sums
    <3> QED
      BY <3>1, <3>2, <3>3
  <2>3. h = [k \in 0 .. j + 1 |-> IF k = 0 THEN 0 ELSE h[k - 1] + a[k]]
    BY Zenon, <2>2
  <2> HIDE DEF h
  <2>4. Sums(h, a, j + 1)
    BY Zenon, <2>3 DEF Sums
  <2> QED
    BY <2>4
<1> HIDE DEF S
<1>3. n \in S
  BY Zenon, <1>1, <1>2, NatSetInduction
<1> QED
  BY Zenon, <1>3 DEF S

(* The recursive function of SumTo exists. *)
LEMMA SumsDefined ==
  ASSUME NEW a
  PROVE  \E f : f = [k \in Nat |-> IF k = 0 THEN 0 ELSE f[k - 1] + a[k]]
<1> DEFINE G(n) == CHOOSE g : Sums(g, a, n)
           f == [n \in Nat |-> G(n)[n]]
<1>1. \A n \in Nat : Sums(G(n), a, n)
  BY Zenon, SumsExist
<1> HIDE DEF G
<1>2. ASSUME NEW k \in Nat
      PROVE  f[k] = IF k = 0 THEN 0 ELSE f[k - 1] + a[k]
  <2>1. Sums(G(k), a, k)
    BY Zenon, <1>1
  <2>2. CASE k = 0
    BY <2>1, <2>2 DEF Sums
  <2>3. CASE k # 0
    <3>1. k - 1 \in Nat /\ Sums(G(k - 1), a, k - 1)
      BY <1>1, <2>3
    <3>2. G(k)[k] = G(k)[k - 1] + a[k]
      BY <2>1, <2>3 DEF Sums
    <3>3. G(k)[k - 1] = G(k - 1)[k - 1]
      BY <2>1, <3>1, SumsUnique
    <3> QED
      BY Zenon, <2>3, <3>1, <3>2, <3>3
  <2> QED
    BY Zenon, <2>2, <2>3
<1>3. f = [k \in Nat |-> IF k = 0 THEN 0 ELSE f[k - 1] + a[k]]
  BY Zenon, <1>2
<1> HIDE DEF f
<1> QED
  BY Zenon, <1>3

(* SumTo computes what its recursive definition says. *)
LEMMA SumToStep ==
  ASSUME NEW a
  PROVE  /\ SumTo(a, 0) = 0
         /\ \A n \in Nat : SumTo(a, n + 1) = SumTo(a, n) + a[n + 1]
<1> DEFINE s == CHOOSE f : f = [k \in Nat |-> IF k = 0 THEN 0
                                              ELSE f[k - 1] + a[k]]
<1>1. s = [k \in Nat |-> IF k = 0 THEN 0 ELSE s[k - 1] + a[k]]
  BY Zenon, SumsDefined
<1>2. \A n : SumTo(a, n) = s[n]
  BY Zenon DEF SumTo
<1> HIDE DEF s
<1>3. s[0] = 0
  BY Zenon, <1>1
<1>4. ASSUME NEW n \in Nat PROVE s[n + 1] = s[n] + a[n + 1]
  <2>1. n + 1 \in Nat /\ n + 1 # 0 /\ (n + 1) - 1 = n
    OBVIOUS
  <2> QED
    BY Zenon, <1>1, <2>1
<1> QED
  BY Zenon, <1>2, <1>3, <1>4

(* A sum of natural numbers is one, and grows with its terms. *)
LEMMA SumToNat ==
  ASSUME NEW n \in Nat, NEW a, \A k \in 1 .. n : a[k] \in Nat
  PROVE  \A j \in 0 .. n : SumTo(a, j) \in Nat /\ SumTo(a, j) <= SumTo(a, n)
<1> DEFINE S == {j \in Nat : j <= n => SumTo(a, j) \in Nat}
<1>1. 0 \in S
  BY SumToStep
<1>2. ASSUME NEW j \in Nat, j \in S PROVE j + 1 \in S
  BY <1>2, SumToStep
<1> HIDE DEF S
<1>3. \A j \in Nat : j \in S
  BY Zenon, <1>1, <1>2, NatSetInduction
<1>4. \A j \in 0 .. n : SumTo(a, j) \in Nat
  BY <1>3 DEF S
<1> DEFINE U == {d \in Nat : d <= n => SumTo(a, n - d) <= SumTo(a, n)}
<1>5. 0 \in U
  BY <1>4
<1>6. ASSUME NEW d \in Nat, d \in U PROVE d + 1 \in U
  <2>1. SUFFICES ASSUME d + 1 <= n
                 PROVE  SumTo(a, n - (d + 1)) <= SumTo(a, n)
    OBVIOUS
  <2>2. n - (d + 1) \in Nat /\ (n - (d + 1)) + 1 = n - d /\ n - d \in 1 .. n
    BY <2>1
  <2>3. SumTo(a, n - d) = SumTo(a, n - (d + 1)) + a[n - d]
    BY Zenon, <2>2, SumToStep
  <2>4. SumTo(a, n - d) <= SumTo(a, n)
    BY <1>6, <2>1
  <2>5. SumTo(a, n - (d + 1)) \in Nat /\ a[n - d] \in Nat /\ SumTo(a, n) \in Nat
    BY <1>4, <2>2
  <2> QED
    BY <2>3, <2>4, <2>5
<1> HIDE DEF U
<1>7. \A d \in Nat : d \in U
  BY Zenon, <1>5, <1>6, NatSetInduction
<1>8. ASSUME NEW j \in 0 .. n PROVE SumTo(a, j) <= SumTo(a, n)
  <2>1. n - j \in Nat /\ n - j <= n /\ n - (n - j) = j
    OBVIOUS
  <2> QED
    BY Zenon, <1>7, <2>1 DEF U
<1> QED
  BY Zenon, <1>4, <1>8

(* A sum depends on its terms alone. *)
LEMMA SumToSame ==
  ASSUME NEW n \in Nat, NEW a, NEW b, \A k \in 1 .. n : a[k] = b[k]
  PROVE  SumTo(a, n) = SumTo(b, n)
<1> DEFINE S == {j \in Nat : j <= n => SumTo(a, j) = SumTo(b, j)}
<1>1. 0 \in S
  BY Zenon, SumToStep
<1>2. ASSUME NEW j \in Nat, j \in S PROVE j + 1 \in S
  BY <1>2, SumToStep
<1> HIDE DEF S
<1>3. n \in S
  BY Zenon, <1>1, <1>2, NatSetInduction
<1> QED
  BY <1>3 DEF S

=============================================================================
