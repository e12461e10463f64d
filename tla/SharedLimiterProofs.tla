------------------------ MODULE SharedLimiterProofs ------------------------
(***************************************************************************)
(* For any number of threads, any limits and any number of periods: the    *)
(* limiter is type correct, its bucket stays bounded, no token is granted  *)
(* twice and last_refresh never goes back, also while nginx reloads; and   *)
(* whoever get_limiter() returns to finds the limiter set up, with the     *)
(* limit spread over the amounts.  Until a reload, LimiterRate bounds the  *)
(* requests allowed by the limit and the amounts of the periods that have  *)
(* passed, and LimiterAdds shows that a refresh never takes tokens away.   *)
(***************************************************************************)
EXTENDS SharedLimiter, SumTheorems, FiniteSetTheorems

(* Quotient and remainder. *)
LEMMA DivFacts ==
  ASSUME NEW a \in Nat, NEW m \in Nat \ {0}
  PROVE  /\ a \div m \in Nat /\ a % m \in 0 .. m - 1
         /\ m * (a \div m) <= a /\ a < m * (a \div m) + m
         /\ a = m * (a \div m) + (a % m)
OBVIOUS

(* Multiples of r are at least r apart. *)
LEMMA Multiples ==
  ASSUME NEW k \in Nat, NEW j \in Nat, NEW r \in Nat, k < j
  PROVE  k * r + r <= j * r
OBVIOUS

(* Two rounds of the loop never increment the same amount. *)
LEMMA HitOnce ==
  ASSUME NEW k \in Nat, NEW j \in Nat, NEW r \in Nat, NEW m \in Nat \ {0},
         m <= r, k < j
  PROVE  (k * r) \div m # (j * r) \div m
<1>1. k * r \in Nat /\ j * r \in Nat /\ k * r + m <= j * r
  BY Multiples
<1>2. m * ((k * r) \div m) <= k * r
  BY Zenon, <1>1, DivFacts
<1>3. j * r < m * ((j * r) \div m) + m
  BY Zenon, <1>1, DivFacts
<1> QED
  BY <1>1, <1>2, <1>3

(* The index that a round of the loop computes is one of the array. *)
LEMMA HitInRange ==
  ASSUME NEW k \in Nat, NEW r \in Nat, NEW m \in Nat \ {0}, k < m
  PROVE  (k * r) \div m \in Nat /\ (r # 0 => (k * r) \div m < r)
<1>1. k * r \in Nat /\ k * r + r <= m * r
  BY Multiples
<1>2. (k * r) \div m \in Nat /\ m * ((k * r) \div m) <= k * r
  BY Zenon, <1>1, DivFacts
<1>3. ASSUME r # 0, r <= (k * r) \div m PROVE FALSE
  <2>1. r = (k * r) \div m \/ r < (k * r) \div m
    BY <1>2, <1>3
  <2>2. m * r <= m * ((k * r) \div m)
    BY <1>2, <2>1, Multiples
  <2> QED
    BY <1>1, <1>2, <1>3, <2>2
<1> QED
  BY <1>2, <1>3

(* The rounds of a loop that spreads the remainder l % R over R places     *)
(* that hit place p, and those that hit one of the first n places          *)
Rounds(l, R, p) ==
  {k \in 0 .. (l % R) - 1 : (k * R) \div (l % R) = p}

RoundsBelow(l, R, n) ==
  {k \in 0 .. (l % R) - 1 : (k * R) \div (l % R) < n}

(* So a place is hit once at most. *)
LEMMA HitsAtMostOne ==
  ASSUME NEW l \in Nat, NEW R \in Nat \ {0}, NEW p
  PROVE  /\ IsFiniteSet(Rounds(l, R, p))
         /\ Cardinality(Rounds(l, R, p)) \in 0 .. 1
         /\ l % R = 0 => Cardinality(Rounds(l, R, p)) = 0
<1> DEFINE m == l % R
<1>1. m \in 0 .. R - 1
  BY Zenon, DivFacts
<1>2. Rounds(l, R, p) \subseteq 0 .. m - 1
  BY Zenon DEF Rounds
<1>3. ASSUME NEW k \in Rounds(l, R, p), NEW j \in Rounds(l, R, p) PROVE ~(k < j)
  <2>1. k \in Nat /\ j \in Nat /\ m \in Nat \ {0} /\ m <= R
    BY <1>1, <1>2
  <2>2. (k * R) \div m = p /\ (j * R) \div m = p
    BY Zenon DEF Rounds
  <2> HIDE DEF m
  <2> QED
    BY Zenon, <1>1, <2>1, <2>2, HitOnce
<1>4. \A k, j \in Rounds(l, R, p) : k = j
  <2>1. \A k \in Rounds(l, R, p) : k \in Nat
    BY <1>1, <1>2
  <2> QED
    BY <1>3, <2>1
<1>5. Rounds(l, R, p) = {} \/ \E k : Rounds(l, R, p) = {k}
  BY Zenon, <1>4
<1>6. /\ IsFiniteSet(Rounds(l, R, p))
      /\ Cardinality(Rounds(l, R, p)) = 0 \/ Cardinality(Rounds(l, R, p)) = 1
  <2>1. CASE Rounds(l, R, p) = {}
    BY Zenon, <2>1, FS_EmptySet
  <2>2. CASE \E k : Rounds(l, R, p) = {k}
    <3>1. PICK k : Rounds(l, R, p) = {k}
      BY Zenon, <2>2
    <3>2. IsFiniteSet({k}) /\ Cardinality({k}) = 1
      BY Zenon, FS_Singleton
    <3> QED
      BY Zenon, <3>1, <3>2
  <2> QED
    BY Zenon, <1>5, <2>1, <2>2
<1>7. ASSUME m = 0 PROVE Rounds(l, R, p) = {}
  BY <1>2, <1>7
<1> QED
  BY <1>6, <1>7, FS_EmptySet

(* Disjoint sets. *)
LEMMA DisjointUnion ==
  ASSUME NEW S, NEW T, IsFiniteSet(S), IsFiniteSet(T), S \cap T = {}
  PROVE  Cardinality(S \cup T) = Cardinality(S) + Cardinality(T)
<1>1. Cardinality(S \cup T)
        = Cardinality(S) + Cardinality(T) - Cardinality(S \cap T)
  BY Zenon, FS_Union
<1>2. Cardinality(S) \in Nat /\ Cardinality(T) \in Nat
  BY Zenon, FS_CardinalityType
<1> QED
  BY <1>1, <1>2, FS_EmptySet

(* Counted place by place, they are all the rounds. *)
LEMMA BelowFacts ==
  ASSUME NEW l \in Nat, NEW R \in Nat \ {0}
  PROVE  /\ Cardinality(RoundsBelow(l, R, 0)) = 0
         /\ Cardinality(RoundsBelow(l, R, R)) = l % R
         /\ \A n \in Nat :
              /\ Cardinality(RoundsBelow(l, R, n)) \in Nat
              /\ Cardinality(RoundsBelow(l, R, n + 1)) =
                   Cardinality(RoundsBelow(l, R, n)) + Cardinality(Rounds(l, R, n))
<1> DEFINE m == l % R
<1>1. m \in 0 .. R - 1
  BY Zenon, DivFacts
<1>2. ASSUME NEW k \in 0 .. m - 1
      PROVE  (k * R) \div m \in Nat /\ (k * R) \div m < R
  <2>1. k \in Nat /\ k < m /\ m \in Nat \ {0}
    BY <1>1
  <2> QED
    BY Zenon, <1>1, <2>1, HitInRange
<1>3. \A n : RoundsBelow(l, R, n) = {k \in 0 .. m - 1 : (k * R) \div m < n}
  BY Zenon DEF RoundsBelow
<1>4. \A n : Rounds(l, R, n) = {k \in 0 .. m - 1 : (k * R) \div m = n}
  BY Zenon DEF Rounds
<1> HIDE DEF m
<1>5. IsFiniteSet(0 .. m - 1) /\ Cardinality(0 .. m - 1) = m
  <2>1. 0 \in Int /\ m - 1 \in Int /\ m \in Nat
    BY <1>1
  <2>2. Cardinality(0 .. m - 1) = IF 0 > m - 1 THEN 0 ELSE m - 1 - 0 + 1
    BY Zenon, <2>1, FS_Interval
  <2> QED
    BY <2>1, <2>2, FS_Interval
<1>6. \A n : RoundsBelow(l, R, n) \in SUBSET (0 .. m - 1)
  BY Zenon, <1>3
<1>7. \A n : /\ IsFiniteSet(RoundsBelow(l, R, n))
             /\ Cardinality(RoundsBelow(l, R, n)) \in Nat
  BY Zenon, <1>5, <1>6, FS_Subset, FS_CardinalityType
<1>8. RoundsBelow(l, R, 0) = {}
  BY <1>2, <1>3
<1>9. RoundsBelow(l, R, R) = 0 .. m - 1
  BY Zenon, <1>2, <1>3
<1>10. ASSUME NEW n \in Nat
       PROVE  Cardinality(RoundsBelow(l, R, n + 1)) =
                Cardinality(RoundsBelow(l, R, n)) + Cardinality(Rounds(l, R, n))
  <2>1. RoundsBelow(l, R, n + 1) = RoundsBelow(l, R, n) \cup Rounds(l, R, n)
    BY <1>2, <1>3, <1>4
  <2>2. RoundsBelow(l, R, n) \cap Rounds(l, R, n) = {}
    BY <1>2, <1>3, <1>4
  <2> QED
    BY Zenon, <1>7, <2>1, <2>2, HitsAtMostOne, DisjointUnion
<1> QED
  BY Zenon, <1>5, <1>7, <1>8, <1>9, <1>10, FS_EmptySet DEF m

(* The quotient R times and the rounds of all places make up l. *)
LEMMA SpreadSum ==
  ASSUME NEW l \in Nat, NEW R \in Nat \ {0}, NEW a,
         \A n \in 0 .. R - 1 : a[n + 1] = l \div R + Cardinality(Rounds(l, R, n))
  PROVE  SumTo(a, R) = l
<1> DEFINE base == l \div R
           S == {n \in Nat : n <= R =>
                   SumTo(a, n) = n * base + Cardinality(RoundsBelow(l, R, n))}
<1>1. base \in Nat /\ l = R * base + (l % R)
  BY Zenon, DivFacts
<1>2. ASSUME NEW n \in Nat, n < R
      PROVE  a[n + 1] = base + Cardinality(Rounds(l, R, n))
  BY <1>2
<1> HIDE DEF base
<1>3. 0 \in S
  BY <1>1, SumToStep, BelowFacts
<1>4. ASSUME NEW n \in Nat, n \in S PROVE n + 1 \in S
  <2>1. n + 1 <= R => n < R /\ n <= R
    OBVIOUS
  <2>2. SUFFICES ASSUME n < R, n <= R
                 PROVE  SumTo(a, n + 1) =
                          (n + 1) * base + Cardinality(RoundsBelow(l, R, n + 1))
    BY <2>1
  <2>3. SumTo(a, n) = n * base + Cardinality(RoundsBelow(l, R, n))
    BY Zenon, <1>4, <2>2
  <2>4. SumTo(a, n + 1) = SumTo(a, n) + (base + Cardinality(Rounds(l, R, n)))
    BY Zenon, <1>2, <2>2, SumToStep
  <2>5. /\ Cardinality(Rounds(l, R, n)) \in Nat
        /\ Cardinality(RoundsBelow(l, R, n)) \in Nat
        /\ Cardinality(RoundsBelow(l, R, n + 1)) =
             Cardinality(RoundsBelow(l, R, n)) + Cardinality(Rounds(l, R, n))
    <3>1. Cardinality(Rounds(l, R, n)) \in 0 .. 1
      BY Zenon, HitsAtMostOne
    <3>2. Cardinality(Rounds(l, R, n)) \in Nat
      BY <3>1
    <3> QED
      BY Zenon, <3>2, BelowFacts
  <2>6. (n + 1) * base = n * base + base /\ n * base \in Nat
    BY <1>1
  <2> QED
    BY <1>1, <2>3, <2>4, <2>5, <2>6
<1> HIDE DEF S
<1>5. R \in S
  BY Zenon, <1>3, <1>4, NatSetInduction
<1>6. SumTo(a, R) = R * base + Cardinality(RoundsBelow(l, R, R))
  BY <1>5 DEF S
<1> QED
  BY Zenon, <1>1, <1>6, BelowFacts

(* What a place gets: the quotient, or one more if there is a remainder. *)
LEMMA SpreadEven ==
  ASSUME NEW l \in Nat \ {0}, NEW R \in Nat \ {0}, NEW p
  PROVE  /\ l \div R \in Nat
         /\ l \div R + Cardinality(Rounds(l, R, p)) \in {l \div R, l \div R + 1}
         /\ l \div R + Cardinality(Rounds(l, R, p)) <= l
<1> DEFINE base == l \div R
           m == l % R
<1>1. m \in Nat /\ base \in Nat /\ l = R * base + m
  BY DivFacts
<1>2. base <= R * base
  BY <1>1
<1>3. base + m <= l
  BY <1>1, <1>2
<1>4. /\ Cardinality(Rounds(l, R, p)) \in 0 .. 1
      /\ m = 0 => Cardinality(Rounds(l, R, p)) = 0
  BY Zenon, HitsAtMostOne
<1> HIDE DEF base, m
<1>5. /\ base + Cardinality(Rounds(l, R, p)) \in {base, base + 1}
      /\ base + Cardinality(Rounds(l, R, p)) <= l
  BY <1>1, <1>3, <1>4
<1> QED
  BY Zenon, <1>1, <1>5 DEF base

(* An initial segment of the natural numbers has finite subsets only. *)
LEMMA SegmentCount ==
  ASSUME NEW n \in Nat, NEW S \in SUBSET (0 .. n - 1)
  PROVE  Cardinality(S) \in Nat
<1>1. IsFiniteSet(0 .. n - 1)
  BY FS_Interval
<1>2. IsFiniteSet(S)
  BY Zenon, <1>1, FS_Subset
<1> QED
  BY Zenon, <1>2, FS_CardinalityType

-----------------------------------------------------------------------------

(* What a caller knows in the middle of refresh(): its tick is not in the  *)
(* future, it is past the bucket it read, and the value that it is about   *)
(* to install carries this tick and no more tokens than the limit.         *)
CallerInv(c) ==
  /\ tick[c] <= clock
  /\ pc[c] \in {"sum", "cap", "cas"} => tick[c] > cur[c].last
  /\ pc[c] = "cas" => /\ new[c].last = tick[c]
                      /\ new[c].tokens <= LargerLimit

(* The inductive invariant. *)
IInv ==
  /\ TypeOK
  /\ max <= LargerLimit
  /\ tr.last <= clock
  /\ TokensBounded
  /\ NoDoubleGrant
  /\ \A c \in Callers : CallerInv(c)

(* The limits are those of the configuration, within a word. *)
LEMMA LimitFacts ==
  ASSUME TypeOK, NEW c \in Callers
  PROVE  /\ LimitOf(c) \in 1 .. Word - 1 /\ LimitOf(c) <= LargerLimit
         /\ LargerLimit \in 1 .. Word - 1
<1>1. limit.old \in Limits /\ limit.new \in Limits
  BY Zenon DEF TypeOK
<1>2. limit.old \in 1 .. Word - 1 /\ limit.new \in 1 .. Word - 1
  BY Zenon, <1>1, LimiterAssumption
<1> QED
  BY <1>2, LimiterAssumption DEF LimitOf, LargerLimit

(* The index that the loop of refresh() computes is one of the array. *)
LEMMA ModFacts ==
  ASSUME NEW x \in Nat
  PROVE  x % RefreshesPerMin \in Periods /\ x % Word \in 0 .. Word - 1
BY LimiterAssumption DEF Periods

(* The loop of refresh() adds an amount, within a word. *)
LEMMA SumFacts ==
  ASSUME NEW last \in Nat, NEW k \in Nat, NEW e \in Nat,
         NEW f \in [Periods -> Nat]
  PROVE  (e + f[(last + k) % RefreshesPerMin]) % Word \in 0 .. Word - 1
<1>1. (last + k) % RefreshesPerMin \in Periods
  BY ModFacts
<1>2. e + f[(last + k) % RefreshesPerMin] \in Nat
  BY <1>1
<1> QED
  BY Zenon, <1>2, ModFacts

(* distribute_refresh_amounts() divides by the number of periods. *)
LEMMA QuotientFacts ==
  ASSUME NEW x \in Nat
  PROVE  x \div RefreshesPerMin \in Nat /\ x % RefreshesPerMin \in Nat
BY LimiterAssumption

(* The bucket that the master leaves behind. *)
LEMMA EmptyFacts == Empty \in Bucket /\ Empty.tokens = 0 /\ Empty.last = 0
BY LimiterAssumption DEF Empty, Bucket

(* The configured limits do not change while the threads run. *)
LEMMA LimitKept ==
  ASSUME TypeOK, limit' = limit
  PROVE  LargerLimit' = LargerLimit /\ LargerLimit \in 1 .. Word - 1
<1>1. limit.old \in 1 .. Word - 1 /\ limit.new \in 1 .. Word - 1
  BY Zenon, LimiterAssumption DEF TypeOK
<1> QED
  BY Zenon, <1>1 DEF LargerLimit

(* An empty bucket, no locals, and nothing granted. *)
LEMMA IInvInit == Init => IInv
<1> SUFFICES ASSUME Init PROVE IInv
  BY Zenon
<1>1. TypeOK
  BY LimiterAssumption, EmptyFacts DEF Init, TypeOK, Zero, Serving
<1>2. LargerLimit \in Nat
  <2>1. limit.old \in 1 .. Word - 1 /\ limit.new \in 1 .. Word - 1
    BY Zenon, <1>1, LimiterAssumption DEF TypeOK
  <2> QED
    BY <2>1, LimiterAssumption DEF LargerLimit
<1>3. tr = Empty /\ max = 0 /\ clock \in Nat /\ granted = 0 /\ minted = 0
  BY Zenon, LimiterAssumption DEF Init
<1>4. max <= LargerLimit /\ tr.last <= clock /\ TokensBounded /\ NoDoubleGrant
  BY <1>2, <1>3, EmptyFacts DEF TokensBounded, NoDoubleGrant
<1>5. \A c \in Callers : CallerInv(c)
  BY SMTT(30), <1>3 DEF Init, CallerInv
<1> QED
  BY Zenon, <1>1, <1>4, <1>5 DEF IInv

(* The steps of get_limiter() preserve the invariant. *)
LEMMA SetupStep ==
  ASSUME IInv, NEW c \in Callers,
         \/ Lock(c) \/ StoreTokens(c) \/ StoreMax(c) \/ Fill(c) \/ Spread(c)
         \/ Unlock(c)
  PROVE  IInv'
<1>1. /\ LimitOf(c) \in 1 .. Word - 1 /\ LimitOf(c) <= LargerLimit
      /\ LimitOf(c) \in Nat
  BY LimitFacts, LimiterAssumption DEF IInv
<1>2. limit' = limit
  BY Zenon DEF Lock, StoreTokens, StoreMax, Fill, Spread, Unlock
<1>3. LargerLimit' = LargerLimit /\ LargerLimit \in 1 .. Word - 1
  BY Zenon, <1>2, LimitKept DEF IInv
<1> USE DEF IInv, TypeOK, TokensBounded, NoDoubleGrant, CallerInv, locals,
            ghosts, Bucket, Serving, Goto
<1>4. CASE Lock(c)
  BY Zenon, <1>3, <1>4 DEF Lock
<1>5. CASE StoreTokens(c)
  BY <1>1, <1>3, <1>5, LimiterAssumption DEF StoreTokens
<1>6. CASE StoreMax(c)
  BY SMTT(30), <1>1, <1>3, <1>6, LimiterAssumption DEF StoreMax
<1>7. CASE Fill(c)
  <2>1. LimitOf(c) \div RefreshesPerMin \in Nat
    BY Zenon, <1>1, QuotientFacts
  <2>2. amounts' \in [Periods -> Nat]
    BY Zenon, <1>7, <2>1 DEF Fill
  <2> QED
    BY Zenon, <1>3, <1>7, <2>2 DEF Fill
<1>8. CASE Spread(c)
  <2> DEFINE remainder == LimitOf(c) % RefreshesPerMin
             hits(p) == {k \in 0 .. remainder - 1 :
                           (k * RefreshesPerMin) \div remainder = p}
  <2>1. remainder \in Nat
    BY Zenon, <1>1, QuotientFacts
  <2>2. \A p \in Periods : Cardinality(hits(p)) \in Nat
    BY Zenon, <2>1, SegmentCount
  <2>3. amounts' = [p \in Periods |-> amounts[p] + Cardinality(hits(p))]
    BY Zenon, <1>8 DEF Spread
  <2> HIDE DEF hits
  <2>4. amounts' \in [Periods -> Nat]
    BY <2>2, <2>3
  <2> QED
    BY Zenon, <1>3, <1>8, <2>4 DEF Spread
<1>9. CASE Unlock(c)
  BY Zenon, <1>3, <1>9 DEF Unlock
<1> QED
  BY Zenon, <1>4, <1>5, <1>6, <1>7, <1>8, <1>9

(* The steps of refresh() preserve the invariant. *)
LEMMA RefreshStep ==
  ASSUME IInv, NEW c \in Callers,
         \/ NowTick(c) \/ Load(c) \/ Refresh(c) \/ Sum(c) \/ SetNew(c)
         \/ Cap(c) \/ CasRefresh(c)
  PROVE  IInv'
<1>1. limit' = limit
  BY Zenon DEF NowTick, Load, Refresh, Sum, SetNew, Cap, NewVal, CasRefresh
<1>2. LargerLimit' = LargerLimit /\ LargerLimit \in 1 .. Word - 1
  BY Zenon, <1>1, LimitKept DEF IInv
<1>3. /\ tick[c] \in Nat /\ i[c] \in Nat /\ extra[c] \in Nat
      /\ cur[c].last \in Nat /\ cur[c].tokens \in Nat
  BY SMTT(30), LimiterAssumption DEF IInv, TypeOK, Bucket
<1>4. CASE Sum(c)
  <2> DEFINE sum == (extra[c] + amounts[(cur[c].last + i[c]) % RefreshesPerMin])
                    % Word
  <2>1. amounts \in [Periods -> Nat]
    BY Zenon DEF IInv, TypeOK
  <2>2. sum \in 0 .. Word - 1
    BY Zenon, <1>3, <2>1, SumFacts
  <2>3. /\ extra' = [extra EXCEPT ![c] = sum]
        /\ i' = [i EXCEPT ![c] = i[c] + 1]
    BY Zenon, <1>4 DEF Sum
  <2> HIDE DEF sum
  <2>4. extra' \in [Callers -> Nat] /\ i' \in [Callers -> Nat]
    BY SMTT(30), <1>3, <2>2, <2>3 DEF IInv, TypeOK
  <2> QED
    BY Zenon, <1>2, <1>4, <2>4
       DEF Sum, IInv, TypeOK, TokensBounded, NoDoubleGrant, CallerInv, shared,
           ghosts
<1>5. CASE SetNew(c)
  <2> DEFINE sum == (cur[c].tokens + extra[c]) % Word
  <2>1. cur[c].tokens + extra[c] \in Nat
    BY <1>3
  <2>2. sum \in 0 .. Word - 1
    BY Zenon, <2>1, ModFacts
  <2>3. pc[c] = "sum" /\ NewVal(c, sum, IF sum > max THEN "cap" ELSE "cas")
    BY Zenon, <1>5 DEF SetNew
  <2> HIDE DEF sum
  <2> QED
    BY SMTT(30), <1>2, <1>3, <2>2, <2>3, LimiterAssumption
       DEF NewVal, IInv, TypeOK, TokensBounded, NoDoubleGrant, CallerInv,
           shared, ghosts, Bucket, Serving, Goto
<1> USE DEF IInv, TypeOK, TokensBounded, NoDoubleGrant, CallerInv, shared,
            ghosts, Serving, Goto
<1>6. CASE NowTick(c)
  BY <1>2, <1>6 DEF NowTick
<1>7. CASE Load(c)
  BY Zenon, <1>2, <1>7 DEF Load
<1>8. CASE Refresh(c)
  BY SMTT(30), <1>2, <1>3, <1>8 DEF Refresh
<1>9. CASE Cap(c)
  BY Zenon, <1>2, <1>3, <1>9, LimiterAssumption DEF Cap, NewVal, Bucket
<1>10. CASE CasRefresh(c) /\ tr' = new[c] /\ tr = cur[c] /\ pc'[c] = "take"
  <2>1. /\ tr' \in Bucket /\ tr'.tokens <= LargerLimit /\ tr'.last <= clock
        /\ new[c].tokens \in Nat
    BY SMTT(30), <1>3, <1>10, LimiterAssumption DEF CasRefresh, Bucket
  <2>2. minted' \in Nat /\ granted + tr'.tokens <= minted'
    BY SMTT(30), <1>3, <1>10, <2>1 DEF CasRefresh
  <2>3. /\ cur' \in [Callers -> Bucket] /\ new' \in [Callers -> Bucket]
        /\ pc' = [pc EXCEPT ![c] = "take"]
    BY Zenon, <1>10, <2>1, EmptyFacts DEF CasRefresh
  <2> QED
    BY Zenon, <1>2, <1>10, <2>1, <2>2, <2>3 DEF CasRefresh
<1>11. CASE CasRefresh(c) /\ tr' = tr /\ minted' = minted /\ pc'[c] = "refresh"
  <2>1. /\ cur' \in [Callers -> Bucket] /\ new' \in [Callers -> Bucket]
        /\ pc' = [pc EXCEPT ![c] = "refresh"]
    BY SMTT(30), <1>11, EmptyFacts DEF CasRefresh
  <2>2. TypeOK'
    BY Zenon, <1>11, <2>1 DEF CasRefresh
  <2>3. ASSUME NEW d \in Callers PROVE CallerInv(d)'
    BY Zenon, <1>2, <1>11, <2>1 DEF CasRefresh
  <2> QED
    BY Zenon, <1>2, <1>11, <2>2, <2>3 DEF CasRefresh
<1>12. CASE CasRefresh(c)
  BY ZenonT(30), <1>10, <1>11, <1>12 DEF CasRefresh
<1> QED
  BY Zenon, <1>4, <1>5, <1>6, <1>7, <1>8, <1>9, <1>12

(* The steps of allow() preserve the invariant. *)
LEMMA TakeStep ==
  ASSUME IInv, NEW c \in Callers, Take(c) \/ Deny(c)
  PROVE  IInv'
<1>1. limit' = limit
  BY Zenon DEF Take, Deny
<1>2. LargerLimit' = LargerLimit /\ LargerLimit \in 1 .. Word - 1
  BY Zenon, <1>1, LimitKept DEF IInv
<1> USE DEF IInv, TypeOK, TokensBounded, NoDoubleGrant, CallerInv, shared,
            ghosts, Serving, Goto, Return
<1>3. CASE Take(c) /\ tr = cur[c] /\ granted' = granted + 1 /\ Return(c)
           /\ tr' = [tokens |-> cur[c].tokens - 1, last |-> cur[c].last]
  <2>1. tr.tokens \in 0 .. Word - 1 /\ tr.last \in Nat
    BY Zenon DEF Bucket
  <2>2. tr.tokens > 0
    BY Zenon, <1>3 DEF Take
  <2>3. tr.tokens - 1 \in 0 .. Word - 1
    BY <2>1, <2>2, LimiterAssumption
  <2>4. tr' \in Bucket /\ tr'.tokens = tr.tokens - 1 /\ tr'.last = tr.last
    BY Zenon, <1>3, <2>1, <2>3 DEF Bucket
  <2>5. granted' + tr'.tokens <= minted /\ tr'.tokens <= LargerLimit
    BY SMTT(30), <1>2, <1>3, <2>1, <2>4, LimiterAssumption
  <2>6. TypeOK'
    BY SMTT(30), <1>3, <2>4, EmptyFacts DEF Take
  <2>7. max' <= LargerLimit' /\ tr'.last <= clock'
    BY Zenon, <1>2, <1>3, <2>4 DEF Take
  <2>8. TokensBounded' /\ NoDoubleGrant'
    BY Zenon, <1>2, <1>3, <2>5 DEF Take
  <2>9. ASSUME NEW d \in Callers PROVE CallerInv(d)'
    BY SMTT(30), <1>2, <1>3 DEF Take
  <2> QED
    BY Zenon, <2>6, <2>7, <2>8, <2>9
<1>4. CASE Take(c) /\ UNCHANGED <<pc, tick, tr, granted>>
  BY SMTT(30), <1>2, <1>4 DEF Take
<1>5. CASE Deny(c)
  BY SMTT(30), <1>2, <1>5, EmptyFacts DEF Deny
<1> QED
  BY Zenon, <1>3, <1>4, <1>5 DEF Take

(* The master's steps preserve the invariant. *)
LEMMA MasterStep ==
  ASSUME IInv, ZeroTokens \/ ZeroMax \/ ZeroAmounts
  PROVE  IInv'
<1>1. limit' = limit
  BY Zenon DEF ZeroTokens, ZeroMax, ZeroAmounts
<1>2. LargerLimit' = LargerLimit /\ LargerLimit \in 1 .. Word - 1
  BY Zenon, <1>1, LimitKept DEF IInv
<1> USE DEF IInv, TypeOK, TokensBounded, NoDoubleGrant, CallerInv, locals,
            ghosts
<1>3. CASE ZeroTokens
  BY SMTT(30), <1>2, <1>3, EmptyFacts, LimiterAssumption DEF ZeroTokens, Bucket
<1>4. CASE ZeroMax
  BY SMTT(30), <1>2, <1>4, LimiterAssumption DEF ZeroMax
<1>5. CASE ZeroAmounts
  BY Zenon, <1>2, <1>5 DEF ZeroAmounts, Zero
<1> QED
  BY Zenon, <1>3, <1>4, <1>5

(* Every step preserves the invariant. *)
LEMMA IInvNext == IInv /\ [Next]_vars => IInv'
<1> SUFFICES ASSUME IInv, [Next]_vars PROVE IInv'
  BY Zenon
<1>1. CASE Tick
  <2>1. LargerLimit' = LargerLimit
    BY Zenon, <1>1, LimitKept DEF Tick, IInv
  <2>2. clock \in Nat /\ clock' = clock + 1
    BY Zenon, <1>1 DEF Tick, IInv, TypeOK
  <2>3. \A c \in Callers : tick[c] \in Nat
    BY Zenon DEF IInv, TypeOK
  <2>4. tr.last \in Nat
    BY Zenon DEF IInv, TypeOK, Bucket
  <2> QED
    BY <1>1, <2>1, <2>2, <2>3, <2>4
       DEF Tick, IInv, TypeOK, TokensBounded, NoDoubleGrant, CallerInv,
           shared, locals, ghosts
<1>2. ASSUME NEW c \in Callers, Caller(c) PROVE IInv'
  BY Zenon, <1>2, SetupStep, RefreshStep, TakeStep DEF Caller
<1>3. CASE ZeroTokens \/ ZeroMax \/ ZeroAmounts
  BY Zenon, <1>3, MasterStep
<1>4. CASE UNCHANGED vars
  BY Zenon, <1>4 DEF vars, IInv, TypeOK, TokensBounded, NoDoubleGrant, LargerLimit,
              CallerInv, shared, locals, ghosts
<1> QED
  BY Zenon, <1>1, <1>2, <1>3, <1>4 DEF Next

(* refresh() moves last_refresh forward, the master empties the bucket. *)
LEMMA ForwardStep ==
  IInv /\ [Next]_vars => [tr' = Empty \/ tr'.last >= tr.last]_vars
<1> SUFFICES ASSUME IInv, Next, tr' # tr
             PROVE  tr' = Empty \/ tr'.last >= tr.last
  BY DEF vars, shared, IInv, TypeOK, Bucket
<1>1. CASE Tick \/ ZeroTokens \/ ZeroMax \/ ZeroAmounts
  BY Zenon, <1>1 DEF Tick, ZeroTokens, ZeroMax, ZeroAmounts, shared
<1>2. ASSUME NEW c \in Callers, Caller(c)
      PROVE  tr'.last >= tr.last
  <2>1. CASE StoreTokens(c)
    BY Zenon, <2>1 DEF StoreTokens, IInv, TypeOK
  <2>2. CASE CasRefresh(c)
    BY SMTT(30), <1>2, <2>2 DEF CasRefresh, IInv, TypeOK, CallerInv, Bucket
  <2>3. CASE Take(c)
    BY <2>3 DEF Take, IInv, TypeOK, Bucket
  <2>4. CASE Lock(c) \/ StoreMax(c) \/ Fill(c) \/ Spread(c) \/ Unlock(c)
    BY Zenon, <2>4 DEF Lock, StoreMax, Fill, Spread, Unlock
  <2>5. CASE \/ NowTick(c) \/ Load(c) \/ Refresh(c) \/ Sum(c) \/ SetNew(c)
             \/ Cap(c) \/ Deny(c)
    BY Zenon, <2>5 DEF NowTick, Load, Refresh, Sum, SetNew, Cap, NewVal, Deny,
                shared
  <2> QED
    BY Zenon, <1>2, <2>1, <2>2, <2>3, <2>4, <2>5 DEF Caller
<1> QED
  BY Zenon, <1>1, <1>2 DEF Next

(* The inductive invariant holds throughout. *)
LEMMA Invariance == Spec => []IInv
BY IInvInit, IInvNext, PTL DEF Spec

(* The members of the shared state and the locals of refresh() keep their  *)
(* types; tokens stay within a word.                                       *)
THEOREM LimiterTyped == Spec => []TypeOK
<1>1. IInv => TypeOK
  BY Zenon DEF IInv
<1> QED
  BY Invariance, <1>1, PTL

(* The bucket of tokens_and_refresh never holds more than the limit.       *)
THEOREM LimiterBounded == Spec => []TokensBounded
<1>1. IInv => TokensBounded
  BY Zenon DEF IInv
<1> QED
  BY Invariance, <1>1, PTL

(* No two calls of allow() are granted the same token.                     *)
THEOREM LimiterConserves == Spec => []NoDoubleGrant
<1>1. IInv => NoDoubleGrant
  BY Zenon DEF IInv
<1> QED
  BY Invariance, <1>1, PTL

(* last_refresh never goes back, however late a compare_exchange comes.    *)
THEOREM LimiterForward == Spec => RefreshForward
BY Invariance, ForwardStep, PTL DEF Spec, RefreshForward

-----------------------------------------------------------------------------
(* get_limiter(): the first worker of a generation sets the limiter up *)

(* What distribute_refresh_amounts() computes *)
Distribution(l) ==
  [p \in Periods |->
     l \div RefreshesPerMin
       + Cardinality({k \in 0 .. (l % RefreshesPerMin) - 1 :
                        (k * RefreshesPerMin) \div (l % RefreshesPerMin) = p})]

(* Its amounts are those of SumTheorems: none exceeds the limit, they      *)
(* differ by one at most and add up to the limit.                          *)
LEMMA DistributionEven ==
  ASSUME NEW l \in Nat \ {0}
  PROVE  /\ \A p \in Periods : Distribution(l)[p] \in Nat /\ Distribution(l)[p] <= l
         /\ \A p, q \in Periods : Distribution(l)[p] <= Distribution(l)[q] + 1
<1> DEFINE base == l \div RefreshesPerMin
<1>1. RefreshesPerMin \in Nat \ {0}
  BY Zenon, LimiterAssumption
<1>2. ASSUME NEW p \in Periods
      PROVE  /\ base \in Nat /\ Distribution(l)[p] \in {base, base + 1}
             /\ Distribution(l)[p] <= l
  <2>1. Distribution(l)[p] = base + Cardinality(Rounds(l, RefreshesPerMin, p))
    BY Zenon DEF Distribution, Rounds
  <2> QED
    BY Zenon, <1>1, <2>1, SpreadEven
<1> HIDE DEF base
<1> QED
  BY <1>2

(* The tokens that set_limits spreads over the periods add up to the limit  *)
LEMMA DistributionSum ==
  ASSUME NEW l \in Nat
  PROVE  SumTo([k \in 1 .. RefreshesPerMin |-> Distribution(l)[k - 1]],
               RefreshesPerMin) = l
<1> DEFINE a == [k \in 1 .. RefreshesPerMin |-> Distribution(l)[k - 1]]
<1>1. RefreshesPerMin \in Nat \ {0}
  BY Zenon, LimiterAssumption
<1>2. ASSUME NEW n \in 0 .. RefreshesPerMin - 1
      PROVE  a[n + 1] = l \div RefreshesPerMin
                          + Cardinality(Rounds(l, RefreshesPerMin, n))
  <2>1. n + 1 \in 1 .. RefreshesPerMin /\ (n + 1) - 1 = n /\ n \in Periods
    BY <1>1 DEF Periods
  <2>2. a[n + 1] = Distribution(l)[n]
    BY Zenon, <2>1
  <2> QED
    BY Zenon, <2>1, <2>2 DEF Distribution, Rounds
<1> HIDE DEF a
<1>3. SumTo(a, RefreshesPerMin) = l
  BY Zenon, <1>1, <1>2, SpreadSum
<1> QED
  BY Zenon, <1>3 DEF a

Setting == {"store", "max", "fill", "spread", "unlock"}

(* The limit that the workers of the current generation have configured *)
CurLimit == IF master = "reloaded" THEN limit.new ELSE limit.old

Current(c) == IF master = "reloaded" THEN c \in New ELSE master = "running"

Ready == max = CurLimit /\ amounts = Distribution(CurLimit)

(* Who sets up holds the mutex.  A worker that finds max_per_min set may   *)
(* rely on the whole state, and so may every worker that serves: nobody of *)
(* its generation is still setting up.                                     *)
SetupInv ==
  /\ \A c \in Callers : pc[c] \in Setting => mutex = {c}
  /\ \A c \in New : master # "reloaded" => pc[c] = "start"
  /\ master # "running" /\ ~ReloadDuringStart =>
       \A c \in Old : pc[c] \in Serving
  /\ master = "running" \/ ~ReloadDuringStart =>
       /\ master = "zero_amounts" => max = 0
       /\ \A c \in Callers :
            /\ pc[c] \in {"store", "max"} => max = 0
            /\ pc[c] \in {"fill", "spread"} => max = CurLimit
            /\ pc[c] = "spread" =>
                 amounts = [p \in Periods |-> CurLimit \div RefreshesPerMin]
            /\ pc[c] = "unlock" => Ready
            /\ Current(c) /\ pc[c] \in Serving =>
                 /\ Ready
                 /\ \A d \in Callers : pc[d] \notin Setting \ {"unlock"}
            /\ Current(c) /\ mutex = {} /\ max # 0 => Ready

(* Whoever sets up does so with the limit of the current generation. *)
LEMMA SetterCurrent ==
  ASSUME TypeOK, SetupInv, NEW c \in Callers, pc[c] \in Setting,
         master = "running" \/ ~ReloadDuringStart
  PROVE  Current(c) /\ LimitOf(c) = CurLimit /\ master # "zero_amounts"
<1>1. \/ c \in Old /\ c \notin New /\ master = "running"
      \/ c \in New /\ c \notin Old /\ master = "reloaded"
  BY Zenon, LimiterAssumption DEF SetupInv, Setting, Serving, Callers
<1> QED
  BY Zenon, <1>1 DEF Current, LimitOf, CurLimit

(* Who serves finds the state set up, and nobody setting it up. *)
LEMMA ServedReady ==
  ASSUME SetupInv, master = "running" \/ ~ReloadDuringStart, NEW c \in Callers,
         Current(c), pc[c] \in Serving
  PROVE  Ready /\ \A d \in Callers : pc[d] \notin Setting \ {"unlock"}
BY Zenon DEF SetupInv

(* The steps of refresh(), of allow() and of the clock leave the set up    *)
(* state alone.                                                            *)
LEMMA SetupFramed ==
  ASSUME TypeOK, SetupInv, UNCHANGED <<max, amounts, mutex, master, limit>>,
         \/ pc' = pc
         \/ \E c \in Callers, l \in Serving :
              pc[c] \in Serving /\ pc' = [pc EXCEPT ![c] = l]
  PROVE  SetupInv'
<1>1. CurLimit' = CurLimit /\ Ready' = Ready /\ \A c : Current(c)' = Current(c)
  BY Zenon DEF CurLimit, Ready, Current
<1>2. \A c \in Callers : \/ pc'[c] = pc[c]
                         \/ pc'[c] \in Serving /\ pc[c] \in Serving
  BY Zenon DEF TypeOK
<1>3. Serving \cap Setting = {} /\ "start" \notin Serving
  BY Zenon DEF Serving, Setting
<1>4. \A c \in Callers : pc'[c] \in Setting => pc[c] = pc'[c]
  BY Zenon, <1>2, <1>3
<1>5. \A c \in Callers : pc'[c] \in Serving <=> pc[c] \in Serving
  BY Zenon, <1>2
<1>6. /\ \A c \in Callers : pc'[c] \in Setting => mutex' = {c}
      /\ \A c \in New : master' # "reloaded" => pc'[c] = "start"
      /\ master' # "running" /\ ~ReloadDuringStart =>
           \A c \in Old : pc'[c] \in Serving
  BY <1>2, <1>3, <1>4, <1>5 DEF SetupInv, Callers
<1> QED
  BY Zenon, <1>1, <1>4, <1>5, <1>6 DEF SetupInv, Setting

(* The steps of get_limiter(), under the mutex. *)
LEMMA SetupLocked ==
  ASSUME TypeOK, SetupInv, NEW c \in Callers,
         \/ Lock(c) \/ StoreTokens(c) \/ StoreMax(c) \/ Fill(c) \/ Spread(c)
         \/ Unlock(c)
  PROVE  SetupInv'
<1>1. /\ master' = master /\ limit' = limit /\ CurLimit' = CurLimit
      /\ \A d : Current(d)' = Current(d)
  BY Zenon DEF Lock, StoreTokens, StoreMax, Fill, Spread, Unlock, CurLimit, Current
<1>2. pc \in [Callers -> Serving \cup Setting \cup {"start"}]
  BY Zenon DEF TypeOK, Setting
<1>3. CurLimit \in Nat \ {0}
  <2>1. limit.old \in 1 .. Word - 1 /\ limit.new \in 1 .. Word - 1
    BY Zenon, LimiterAssumption DEF TypeOK
  <2> QED
    BY <2>1, LimiterAssumption DEF CurLimit
<1>4. Serving \cap Setting = {} /\ "start" \notin Serving \cup Setting
  BY Zenon DEF Serving, Setting
<1>5. ASSUME master = "running" \/ ~ReloadDuringStart, NEW d \in Callers,
             Current(d), pc[d] \in Serving, c # d
      PROVE  pc[c] \notin Setting \ {"unlock"}
  BY Zenon, <1>5, ServedReady
<1>6. ASSUME pc[c] \in Setting
      PROVE  /\ \A d \in Callers : d # c => pc[d] \notin Setting
             /\ mutex = {c}
             /\ \A d \in New : master # "reloaded" => d # c
             /\ master # "running" /\ ~ReloadDuringStart => c \notin Old
             /\ master = "running" \/ ~ReloadDuringStart =>
                  /\ Current(c) /\ LimitOf(c) = CurLimit
                  /\ master # "zero_amounts"
  <2>1. mutex = {c} /\ \A d \in Callers : d # c => pc[d] \notin Setting
    BY Zenon, <1>6 DEF SetupInv
  <2>2. /\ \A d \in New : master # "reloaded" => d # c
        /\ master # "running" /\ ~ReloadDuringStart => c \notin Old
    BY Zenon, <1>4, <1>6 DEF SetupInv
  <2> QED
    BY Zenon, <1>6, <2>1, <2>2, SetterCurrent
<1>7. CASE Lock(c)
  <2>1. /\ pc[c] = "start" /\ mutex = {} /\ mutex' = {c}
        /\ c \in New => master = "reloaded"
        /\ max' = max /\ amounts' = amounts
        /\ pc' = [pc EXCEPT ![c] = IF max = 0 THEN "store" ELSE "unlock"]
    BY Zenon, <1>7 DEF Lock, Goto
  <2>2. \A d \in Callers : pc[d] \notin Setting
    BY Zenon, <2>1 DEF SetupInv
  <2>3. /\ pc'[c] = IF max = 0 THEN "store" ELSE "unlock"
        /\ \A d \in Callers : d # c => pc'[d] = pc[d]
    BY Zenon, <1>2, <2>1
  <2>4. Ready' = Ready
    BY Zenon, <1>1, <2>1 DEF Ready
  <2>5. ASSUME master = "running" \/ ~ReloadDuringStart PROVE Current(c)
    <3>1. ASSUME c \in Old, master # "running" PROVE FALSE
      <4>1. pc[c] \in Serving
        BY Zenon, <2>5, <3>1 DEF SetupInv
      <4> QED
        BY Zenon, <1>4, <2>1, <4>1
    <3>2. c \in New => c \notin Old
      BY Zenon, LimiterAssumption
    <3> QED
      BY Zenon, <2>1, <3>1, <3>2 DEF Current, Callers
  <2>6. /\ \A d \in Callers : pc'[d] \in Setting => mutex' = {d}
        /\ \A d \in New : master' # "reloaded" => pc'[d] = "start"
        /\ master' # "running" /\ ~ReloadDuringStart =>
             \A d \in Old : pc'[d] \in Serving
    BY Zenon, <1>1, <1>4, <2>1, <2>2, <2>3 DEF SetupInv, Callers
  <2>7. ASSUME master = "running" \/ ~ReloadDuringStart, NEW d \in Callers,
               Current(d), pc'[d] \in Serving
        PROVE  Ready /\ pc'[c] = "unlock"
    BY Zenon, <1>3, <1>4, <2>1, <2>3, <2>7 DEF SetupInv, Ready, Setting
  <2>8. \A d \in Callers : d # c => pc'[d] \notin Setting
    BY Zenon, <2>2, <2>3
  <2> QED
    BY <1>1, <2>1, <2>3, <2>4, <2>5, <2>6, <2>7, <2>8 DEF SetupInv, Setting
<1>8. ASSUME NEW l \in Setting, pc[c] \in Setting \ {"unlock"},
             pc' = [pc EXCEPT ![c] = l], mutex' = mutex
      PROVE  /\ pc'[c] = l /\ \A d \in Callers : d # c => pc'[d] \notin Setting
             /\ mutex' # {}
             /\ \A d \in Callers : pc'[d] \in Setting => mutex' = {d}
             /\ \A d \in New : master' # "reloaded" => pc'[d] = "start"
             /\ master' # "running" /\ ~ReloadDuringStart =>
                  \A d \in Old : pc'[d] \in Serving
             /\ master = "running" \/ ~ReloadDuringStart =>
                  \A d \in Callers : Current(d) => pc'[d] \notin Serving
  <2>1. pc'[c] = l /\ \A d \in Callers : d # c => pc'[d] = pc[d]
    BY Zenon, <1>2, <1>8
  <2>2. mutex = {c} /\ \A d \in Callers : d # c => pc[d] \notin Setting
    BY Zenon, <1>6, <1>8
  <2>3. /\ \A d \in New : master # "reloaded" => d # c /\ pc[d] = "start"
        /\ master # "running" /\ ~ReloadDuringStart =>
             c \notin Old /\ \A d \in Old : pc[d] \in Serving
    BY Zenon, <1>6, <1>8 DEF SetupInv
  <2> QED
    BY Zenon, <1>1, <1>4, <1>5, <1>8, <2>1, <2>2, <2>3 DEF Callers
<1>9. CASE StoreTokens(c)
  <2>1. /\ pc[c] = "store" /\ pc' = [pc EXCEPT ![c] = "max"] /\ mutex' = mutex
        /\ max' = max /\ amounts' = amounts
    BY Zenon, <1>9 DEF StoreTokens, Goto
  <2>2. pc[c] \in Setting \ {"unlock"}
    BY Zenon, <2>1 DEF Setting
  <2> QED
    BY Zenon, <1>1, <1>8, <2>1, <2>2 DEF SetupInv, Setting
<1>10. CASE StoreMax(c)
  <2>1. /\ pc[c] = "max" /\ pc' = [pc EXCEPT ![c] = "fill"] /\ mutex' = mutex
        /\ max' = LimitOf(c) /\ amounts' = amounts
    BY Zenon, <1>10 DEF StoreMax, Goto
  <2>2. pc[c] \in Setting \ {"unlock"}
    BY Zenon, <2>1 DEF Setting
  <2>3. master = "running" \/ ~ReloadDuringStart => /\ max' = CurLimit
                                                    /\ master # "zero_amounts"
    BY Zenon, <1>6, <2>1, <2>2
  <2> QED
    BY Zenon, <1>1, <1>8, <2>1, <2>2, <2>3 DEF SetupInv, Setting
<1>11. CASE Fill(c)
  <2>1. /\ pc[c] = "fill" /\ pc' = [pc EXCEPT ![c] = "spread"] /\ mutex' = mutex
        /\ max' = max
        /\ amounts' = [p \in Periods |-> LimitOf(c) \div RefreshesPerMin]
    BY Zenon, <1>11 DEF Fill, Goto
  <2>2. pc[c] \in Setting \ {"unlock"}
    BY Zenon, <2>1 DEF Setting
  <2>3. master = "running" \/ ~ReloadDuringStart => LimitOf(c) = CurLimit
    BY Zenon, <1>6, <2>2
  <2> QED
    BY Zenon, <1>1, <1>8, <2>1, <2>2, <2>3 DEF SetupInv, Setting
<1>12. CASE Spread(c)
  <2>1. /\ pc[c] = "spread" /\ pc' = [pc EXCEPT ![c] = "unlock"]
        /\ mutex' = mutex /\ max' = max
        /\ amounts' = [p \in Periods |-> amounts[p] + Cardinality(
             {k \in 0 .. (LimitOf(c) % RefreshesPerMin) - 1 :
                (k * RefreshesPerMin) \div (LimitOf(c) % RefreshesPerMin) = p})]
    BY Zenon, <1>12 DEF Spread, Goto
  <2>2. pc[c] \in Setting \ {"unlock"}
    BY Zenon, <2>1 DEF Setting
  <2>3. ASSUME master = "running" \/ ~ReloadDuringStart PROVE Ready'
    <3>1. LimitOf(c) = CurLimit
      BY Zenon, <1>6, <2>2, <2>3
    <3>2. /\ max = CurLimit
          /\ amounts = [p \in Periods |-> CurLimit \div RefreshesPerMin]
      BY Zenon, <2>1, <2>3 DEF SetupInv
    <3>3. amounts' = Distribution(CurLimit)
      BY Zenon, <2>1, <3>1, <3>2 DEF Distribution
    <3> QED
      BY Zenon, <1>1, <2>1, <3>2, <3>3 DEF Ready
  <2> QED
    BY Zenon, <1>1, <1>8, <2>1, <2>2, <2>3 DEF SetupInv, Setting
<1>13. CASE Unlock(c)
  <2>1. /\ pc[c] = "unlock" /\ pc' = [pc EXCEPT ![c] = "idle"] /\ mutex' = {}
        /\ max' = max /\ amounts' = amounts
    BY Zenon, <1>13 DEF Unlock, Goto
  <2>2. pc'[c] = "idle" /\ \A d \in Callers : d # c => pc'[d] = pc[d]
    BY Zenon, <1>2, <2>1
  <2>3. Ready' = Ready /\ (master = "running" \/ ~ReloadDuringStart => Ready)
    BY Zenon, <1>1, <2>1 DEF Ready, SetupInv
  <2>4. pc[c] \in Setting /\ pc'[c] \notin Setting /\ pc'[c] \in Serving
    BY Zenon, <2>1, <2>2 DEF Setting, Serving
  <2>5. /\ \A d \in New : master # "reloaded" => d # c
        /\ \A d \in Callers : d # c => pc[d] \notin Setting
        /\ master = "running" \/ ~ReloadDuringStart => master # "zero_amounts"
    BY Zenon, <1>6, <2>4
  <2>6. \A d \in Callers : pc'[d] \notin Setting
    BY Zenon, <2>2, <2>4, <2>5
  <2>7. /\ \A d \in New : master # "reloaded" => pc'[d] = "start"
        /\ master # "running" /\ ~ReloadDuringStart =>
             \A d \in Old : pc'[d] \in Serving
    BY Zenon, <2>2, <2>4, <2>5 DEF SetupInv, Callers
  <2> QED
    BY Zenon, <1>1, <2>1, <2>3, <2>5, <2>6, <2>7 DEF SetupInv, Setting
<1> QED
  BY Zenon, <1>7, <1>9, <1>10, <1>11, <1>12, <1>13

(* The master zeroes the state; nobody sets it up meanwhile. *)
LEMMA SetupMaster ==
  ASSUME TypeOK, SetupInv, ZeroTokens \/ ZeroMax \/ ZeroAmounts
  PROVE  SetupInv'
<1>1. pc' = pc /\ mutex' = mutex /\ limit' = limit
  BY Zenon DEF ZeroTokens, ZeroMax, ZeroAmounts
<1>2. /\ master' = "reloaded" => master = "zero_amounts" /\ max' = max
      /\ master' = "zero_amounts" => max' = 0
      /\ master' # "running"
      /\ master = "running" => ReloadDuringStart \/ \A c \in Old : pc[c] \in Serving
  BY Zenon DEF ZeroTokens, ZeroMax, ZeroAmounts
<1>3. master # "reloaded"
  BY Zenon DEF ZeroTokens, ZeroMax, ZeroAmounts
<1>4. /\ \A c \in New : pc[c] = "start"
      /\ ~ReloadDuringStart => \A c \in Old : pc[c] \in Serving
  BY Zenon, <1>2, <1>3 DEF SetupInv
<1>5. Serving \cap Setting = {} /\ "start" \notin Serving \cup Setting
  BY Zenon DEF Serving, Setting
<1>6. ~ReloadDuringStart => \A c \in Callers : pc[c] \notin Setting
  BY Zenon, <1>4, <1>5 DEF Callers
<1>7. ASSUME ~ReloadDuringStart, master' = "reloaded" PROVE max' = 0
  BY Zenon, <1>2, <1>7 DEF SetupInv
<1>8. \A c : Current(c)' => master' = "reloaded" /\ c \in New
  BY Zenon, <1>2 DEF Current
<1>9. /\ \A c \in Callers : pc'[c] \in Setting => mutex' = {c}
      /\ \A c \in New : master' # "reloaded" => pc'[c] = "start"
      /\ master' # "running" /\ ~ReloadDuringStart =>
           \A c \in Old : pc'[c] \in Serving
  BY Zenon, <1>1, <1>4 DEF SetupInv
<1> QED
  BY Zenon, <1>1, <1>2, <1>4, <1>5, <1>6, <1>7, <1>8, <1>9 DEF SetupInv, Setting

(* Nobody has called get_limiter() yet. *)
LEMMA SetupInit == Init => SetupInv
<1> SUFFICES ASSUME Init PROVE SetupInv
  BY Zenon
<1>1. /\ \A c \in Callers : pc[c] = "start"
      /\ master = "running" /\ max = 0 /\ mutex = {}
  BY Zenon DEF Init
<1>2. "start" \notin Serving \cup Setting
  BY Zenon DEF Serving, Setting
<1> QED
  BY Zenon, <1>1, <1>2 DEF SetupInv, Callers

(* Every step preserves what get_limiter() relies on. *)
LEMMA SetupNext == IInv /\ SetupInv /\ [Next]_vars => SetupInv'
<1> SUFFICES ASSUME TypeOK, SetupInv, [Next]_vars PROVE SetupInv'
  BY Zenon DEF IInv
<1>1. CASE Tick \/ UNCHANGED vars
  <2>1. UNCHANGED <<max, amounts, mutex, master, limit, pc>>
    BY Zenon, <1>1 DEF Tick, vars, shared
  <2> QED
    BY Zenon, <2>1, SetupFramed
<1>2. ASSUME NEW c \in Callers, Caller(c) PROVE SetupInv'
  <2>1. CASE \/ Lock(c) \/ StoreTokens(c) \/ StoreMax(c) \/ Fill(c) \/ Spread(c)
             \/ Unlock(c)
    BY Zenon, <2>1, SetupLocked
  <2>2. CASE \/ NowTick(c) \/ Load(c) \/ Refresh(c) \/ Sum(c) \/ SetNew(c)
             \/ Cap(c) \/ CasRefresh(c) \/ Take(c) \/ Deny(c)
    <3>1. /\ UNCHANGED <<max, amounts, mutex, master, limit>>
          /\ pc[c] \in Serving
      BY Zenon, <2>2 DEF NowTick, Load, Refresh, Sum, SetNew, Cap, NewVal, CasRefresh,
                  Take, Deny, shared, Serving
    <3>2. {"load", "refresh", "sum", "cap", "cas", "take", "idle"} \subseteq Serving
      BY Zenon DEF Serving
    <3>3. CASE NowTick(c) \/ Load(c) \/ Refresh(c) \/ Sum(c)
      BY Zenon, <3>1, <3>2, <3>3, SetupFramed
         DEF NowTick, Load, Refresh, Sum, Goto, shared
    <3>4. CASE SetNew(c) \/ Cap(c)
      BY Zenon, <3>1, <3>2, <3>4, SetupFramed DEF SetNew, Cap, NewVal, Goto
    <3>5. CASE CasRefresh(c) \/ Take(c) \/ Deny(c)
      BY Zenon, <3>1, <3>2, <3>5, SetupFramed
         DEF CasRefresh, Take, Deny, Return, Goto
    <3> QED
      BY Zenon, <2>2, <3>3, <3>4, <3>5
  <2> QED
    BY Zenon, <1>2, <2>1, <2>2 DEF Caller
<1>3. CASE ZeroTokens \/ ZeroMax \/ ZeroAmounts
  BY Zenon, <1>3, SetupMaster
<1> QED
  BY Zenon, <1>1, <1>2, <1>3 DEF Next

(* So it holds throughout. *)
LEMMA SetupInvariance == Spec => [](IInv /\ SetupInv)
<1>1. IInv /\ [Next]_vars => IInv'
  BY Zenon, IInvNext
<1> QED
  BY <1>1, IInvInit, SetupInit, SetupNext, PTL DEF Spec

(* Whoever get_limiter() has returned to finds distribute_refresh_amounts  *)
(* done: a minute's amounts add up to the limit and are spread evenly.     *)
(* That takes workers of the old generation that are up when nginx is      *)
(* reloaded: shared_limiter_zone_init() does not take the mutex.           *)
THEOREM LimiterSetUp == ~ReloadDuringStart => (Spec => []LimiterReady)
<1> SUFFICES ASSUME ~ReloadDuringStart PROVE Spec => []LimiterReady
  BY Zenon
<1>1. IInv /\ SetupInv => LimiterReady
  <2> SUFFICES ASSUME IInv, SetupInv, NEW c \in Callers, pc[c] \in Serving,
                      IF master = "reloaded" THEN c \in New
                      ELSE master = "running"
               PROVE  /\ max = LimitOf(c)
                      /\ SumTo([k \in 1 .. RefreshesPerMin |-> amounts[k - 1]],
                               RefreshesPerMin) = LimitOf(c)
                      /\ \A p, q \in Periods : amounts[p] <= amounts[q] + 1
    BY Zenon DEF LimiterReady
  <2>1. TypeOK /\ SetupInv /\ Current(c)
    BY Zenon DEF IInv, Current
  <2>2. Ready
    BY Zenon, <2>1, ServedReady
  <2>3. LimitOf(c) = CurLimit
    <3>1. "start" \notin Serving
      BY Zenon DEF Serving
    <3> QED
      BY Zenon, <2>1, <3>1, LimiterAssumption
         DEF SetupInv, LimitOf, CurLimit, Callers, Current
  <2>4. CurLimit \in Nat \ {0}
    <3>1. limit.old \in 1 .. Word - 1 /\ limit.new \in 1 .. Word - 1
      BY Zenon, <2>1, LimiterAssumption DEF TypeOK
    <3> QED
      BY <3>1, LimiterAssumption DEF CurLimit
  <2>5. CurLimit \in Nat
    BY Zenon, <2>4
  <2> QED
    BY Zenon, <2>2, <2>3, <2>4, <2>5, DistributionSum, DistributionEven DEF Ready
<1> QED
  BY <1>1, SetupInvariance, PTL

-----------------------------------------------------------------------------
(* The tokens that refresh() adds and allow() takes until nginx is         *)
(* reloaded.                                                               *)


(* What holds until nginx is reloaded.  refresh() collects no more than    *)
(* the amounts of the periods between the bucket it read and its tick.     *)
CallerRate(c) ==
  /\ pc[c] # "sum" => extra[c] = 0
  /\ pc[c] \in {"refresh", "sum", "cap", "cas", "take"} =>
       start <= cur[c].last /\ cur[c].tokens <= limit.old
  /\ pc[c] = "sum" =>
       /\ i[c] > 0 /\ cur[c].last + i[c] <= tick[c] + 1
       /\ extra[c] + Supply(amounts, start, cur[c].last)
            <= Supply(amounts, start, cur[c].last + i[c] - 1)
  /\ pc[c] \in {"cap", "cas"} =>
       new[c].tokens + Supply(amounts, start, cur[c].last)
         <= cur[c].tokens + Supply(amounts, start, tick[c])
  /\ pc[c] = "cap" => new[c].tokens > max
  /\ pc[c] = "cas" => new[c].tokens <= limit.old

RateInv ==
  /\ clock # 0 /\ start <= clock
  /\ start = 0 => tr = Empty /\ granted = 0 /\ max = 0
  /\ start # 0 =>
       /\ start <= tr.last /\ tr.tokens <= limit.old
       /\ granted + tr.tokens <= limit.old + Supply(amounts, start, tr.last)
  /\ start # 0 /\ mutex = {} => max # 0
  /\ \A c \in Callers :
       /\ pc[c] = "store" => start = 0
       /\ pc[c] \in {"max", "fill", "spread"} =>
            start # 0 /\ granted = 0 /\ tr.last = start
       /\ pc[c] \in Serving => start # 0
       /\ CallerRate(c)

(* Without overflow, refresh() installs at least the tokens it read.       *)
NoOverflow == \A l \in Limits : 3 * l <= Word

AddsInv ==
  \A c \in Callers :
    /\ pc[c] = "sum" => extra[c] < 2 * limit.old
    /\ pc[c] = "cas" => new[c].tokens >= cur[c].tokens

LimiterInv ==
  /\ IInv
  /\ SetupInv
  /\ master = "running" => RateInv /\ (NoOverflow => AddsInv)

-----------------------------------------------------------------------------
(* What refresh() adds until nginx is reloaded *)

(* Supply adds the amount of the next period, and grows. *)
LEMMA SupplyFacts ==
  ASSUME NEW a \in [Periods -> Nat], NEW s \in Nat, NEW t \in Nat, s <= t
  PROVE  /\ Supply(a, s, s) = 0
         /\ Supply(a, s, t) \in Nat
         /\ Supply(a, s, t + 1) = Supply(a, s, t) + a[(t + 1) % RefreshesPerMin]
         /\ \A u \in s .. t : /\ Supply(a, s, u) \in Nat
                              /\ Supply(a, s, u) <= Supply(a, s, t)
<1> DEFINE b == [k \in Nat |-> a[(s + k) % RefreshesPerMin]]
<1>1. \A u : Supply(a, s, u) = SumTo(b, u - s)
  BY Zenon DEF Supply
<1>2. ASSUME NEW k \in Nat PROVE b[k] \in Nat
  <2>1. (s + k) % RefreshesPerMin \in Periods
    BY ModFacts
  <2> QED
    BY Zenon, <2>1
<1>3. b[(t - s) + 1] = a[(t + 1) % RefreshesPerMin]
  <2>1. (t - s) + 1 \in Nat /\ s + ((t - s) + 1) = t + 1
    OBVIOUS
  <2> QED
    BY Zenon, <2>1
<1> HIDE DEF b
<1>4. s - s = 0 /\ t - s \in Nat /\ (t + 1) - s = (t - s) + 1
  OBVIOUS
<1>5. SumTo(b, 0) = 0 /\ SumTo(b, (t - s) + 1) = SumTo(b, t - s) + b[(t - s) + 1]
  BY Zenon, <1>4, SumToStep
<1>6. \A k \in 1 .. t - s : b[k] \in Nat
  BY <1>2
<1>7. \A k \in 0 .. t - s : SumTo(b, k) \in Nat /\ SumTo(b, k) <= SumTo(b, t - s)
  BY Zenon, <1>4, <1>6, SumToNat
<1>8. \A u \in s .. t : /\ Supply(a, s, u) \in Nat
                        /\ Supply(a, s, u) <= Supply(a, s, t)
  <2>1. \A u \in s .. t : u - s \in 0 .. t - s
    OBVIOUS
  <2> QED
    BY <1>1, <1>7, <2>1
<1>9. t \in s .. t
  OBVIOUS
<1> QED
  BY Zenon, <1>1, <1>3, <1>4, <1>5, <1>8, <1>9

(* Nothing is added before the first period has passed. *)
LEMMA SupplyStart ==
  ASSUME NEW a, NEW s \in Nat
  PROVE  Supply(a, s, s) = 0
<1>1. s - s = 0
  OBVIOUS
<1> QED
  BY Zenon, <1>1, SumToStep DEF Supply

(* A remainder is not larger than the number. *)
LEMMA ModBelow ==
  ASSUME NEW x \in Nat
  PROVE  x % Word \in Nat /\ x % Word <= x /\ (x < Word => x % Word = x)
BY LimiterAssumption

(* The limit of the old generation, which is the current one until nginx   *)
(* is reloaded.                                                            *)
LEMMA RunningFacts ==
  ASSUME TypeOK, SetupInv, master = "running"
  PROVE  /\ limit.old \in 1 .. Word - 1 /\ limit.old \in Nat
         /\ CurLimit = limit.old
         /\ \A c \in Callers : /\ Current(c)
                               /\ pc[c] # "start" => LimitOf(c) = limit.old
<1>1. limit.old \in 1 .. Word - 1
  BY Zenon, LimiterAssumption DEF TypeOK
<1>2. limit.old \in Nat
  BY <1>1, LimiterAssumption
<1> QED
  BY Zenon, <1>1, <1>2 DEF CurLimit, Current, SetupInv, Callers, LimitOf

(* A caller that serves finds the limiter set up. *)
LEMMA ServingReady ==
  ASSUME TypeOK, SetupInv, master = "running", NEW c \in Callers,
         pc[c] \in Serving
  PROVE  /\ max = limit.old /\ amounts = Distribution(limit.old)
         /\ \A d \in Callers : pc[d] \notin {"store", "max", "fill", "spread"}
<1>1. Ready /\ \A d \in Callers : pc[d] \notin Setting \ {"unlock"}
  BY Zenon, RunningFacts DEF SetupInv
<1> QED
  BY Zenon, <1>1, RunningFacts DEF Ready, Setting

(* A caller that takes no step, and one that is not in refresh(). *)
LEMMA CallerFramed ==
  ASSUME NEW d, CallerRate(d)
  PROVE  /\ /\ pc'[d] = pc[d] /\ tick'[d] = tick[d] /\ cur'[d] = cur[d]
            /\ i'[d] = i[d] /\ extra'[d] = extra[d] /\ new'[d] = new[d]
            /\ UNCHANGED <<amounts, start, max, limit>>
            => CallerRate(d)'
         /\ /\ pc'[d] \notin {"refresh", "sum", "cap", "cas", "take"}
            /\ pc[d] # "sum" /\ extra'[d] = extra[d]
            => CallerRate(d)'
BY Zenon DEF CallerRate

(* The steps of get_limiter() before anyone is served. *)
LEMMA RateSetup ==
  ASSUME IInv, IInv', SetupInv, master = "running", RateInv, NEW c \in Callers,
         \/ Lock(c) \/ StoreTokens(c) \/ StoreMax(c) \/ Fill(c) \/ Spread(c)
         \/ Unlock(c)
  PROVE  RateInv'
<1>1. /\ limit' = limit /\ tick' = tick /\ cur' = cur /\ i' = i
      /\ extra' = extra /\ new' = new /\ clock' = clock /\ granted' = granted
  BY Zenon DEF Lock, StoreTokens, StoreMax, Fill, Spread, Unlock, locals, ghosts
<1>2. pc \in [Callers -> Serving \cup Setting \cup {"start"}]
  BY Zenon DEF IInv, TypeOK, Setting
<1>3. limit.old \in Nat \ {0} /\ CurLimit = limit.old
  BY RunningFacts DEF IInv
<1>4. ASSUME pc[c] \in Setting
      PROVE  /\ mutex = {c} /\ LimitOf(c) = limit.old
             /\ \A d \in Callers : d # c => pc[d] \notin Setting
  BY Zenon, <1>4, RunningFacts DEF IInv, SetupInv, Setting
<1>5. ASSUME pc[c] \in Setting \ {"unlock"}
      PROVE  \A d \in Callers : pc[d] \notin Serving
  BY Zenon, <1>5, RunningFacts DEF IInv, SetupInv
<1>6. amounts \in [Periods -> Nat] /\ amounts' \in [Periods -> Nat]
  BY Zenon DEF IInv, TypeOK
<1>7. start \in Nat /\ clock \in Nat /\ tr.last \in Nat /\ tr.tokens \in Nat
  BY LimiterAssumption DEF IInv, TypeOK, Bucket
<1>8. ASSUME pc[c] \in Setting \ {"unlock"}, NEW l \in Setting,
             pc' = [pc EXCEPT ![c] = l], mutex' = mutex
      PROVE  /\ mutex' # {} /\ pc'[c] = l
             /\ \A d \in Callers : d # c => pc'[d] = "start"
             /\ \A d \in Callers : CallerRate(d)'
  <2>1. pc'[c] = l /\ \A d \in Callers : d # c => pc'[d] = "start"
    BY Zenon, <1>2, <1>4, <1>5, <1>8
  <2>2. \A d \in Callers : pc[d] # "sum" /\ pc'[d] \notin Serving
    BY Zenon, <1>5, <1>8, <2>1 DEF Serving, Setting
  <2>3. \A d \in Callers : CallerRate(d)'
    BY Zenon, <1>1, <2>2, CallerFramed DEF RateInv, Serving
  <2> QED
    BY Zenon, <1>4, <1>8, <2>1, <2>3
<1>9. CASE Lock(c)
  <2>1. /\ pc[c] = "start" /\ mutex = {} /\ max' = max /\ amounts' = amounts
        /\ pc' = [pc EXCEPT ![c] = IF max = 0 THEN "store" ELSE "unlock"]
        /\ tr' = tr /\ start' = start /\ mutex' = {c}
    BY Zenon, <1>9 DEF Lock, Goto, ghosts
  <2>2. /\ pc'[c] = IF max = 0 THEN "store" ELSE "unlock"
        /\ \A d \in Callers : d # c => pc'[d] = pc[d]
    BY Zenon, <1>2, <2>1
  <2>3. \A d \in Callers : CallerRate(d)'
    BY <1>1, <2>1, <2>2, CallerFramed DEF RateInv
  <2>4. ASSUME NEW d \in Callers
        PROVE  /\ pc'[d] = "store" => start' = 0
               /\ pc'[d] \in {"max", "fill", "spread"} =>
                    start' # 0 /\ granted' = 0 /\ tr'.last = start'
               /\ pc'[d] \in Serving => start' # 0
    BY <1>1, <2>1, <2>2 DEF RateInv, Serving
  <2> QED
    BY Zenon, <1>1, <2>1, <2>3, <2>4 DEF RateInv
<1>10. CASE StoreTokens(c)
  <2>1. /\ pc[c] = "store" /\ pc' = [pc EXCEPT ![c] = "max"] /\ mutex' = mutex
        /\ tr' = [tokens |-> LimitOf(c), last |-> clock] /\ start' = clock
        /\ max' = max /\ amounts' = amounts
    BY Zenon, <1>10 DEF StoreTokens, Goto
  <2>2. LimitOf(c) = limit.old /\ start = 0 /\ granted = 0 /\ max = 0
    BY Zenon, <1>4, <2>1 DEF RateInv, Setting
  <2>3. clock # 0
    BY Zenon DEF RateInv
  <2>4. /\ tr'.tokens = limit.old /\ tr'.last = clock
        /\ Supply(amounts', clock, clock) = 0
    BY Zenon, <1>6, <1>7, <2>1, <2>2, SupplyStart
  <2> QED
    BY <1>1, <1>3, <1>7, <1>8, <2>1, <2>2, <2>3, <2>4 DEF RateInv, Setting, Serving
<1>11. CASE StoreMax(c)
  <2>1. /\ pc[c] = "max" /\ pc' = [pc EXCEPT ![c] = "fill"] /\ mutex' = mutex
        /\ tr' = tr /\ start' = start /\ amounts' = amounts
    BY Zenon, <1>11 DEF StoreMax, Goto, ghosts
  <2>2. start # 0 /\ granted = 0 /\ tr.last = start
    BY Zenon, <2>1 DEF RateInv
  <2> QED
    BY Zenon, <1>1, <1>8, <2>1, <2>2 DEF RateInv, Setting, Serving
<1>12. CASE Fill(c) \/ Spread(c)
  <2>1. PICK l \in {"spread", "unlock"} : pc' = [pc EXCEPT ![c] = l]
    BY Zenon, <1>12 DEF Fill, Spread, Goto
  <2>2. /\ pc[c] \in {"fill", "spread"} /\ mutex' = mutex /\ max' = max
        /\ tr' = tr /\ start' = start
    BY Zenon, <1>12 DEF Fill, Spread, ghosts
  <2>3. start # 0 /\ granted = 0 /\ tr.last = start /\ max # 0
    BY Zenon, <1>3, <2>2 DEF RateInv, SetupInv
  <2>4. Supply(amounts', start, start) = 0 /\ Supply(amounts, start, start) = 0
    BY Zenon, <1>6, <1>7, SupplyStart
  <2>5. /\ mutex' # {} /\ pc'[c] = l
        /\ \A d \in Callers : d # c => pc'[d] = "start"
        /\ \A d \in Callers : CallerRate(d)'
    <3>1. l \in Setting /\ pc[c] \in Setting \ {"unlock"}
      BY Zenon, <2>2 DEF Setting
    <3> QED
      BY Zenon, <1>8, <2>1, <2>2, <3>1
  <2>6. ASSUME NEW d \in Callers
        PROVE  pc'[d] \notin Serving \cup {"store"}
    BY Zenon, <2>1, <2>5 DEF Serving
  <2> QED
    BY Zenon, <1>1, <2>2, <2>3, <2>4, <2>5, <2>6 DEF RateInv
<1>13. CASE Unlock(c)
  <2>1. /\ pc[c] = "unlock" /\ pc' = [pc EXCEPT ![c] = "idle"] /\ max' = max
        /\ tr' = tr /\ start' = start /\ amounts' = amounts
    BY Zenon, <1>13 DEF Unlock, Goto, ghosts
  <2>2. pc'[c] = "idle" /\ \A d \in Callers : d # c => pc'[d] = pc[d]
    BY Zenon, <1>2, <2>1
  <2>3. max # 0 /\ start # 0
    BY Zenon, <1>3, <2>1 DEF RateInv, SetupInv, Ready
  <2>4. \A d \in Callers : CallerRate(d)'
    BY Zenon, <1>1, <2>1, <2>2, CallerFramed DEF RateInv
  <2>5. ASSUME NEW d \in Callers
        PROVE  /\ pc'[d] = "store" => start' = 0
               /\ pc'[d] \in {"max", "fill", "spread"} =>
                    start' # 0 /\ granted' = 0 /\ tr'.last = start'
               /\ pc'[d] \in Serving => start' # 0
    BY Zenon, <1>1, <2>1, <2>2, <2>3 DEF RateInv, Serving
  <2> QED
    BY Zenon, <1>1, <2>1, <2>3, <2>4, <2>5 DEF RateInv
<1> QED
  BY Zenon, <1>9, <1>10, <1>11, <1>12, <1>13


(* The locals of the other callers are what they were. *)
OthersStay(c) ==
  \A d \in Callers \ {c} : /\ tick'[d] = tick[d] /\ cur'[d] = cur[d]
                           /\ i'[d] = i[d] /\ extra'[d] = extra[d]
                           /\ new'[d] = new[d]

(* A step of refresh() or allow(): the others are where they were, so it   *)
(* is enough to look at the caller and the bucket.                         *)
LEMMA RateServed ==
  ASSUME IInv, SetupInv, master = "running", RateInv, NEW c \in Callers,
         NEW l \in Serving, pc[c] \in Serving, pc' = [pc EXCEPT ![c] = l],
         UNCHANGED <<clock, max, amounts, mutex, limit, start>>, OthersStay(c),
         start <= tr'.last, tr'.tokens <= limit.old,
         granted' + tr'.tokens <= limit.old + Supply(amounts, start, tr'.last),
         CallerRate(c)'
  PROVE  RateInv'
<1>1. pc \in [Callers -> Serving \cup Setting \cup {"start"}]
  BY Zenon DEF IInv, TypeOK, Setting
<1>2. pc'[c] = l /\ \A d \in Callers \ {c} : pc'[d] = pc[d]
  BY Zenon, <1>1
<1>3. start # 0
  BY Zenon DEF RateInv
<1>4. \A d \in Callers : pc[d] \notin {"store", "max", "fill", "spread"}
  BY Zenon, ServingReady DEF IInv
<1>5. \A d \in Callers : pc'[d] \notin {"store", "max", "fill", "spread"}
  BY Zenon, <1>2, <1>4 DEF Serving
<1>6. \A d \in Callers : CallerRate(d)'
  BY Zenon, <1>2, CallerFramed DEF RateInv, OthersStay
<1> QED
  BY Zenon, <1>3, <1>5, <1>6 DEF RateInv

(* One round of the loop of refresh(). *)
LEMMA RateSum ==
  ASSUME IInv, SetupInv, master = "running", RateInv, NEW c \in Callers, Sum(c)
  PROVE  RateInv'
<1> DEFINE last == cur[c].last
           amount == amounts[(last + i[c]) % RefreshesPerMin]
           supply(t) == Supply(amounts, start, t)
<1>1. /\ pc[c] = "sum" /\ More(c) /\ pc' = pc
      /\ extra' = [extra EXCEPT ![c] = (extra[c] + amount) % Word]
      /\ i' = [i EXCEPT ![c] = i[c] + 1]
      /\ UNCHANGED <<clock, tr, max, amounts, mutex, limit, start, granted>>
      /\ UNCHANGED <<tick, cur, new>>
  BY Zenon DEF Sum, shared, ghosts
<1>2. /\ pc \in [Callers -> Serving \cup Setting \cup {"start"}]
      /\ extra \in [Callers -> Nat] /\ i \in [Callers -> Nat]
      /\ amounts \in [Periods -> Nat] /\ start \in Nat
  BY Zenon DEF IInv, TypeOK, Setting
<1>3. last \in Nat /\ tick[c] \in Nat /\ i[c] \in Nat /\ extra[c] \in Nat
  BY Zenon DEF IInv, TypeOK, Bucket
<1>4. /\ i[c] > 0 /\ start <= last /\ last + i[c] <= tick[c]
      /\ extra[c] + supply(last) <= supply(last + i[c] - 1)
  BY Zenon, <1>1 DEF RateInv, CallerRate, More
<1>5. amount \in Nat
  BY <1>2, <1>3, ModFacts
<1>6. (extra[c] + amount) % Word <= extra[c] + amount
      /\ (extra[c] + amount) % Word \in Nat
  <2>1. extra[c] + amount \in Nat
    BY <1>3, <1>5
  <2> QED
    BY Zenon, <2>1, ModBelow
<1>7. /\ supply(last + i[c]) = supply(last + i[c] - 1) + amount
      /\ supply(last) \in Nat /\ supply(last + i[c] - 1) \in Nat
  <2> DEFINE t == last + i[c] - 1
  <2>1. t \in Nat /\ start <= t /\ t + 1 = last + i[c]
    BY <1>2, <1>3, <1>4
  <2> HIDE DEF t
  <2>2. /\ Supply(amounts, start, t + 1) = Supply(amounts, start, t)
             + amounts[(t + 1) % RefreshesPerMin]
        /\ Supply(amounts, start, t) \in Nat
    BY Zenon, <1>2, <2>1, SupplyFacts
  <2>3. Supply(amounts, start, last) \in Nat
    BY Zenon, <1>2, <1>3, <1>4, SupplyFacts
  <2> QED
    BY Zenon, <2>1, <2>2, <2>3 DEF t
<1>8. /\ extra'[c] = (extra[c] + amount) % Word /\ i'[c] = i[c] + 1
      /\ \A d \in Callers \ {c} : extra'[d] = extra[d] /\ i'[d] = i[d]
  BY Zenon, <1>1, <1>2
<1> HIDE DEF last, amount, supply
<1>9. extra'[c] + supply(last) <= supply(last + i[c])
  BY <1>3, <1>4, <1>5, <1>6, <1>7, <1>8
<1>10. last + i'[c] - 1 = last + i[c] /\ i'[c] > 0 /\ last + i'[c] <= tick[c] + 1
  BY <1>3, <1>4, <1>8
<1>11. CallerRate(c)'
  <2>1. extra'[c] + Supply(amounts, start, cur[c].last)
          <= Supply(amounts, start, cur[c].last + i'[c] - 1)
    BY Zenon, <1>9, <1>10 DEF supply, last
  <2> QED
    BY Zenon, <1>1, <1>10, <2>1 DEF RateInv, CallerRate, last
<1>12. \A d \in Callers : CallerRate(d)'
  BY Zenon, <1>1, <1>8, <1>11, CallerFramed DEF RateInv
<1> QED
  BY Zenon, <1>1, <1>12 DEF RateInv

(* The steps of refresh() outside of the loop. *)
LEMMA RateRefresh ==
  ASSUME IInv, SetupInv, master = "running", RateInv, NEW c \in Callers,
         \/ NowTick(c) \/ Load(c) \/ Refresh(c) \/ SetNew(c) \/ Cap(c)
         \/ CasRefresh(c)
  PROVE  RateInv'
<1> DEFINE supply(t) == Supply(amounts, start, t)
<1>1. /\ pc[c] \in Serving
      /\ UNCHANGED <<clock, max, amounts, mutex, limit, start, granted>>
  BY Zenon DEF NowTick, Load, Refresh, SetNew, Cap, NewVal, CasRefresh, shared, ghosts,
         Serving
<1>2. /\ pc \in [Callers -> Serving \cup Setting \cup {"start"}]
      /\ tick \in [Callers -> Nat] /\ cur \in [Callers -> Bucket]
      /\ i \in [Callers -> Nat] /\ extra \in [Callers -> Nat]
      /\ new \in [Callers -> Bucket] /\ amounts \in [Periods -> Nat]
      /\ start \in Nat /\ tr \in Bucket /\ limit.old \in Nat /\ granted \in Nat
  BY Zenon, RunningFacts DEF IInv, TypeOK, Setting
<1>3. /\ cur[c].last \in Nat /\ cur[c].tokens \in Nat /\ tr.last \in Nat
      /\ tr.tokens \in Nat /\ new[c].tokens \in Nat /\ new[c].last \in Nat
      /\ tick[c] \in Nat /\ extra[c] \in Nat /\ i[c] \in Nat
  BY <1>2, LimiterAssumption DEF Bucket
<1>4. max = limit.old
  BY Zenon, <1>1, ServingReady DEF IInv
<1>5. /\ start # 0 /\ start <= tr.last /\ tr.tokens <= limit.old
      /\ granted + tr.tokens <= limit.old + Supply(amounts, start, tr.last)
      /\ CallerRate(c)
  BY Zenon, <1>1 DEF RateInv
<1> USE DEF OthersStay
<1>6. CASE NowTick(c)
  <2>1. /\ pc' = [pc EXCEPT ![c] = "load"] /\ tick' = [tick EXCEPT ![c] = clock]
        /\ UNCHANGED <<tr, cur, i, extra, new>> /\ pc[c] = "idle"
    BY Zenon, <1>6 DEF NowTick, Goto, shared
  <2>2. CallerRate(c)' /\ OthersStay(c) /\ "load" \in Serving
    BY Zenon, <1>2, <2>1, <1>5 DEF CallerRate, Serving
  <2> QED
    BY Zenon, <1>1, <1>5, <2>1, <2>2, RateServed
<1>7. CASE Load(c)
  <2>1. /\ pc' = [pc EXCEPT ![c] = "refresh"] /\ cur' = [cur EXCEPT ![c] = tr]
        /\ UNCHANGED <<tr, tick, i, extra, new>> /\ pc[c] = "load"
    BY Zenon, <1>7 DEF Load, Goto, shared
  <2>2. CallerRate(c)' /\ OthersStay(c) /\ "refresh" \in Serving
    BY Zenon, <1>1, <1>2, <1>5, <2>1 DEF CallerRate, Serving
  <2> QED
    BY Zenon, <1>1, <1>5, <2>1, <2>2, RateServed
<1>8. CASE Refresh(c)
  <2>1. UNCHANGED <<tr, tick, cur, extra, new>> /\ pc[c] = "refresh"
    BY Zenon, <1>8 DEF Refresh, shared
  <2>2. CASE /\ tick[c] > cur[c].last /\ i' = [i EXCEPT ![c] = 1]
             /\ pc' = [pc EXCEPT ![c] = "sum"]
    <3>1. /\ i'[c] = 1 /\ pc'[c] = "sum" /\ OthersStay(c) /\ "sum" \in Serving
      BY Zenon, <1>2, <2>1, <2>2 DEF Serving
    <3>2. extra[c] = 0 /\ start <= cur[c].last /\ cur[c].tokens <= limit.old
      BY Zenon, <1>5, <2>1 DEF CallerRate
    <3>3. supply(cur[c].last) \in Nat
      BY Zenon, <1>2, <1>3, <3>2, SupplyFacts
    <3>4. extra[c] + supply(cur[c].last) <= supply(cur[c].last + 1 - 1)
      <4>1. cur[c].last + 1 - 1 = cur[c].last
        BY <1>3
      <4> QED
        BY <3>2, <3>3, <4>1
    <3>5. cur[c].last + 1 <= tick[c] + 1
      BY <1>3, <2>2
    <3>6. CallerRate(c)'
      BY <1>1, <2>1, <3>1, <3>2, <3>4, <3>5 DEF CallerRate
    <3> QED
      BY Zenon, <1>1, <1>5, <2>1, <2>2, <3>1, <3>6, RateServed
  <2>3. CASE i' = i /\ pc' = [pc EXCEPT ![c] = "take"]
    <3>1. CallerRate(c)' /\ OthersStay(c) /\ "take" \in Serving
      BY Zenon, <1>1, <1>2, <1>5, <2>1, <2>3 DEF CallerRate, Serving
    <3> QED
      BY Zenon, <1>1, <1>5, <2>1, <2>3, <3>1, RateServed
  <2> QED
    BY Zenon, <1>8, <2>2, <2>3 DEF Refresh, Goto
<1>9. ASSUME NEW tokens, NEW l \in Serving, NewVal(c, tokens, l),
             pc[c] \in {"sum", "cap"}, l \in {"cap", "cas"},
             l = "cap" => tokens > max, l = "cas" => tokens <= limit.old,
             tokens + supply(cur[c].last) <= cur[c].tokens + supply(tick[c])
      PROVE  RateInv'
  <2>1. /\ new' = [new EXCEPT ![c] = [tokens |-> tokens, last |-> tick[c]]]
        /\ i' = [i EXCEPT ![c] = 0] /\ extra' = [extra EXCEPT ![c] = 0]
        /\ pc' = [pc EXCEPT ![c] = l] /\ UNCHANGED <<tr, tick, cur>>
    BY Zenon, <1>9 DEF NewVal, Goto, shared
  <2>2. OthersStay(c) /\ extra'[c] = 0 /\ new'[c].tokens = tokens /\ pc'[c] = l
    BY Zenon, <1>2, <2>1
  <2>3. start <= cur[c].last /\ cur[c].tokens <= limit.old
    BY Zenon, <1>5, <1>9 DEF CallerRate
  <2>4. CallerRate(c)'
    BY Zenon, <1>1, <1>9, <2>1, <2>2, <2>3 DEF CallerRate
  <2> QED
    BY Zenon, <1>1, <1>5, <1>9, <2>1, <2>2, <2>4, RateServed
<1>10. CASE SetNew(c)
  <2> DEFINE sum == (cur[c].tokens + extra[c]) % Word
  <2>1. /\ pc[c] = "sum" /\ NewVal(c, sum, IF sum > max THEN "cap" ELSE "cas")
    BY Zenon, <1>10 DEF SetNew
  <2>2. cur[c].tokens + extra[c] \in Nat
    BY <1>3
  <2>3. sum \in Nat /\ sum <= cur[c].tokens + extra[c]
    BY Zenon, <2>2, ModBelow
  <2>4. /\ i[c] > 0 /\ cur[c].last + i[c] <= tick[c] + 1 /\ start <= cur[c].last
        /\ extra[c] + supply(cur[c].last) <= supply(cur[c].last + i[c] - 1)
    BY Zenon, <1>5, <2>1 DEF CallerRate
  <2>5. /\ supply(cur[c].last + i[c] - 1) <= supply(tick[c])
        /\ supply(cur[c].last + i[c] - 1) \in Nat /\ supply(tick[c]) \in Nat
        /\ supply(cur[c].last) \in Nat
    <3>1. /\ cur[c].last + i[c] - 1 \in start .. tick[c] /\ start <= tick[c]
          /\ cur[c].last \in start .. tick[c]
      BY <1>2, <1>3, <2>4
    <3> QED
      BY Zenon, <1>2, <1>3, <3>1, SupplyFacts
  <2> HIDE DEF sum, supply
  <2>6. sum + supply(cur[c].last) <= cur[c].tokens + supply(tick[c])
    BY <1>3, <2>3, <2>4, <2>5
  <2>7. PICK l : l = IF sum > max THEN "cap" ELSE "cas"
    BY Zenon
  <2>8. /\ l \in Serving /\ l \in {"cap", "cas"} /\ (l = "cap" => sum > max)
        /\ l = "cas" => sum <= limit.old
    BY <1>2, <1>4, <2>3, <2>7 DEF Serving
  <2>9. pc[c] \in {"sum", "cap"}
    BY Zenon, <2>1
  <2> QED
    BY Zenon, <1>9, <2>1, <2>3, <2>6, <2>7, <2>8, <2>9
<1>11. CASE Cap(c)
  <2>1. pc[c] = "cap" /\ NewVal(c, max, "cas")
    BY Zenon, <1>11 DEF Cap
  <2>2. /\ new[c].tokens + supply(cur[c].last) <= cur[c].tokens + supply(tick[c])
        /\ new[c].tokens > max /\ start <= cur[c].last
    BY Zenon, <1>5, <2>1 DEF CallerRate
  <2>3. cur[c].last < tick[c]
    BY Zenon, <2>1 DEF IInv, CallerInv
  <2>4. start <= tick[c]
    BY <1>2, <1>3, <2>2, <2>3
  <2>5. supply(cur[c].last) \in Nat /\ supply(tick[c]) \in Nat
    BY Zenon, <1>2, <1>3, <2>2, <2>4, SupplyFacts
  <2> HIDE DEF supply
  <2>6. max + supply(cur[c].last) <= cur[c].tokens + supply(tick[c])
    BY <1>2, <1>3, <1>4, <2>2, <2>5
  <2>7. "cas" \in Serving /\ "cas" \in {"cap", "cas"} /\ pc[c] \in {"sum", "cap"}
    BY Zenon, <2>1 DEF Serving
  <2>8. ("cas" = "cap" => max > max) /\ max <= limit.old
    BY <1>2, <1>4
  <2> QED
    BY Zenon, <1>9, <2>1, <2>6, <2>7, <2>8
<1>12. CASE CasRefresh(c)
  <2>1. /\ pc[c] = "cas" /\ new' = [new EXCEPT ![c] = Empty]
        /\ UNCHANGED <<tick, i, extra>>
    BY Zenon, <1>12 DEF CasRefresh
  <2>2. /\ extra[c] = 0 /\ start <= cur[c].last /\ cur[c].tokens <= limit.old
        /\ new[c].tokens + supply(cur[c].last)
             <= cur[c].tokens + supply(tick[c])
    BY Zenon, <1>5, <2>1 DEF CallerRate
  <2>3. CASE /\ tr = cur[c] /\ tr' = new[c] /\ cur' = [cur EXCEPT ![c] = new[c]]
             /\ pc' = [pc EXCEPT ![c] = "take"]
    <3>1. new[c].last = tick[c] /\ tick[c] > cur[c].last
      BY Zenon, <2>1 DEF IInv, CallerInv
    <3>2. new[c].tokens <= limit.old
      BY Zenon, <1>5, <2>1 DEF CallerRate
    <3>3. /\ OthersStay(c) /\ "take" \in Serving /\ cur'[c] = new[c]
          /\ pc'[c] = "take"
      BY Zenon, <1>2, <2>1, <2>3 DEF Serving
    <3>4. start <= new[c].last
      BY <1>2, <1>3, <2>2, <3>1
    <3>5. CallerRate(c)'
      BY Zenon, <1>1, <2>1, <2>2, <2>3, <3>2, <3>3, <3>4 DEF CallerRate
    <3>6. supply(cur[c].last) \in Nat /\ supply(tick[c]) \in Nat
      BY Zenon, <1>2, <1>3, <2>2, <3>1, <3>4, SupplyFacts
    <3>7. granted + cur[c].tokens <= limit.old + supply(cur[c].last)
      BY Zenon, <1>5, <2>3
    <3> HIDE DEF supply
    <3>8. granted + new[c].tokens <= limit.old + supply(tick[c])
      BY <1>2, <1>3, <2>2, <3>6, <3>7
    <3> QED
      BY Zenon, <1>1, <2>3, <3>1, <3>2, <3>3, <3>4, <3>5, <3>8, RateServed
         DEF supply
  <2>4. CASE /\ tr' = tr /\ cur' = [cur EXCEPT ![c] = tr]
             /\ pc' = [pc EXCEPT ![c] = "refresh"]
    <3>1. /\ OthersStay(c) /\ "refresh" \in Serving /\ cur'[c] = tr
          /\ pc'[c] = "refresh"
      BY Zenon, <1>2, <2>1, <2>4 DEF Serving
    <3>2. CallerRate(c)'
      BY Zenon, <1>1, <1>5, <2>1, <2>2, <3>1 DEF CallerRate
    <3> QED
      BY Zenon, <1>1, <1>5, <2>4, <3>1, <3>2, RateServed
  <2> QED
    BY Zenon, <1>12, <2>3, <2>4 DEF CasRefresh, Goto
<1> QED
  BY Zenon, <1>6, <1>7, <1>8, <1>10, <1>11, <1>12

(* The steps of allow() take tokens only. *)
LEMMA RateTake ==
  ASSUME IInv, SetupInv, master = "running", RateInv, NEW c \in Callers,
         Take(c) \/ Deny(c)
  PROVE  RateInv'
<1>1. /\ pc[c] = "take" /\ pc[c] \in Serving
      /\ UNCHANGED <<clock, max, amounts, mutex, limit, start, i, extra, new>>
  BY Zenon DEF Take, Deny, shared, ghosts, Serving
<1>2. /\ pc \in [Callers -> Serving \cup Setting \cup {"start"}]
      /\ tick \in [Callers -> Nat] /\ cur \in [Callers -> Bucket]
      /\ tr \in Bucket /\ limit.old \in Nat /\ granted \in Nat
      /\ start \in Nat /\ amounts \in [Periods -> Nat]
  BY Zenon, RunningFacts DEF IInv, TypeOK, Setting
<1>3. tr.last \in Nat /\ tr.tokens \in Nat
  BY <1>2, LimiterAssumption DEF Bucket
<1>4. /\ start # 0 /\ start <= tr.last /\ tr.tokens <= limit.old
      /\ granted + tr.tokens <= limit.old + Supply(amounts, start, tr.last)
      /\ CallerRate(c) /\ extra[c] = 0
  BY Zenon, <1>1 DEF RateInv, CallerRate
<1>5. ASSUME Return(c)
      PROVE  /\ pc' = [pc EXCEPT ![c] = "idle"] /\ OthersStay(c)
             /\ CallerRate(c)' /\ "idle" \in Serving
  <2>1. /\ pc' = [pc EXCEPT ![c] = "idle"] /\ tick' = [tick EXCEPT ![c] = 0]
        /\ cur' = [cur EXCEPT ![c] = Empty]
    BY Zenon, <1>5 DEF Return, Goto
  <2>2. OthersStay(c) /\ pc'[c] = "idle" /\ "idle" \in Serving
    BY Zenon, <1>1, <1>2, <2>1 DEF OthersStay, Serving
  <2> QED
    BY Zenon, <1>1, <1>4, <2>1, <2>2 DEF CallerRate
<1>6. CASE Deny(c)
  <2>1. Return(c) /\ tr' = tr /\ granted' = granted
    BY Zenon, <1>6 DEF Deny, shared, ghosts
  <2> QED
    BY Zenon, <1>1, <1>4, <1>5, <2>1, RateServed
<1>7. CASE /\ tr = cur[c] /\ granted' = granted + 1 /\ Return(c)
           /\ tr' = [tokens |-> cur[c].tokens - 1, last |-> cur[c].last]
  <2>1. tr'.tokens = tr.tokens - 1 /\ tr'.last = tr.last
    BY Zenon, <1>7
  <2>2. Supply(amounts, start, tr.last) \in Nat
    BY Zenon, <1>2, <1>3, <1>4, SupplyFacts
  <2>3. /\ granted' + tr'.tokens <= limit.old + Supply(amounts, start, tr'.last)
        /\ tr'.tokens <= limit.old /\ start <= tr'.last
    BY <1>2, <1>3, <1>4, <1>7, <2>1, <2>2
  <2> QED
    BY Zenon, <1>1, <1>5, <1>7, <2>3, RateServed
<1>8. CASE cur' = [cur EXCEPT ![c] = tr] /\ UNCHANGED <<pc, tick, tr, granted>>
  <2>1. OthersStay(c) /\ cur'[c] = tr /\ pc' = [pc EXCEPT ![c] = "take"]
    BY Zenon, <1>1, <1>2, <1>8 DEF OthersStay
  <2>2. CallerRate(c)' /\ "take" \in Serving
    BY Zenon, <1>1, <1>4, <1>8, <2>1 DEF CallerRate
  <2> QED
    BY Zenon, <1>1, <1>4, <1>8, <2>1, <2>2, RateServed
<1> QED
  BY Zenon, <1>6, <1>7, <1>8 DEF Take

(* Without overflow the loop collects less than two minutes' tokens, and   *)
(* the sum with the tokens that were left is what new_val says.            *)
LEMMA AddsStep ==
  ASSUME IInv, SetupInv, master = "running", RateInv, NoOverflow, AddsInv,
         NEW c \in Callers, Caller(c)
  PROVE  AddsInv'
<1>1. /\ limit.old \in Nat \ {0} /\ 3 * limit.old <= Word /\ limit' = limit
      /\ Word \in Nat
  <2>1. limit.old \in Limits /\ limit.old \in 1 .. Word - 1 /\ Word \in Nat
    BY Zenon, RunningFacts, LimiterAssumption DEF IInv, TypeOK
  <2>2. limit' = limit
    BY Zenon DEF Caller, Lock, StoreTokens, StoreMax, Fill, Spread, Unlock, NowTick,
           Load, Refresh, Sum, SetNew, Cap, NewVal, CasRefresh, Take, Deny
  <2> QED
    BY <2>1, <2>2 DEF NoOverflow
<1>2. /\ pc \in [Callers -> Serving \cup Setting \cup {"start"}]
      /\ tick \in [Callers -> Nat] /\ cur \in [Callers -> Bucket]
      /\ i \in [Callers -> Nat] /\ extra \in [Callers -> Nat]
      /\ new \in [Callers -> Bucket]
  BY Zenon DEF IInv, TypeOK, Setting
<1>3. /\ cur[c].last \in Nat /\ cur[c].tokens \in Nat /\ extra[c] \in Nat
      /\ i[c] \in Nat
  BY <1>2, LimiterAssumption DEF Bucket
<1>4. ASSUME NEW l, pc' = [pc EXCEPT ![c] = l], OthersStay(c),
             l = "sum" => extra'[c] < 2 * limit.old,
             l = "cas" => new'[c].tokens >= cur'[c].tokens
      PROVE  AddsInv'
  <2>1. pc'[c] = l /\ \A d \in Callers \ {c} : pc'[d] = pc[d]
    BY Zenon, <1>2, <1>4
  <2> QED
    BY Zenon, <1>1, <1>4, <2>1 DEF AddsInv, OthersStay
<1>5. CASE \/ Lock(c) \/ StoreTokens(c) \/ StoreMax(c) \/ Fill(c) \/ Spread(c)
           \/ Unlock(c)
  <2>1. /\ UNCHANGED locals
        /\ \E l \in Setting \cup {"idle"} : pc' = [pc EXCEPT ![c] = l]
    BY Zenon, <1>5 DEF Lock, StoreTokens, StoreMax, Fill, Spread, Unlock, Goto, Setting
  <2>2. OthersStay(c)
    BY Zenon, <2>1 DEF OthersStay, locals
  <2>3. "sum" \notin Setting \cup {"idle"} /\ "cas" \notin Setting \cup {"idle"}
    BY Zenon DEF Setting
  <2> QED
    BY Zenon, <1>4, <2>1, <2>2, <2>3
<1>6. CASE NowTick(c) \/ Load(c) \/ CasRefresh(c) \/ Take(c) \/ Deny(c)
  <2>1. \E l \in {"load", "refresh", "take", "idle"} : pc' = [pc EXCEPT ![c] = l]
    BY Zenon, <1>2, <1>6 DEF NowTick, Load, CasRefresh, Take, Deny, Return, Goto
  <2>2. OthersStay(c)
    BY Zenon, <1>2, <1>6 DEF NowTick, Load, CasRefresh, Take, Deny, Return, OthersStay
  <2>3. /\ "sum" \notin {"load", "refresh", "take", "idle"}
        /\ "cas" \notin {"load", "refresh", "take", "idle"}
    BY Zenon
  <2> QED
    BY Zenon, <1>4, <2>1, <2>2, <2>3
<1>7. CASE Refresh(c)
  <2>1. \E l \in {"sum", "take"} : pc' = [pc EXCEPT ![c] = l]
    BY Zenon, <1>7 DEF Refresh, Goto
  <2>2. OthersStay(c) /\ extra' = extra /\ pc[c] = "refresh"
    BY Zenon, <1>2, <1>7 DEF Refresh, OthersStay
  <2>3. extra'[c] < 2 * limit.old
    <3>1. extra'[c] = 0
      BY Zenon, <2>2 DEF RateInv, CallerRate
    <3> QED BY <1>1, <3>1
  <2>4. "cas" \notin {"sum", "take"}
    BY Zenon
  <2> QED
    BY Zenon, <1>4, <2>1, <2>2, <2>3, <2>4
<1>8. ASSUME pc[c] \in {"sum", "cap"}
      PROVE  /\ max = limit.old /\ amounts = Distribution(limit.old)
             /\ cur[c].tokens <= limit.old
  BY Zenon, <1>8, ServingReady DEF IInv, Serving, RateInv, CallerRate
<1>9. CASE Sum(c)
  <2> DEFINE amount == amounts[(cur[c].last + i[c]) % RefreshesPerMin]
  <2>1. /\ pc[c] = "sum" /\ extra[c] < max /\ pc' = pc
        /\ extra' = [extra EXCEPT ![c] = (extra[c] + amount) % Word]
        /\ i' = [i EXCEPT ![c] = i[c] + 1] /\ UNCHANGED <<tick, cur, new>>
    BY Zenon, <1>9 DEF Sum, More
  <2>2. amount \in Nat /\ amount <= limit.old
    <3>1. (cur[c].last + i[c]) % RefreshesPerMin \in Periods
      BY <1>3, ModFacts
    <3>2. amounts = Distribution(limit.old)
      BY Zenon, <1>8, <2>1
    <3> QED
      BY Zenon, <1>1, <3>1, <3>2, DistributionEven
  <2>3. extra[c] + amount \in Nat
    BY <1>3, <2>2
  <2>4. (extra[c] + amount) % Word <= extra[c] + amount
        /\ (extra[c] + amount) % Word \in Nat
    BY Zenon, <2>3, ModBelow
  <2>5. OthersStay(c) /\ extra'[c] = (extra[c] + amount) % Word
    BY Zenon, <1>2, <2>1 DEF OthersStay
  <2> HIDE DEF amount
  <2>6. extra'[c] < 2 * limit.old
    BY <1>1, <1>3, <1>8, <2>1, <2>2, <2>4, <2>5
  <2>7. pc' = [pc EXCEPT ![c] = "sum"] /\ "sum" # "cas"
    BY Zenon, <1>2, <2>1
  <2> QED
    BY Zenon, <1>4, <2>5, <2>6, <2>7
<1>10. ASSUME NEW tokens, NEW l \in {"cap", "cas"}, NewVal(c, tokens, l),
              l = "cas" => tokens >= cur[c].tokens
       PROVE  AddsInv'
  <2>1. /\ new' = [new EXCEPT ![c] = [tokens |-> tokens, last |-> tick[c]]]
        /\ i' = [i EXCEPT ![c] = 0] /\ extra' = [extra EXCEPT ![c] = 0]
        /\ pc' = [pc EXCEPT ![c] = l] /\ UNCHANGED <<tick, cur>>
    BY Zenon, <1>10 DEF NewVal, Goto
  <2>2. OthersStay(c) /\ new'[c].tokens = tokens /\ l # "sum"
    BY Zenon, <1>2, <2>1 DEF OthersStay
  <2> QED
    BY Zenon, <1>4, <1>10, <2>1, <2>2
<1>11. CASE SetNew(c)
  <2> DEFINE sum == (cur[c].tokens + extra[c]) % Word
  <2>1. /\ pc[c] = "sum" /\ NewVal(c, sum, IF sum > max THEN "cap" ELSE "cas")
    BY Zenon, <1>11 DEF SetNew
  <2>2. extra[c] < 2 * limit.old /\ cur[c].tokens <= limit.old
    BY Zenon, <1>8, <2>1 DEF AddsInv
  <2>3. cur[c].tokens + extra[c] \in Nat /\ cur[c].tokens + extra[c] < Word
    BY <1>1, <1>3, <2>2
  <2>4. sum = cur[c].tokens + extra[c]
    BY Zenon, <2>3, ModBelow
  <2>5. sum >= cur[c].tokens
    BY <1>3, <2>4
  <2>6. PICK l : l = IF sum > max THEN "cap" ELSE "cas"
    BY Zenon
  <2>7. l \in {"cap", "cas"}
    BY Zenon, <2>6
  <2> HIDE DEF sum
  <2> QED
    BY Zenon, <1>10, <2>1, <2>5, <2>6, <2>7
<1>12. CASE Cap(c)
  <2>1. pc[c] = "cap" /\ NewVal(c, max, "cas")
    BY Zenon, <1>12 DEF Cap
  <2>2. max >= cur[c].tokens /\ "cas" \in {"cap", "cas"}
    BY Zenon, <1>1, <1>3, <1>8, <2>1
  <2> QED
    BY Zenon, <1>10, <2>1, <2>2
<1> QED
  BY Zenon, <1>5, <1>6, <1>7, <1>9, <1>11, <1>12 DEF Caller

(* Nobody has called get_limiter() yet. *)
LEMMA LimiterStart == Init => LimiterInv
<1> SUFFICES ASSUME Init PROVE LimiterInv
  BY Zenon
<1>1. /\ \A c \in Callers : pc[c] = "start" /\ extra[c] = 0
      /\ max = 0 /\ clock = StartTick /\ start = 0
      /\ tr = Empty /\ granted = 0 /\ mutex = {}
  BY Zenon DEF Init
<1>2. "start" \notin Serving
  BY Zenon DEF Serving
<1>3. RateInv
  BY <1>1, <1>2, LimiterAssumption DEF RateInv, CallerRate
<1>4. AddsInv
  BY Zenon, <1>1 DEF AddsInv
<1> QED
  BY Zenon, <1>3, <1>4, IInvInit, SetupInit DEF LimiterInv

(* The clock changes nothing but the time. *)
LEMMA RateTick ==
  ASSUME IInv, RateInv, Tick
  PROVE  RateInv'
<1>1. /\ clock \in Nat /\ clock' = clock + 1 /\ start \in Nat
      /\ UNCHANGED <<shared, master, limit, pc, locals, ghosts>>
  BY Zenon DEF Tick, IInv, TypeOK
<1>2. \A c \in Callers : CallerRate(c)'
  BY Zenon, <1>1, CallerFramed DEF RateInv, shared, locals, ghosts
<1>3. clock' # 0 /\ (start <= clock => start' <= clock')
  BY <1>1 DEF ghosts
<1> QED
  BY Zenon, <1>1, <1>2, <1>3 DEF RateInv, shared, locals, ghosts

(* Every step preserves the whole invariant. *)
LEMMA LimiterNext == LimiterInv /\ [Next]_vars => LimiterInv'
<1> SUFFICES ASSUME LimiterInv, [Next]_vars PROVE LimiterInv'
  BY Zenon
<1>1. IInv /\ SetupInv /\ IInv' /\ SetupInv'
  BY Zenon, IInvNext, SetupNext DEF LimiterInv
<1>2. SUFFICES ASSUME master' = "running"
               PROVE  RateInv' /\ (NoOverflow => AddsInv')
  BY Zenon, <1>1 DEF LimiterInv
<1>3. ASSUME master = "running" PROVE RateInv /\ (NoOverflow => AddsInv)
  BY Zenon, <1>3 DEF LimiterInv
<1>4. CASE Tick
  <2>1. master = "running" /\ AddsInv' = AddsInv
    BY Zenon, <1>2, <1>4 DEF Tick, AddsInv, locals
  <2> QED
    BY Zenon, <1>1, <1>3, <1>4, <2>1, RateTick
<1>5. ASSUME NEW c \in Callers, Caller(c)
      PROVE  RateInv' /\ (NoOverflow => AddsInv')
  <2>1. master = "running"
    BY Zenon, <1>2, <1>5 DEF Caller, Lock, StoreTokens, StoreMax, Fill, Spread, Unlock,
                      NowTick, Load, Refresh, Sum, SetNew, Cap, NewVal,
                      CasRefresh, Take, Deny
  <2>2. RateInv'
    BY Zenon, <1>1, <1>3, <1>5, <2>1, RateSetup, RateRefresh, RateSum, RateTake
       DEF Caller
  <2> QED
    BY Zenon, <1>1, <1>3, <1>5, <2>1, <2>2, AddsStep
<1>6. CASE ZeroTokens \/ ZeroMax \/ ZeroAmounts
  BY Zenon, <1>2, <1>6 DEF ZeroTokens, ZeroMax, ZeroAmounts
<1>7. CASE UNCHANGED vars
  <2>1. RateInv' = RateInv /\ AddsInv' = AddsInv /\ master' = master
    BY <1>7 DEF RateInv, AddsInv, CallerRate, vars, shared, locals, ghosts
  <2> QED
    BY Zenon, <1>2, <1>3, <2>1
<1> QED
  BY Zenon, <1>4, <1>5, <1>6, <1>7 DEF Next

(* The whole invariant holds throughout. *)
LEMMA LimiterInvariance == Spec => []LimiterInv
BY LimiterStart, LimiterNext, PTL DEF Spec

(* As long as nginx is not reloaded, allow() returns true at most limit    *)
(* times, and once more for every token that the periods since the set up  *)
(* have brought, however the calls of refresh() interleave and wrap.       *)
THEOREM LimiterRate == Spec => []RateBound
<1>1. LimiterInv => RateBound
  BY Zenon DEF LimiterInv, RateInv, RateBound
<1> QED
  BY <1>1, LimiterInvariance, PTL

(* refresh() never installs fewer tokens than it found, if three minutes'  *)
(* tokens fit into a word: current.tokens + extra_tokens does not wrap.    *)
THEOREM LimiterAdds == NoOverflow => (Spec => RefreshAdds)
<1> SUFFICES ASSUME NoOverflow PROVE Spec => RefreshAdds
  BY Zenon
<1>1. LimiterInv /\ [Next]_vars =>
        [master' = "running" /\ tr'.last > tr.last => tr'.tokens >= tr.tokens]_vars
  <2> SUFFICES ASSUME LimiterInv, Next, master' = "running", tr'.last > tr.last
               PROVE  tr'.tokens >= tr.tokens
    BY Zenon DEF vars
  <2>1. tr.tokens \in Nat /\ tr.last \in Nat /\ clock \in Nat
    BY LimiterAssumption DEF LimiterInv, IInv, TypeOK, Bucket
  <2>2. ~(tr' = tr)
    BY <2>1
  <2>3. PICK c \in Callers : Caller(c)
    BY Zenon, <2>2 DEF Next, Tick, ZeroTokens, ZeroMax, ZeroAmounts, shared
  <2>4. master = "running" /\ RateInv /\ AddsInv
    BY Zenon, <2>3 DEF Caller, Lock, StoreTokens, StoreMax, Fill, Spread, Unlock,
                NowTick, Load, Refresh, Sum, SetNew, Cap, NewVal, CasRefresh,
                Take, Deny, LimiterInv
  <2>5. CASE StoreTokens(c)
    <3>1. tr.tokens = 0 /\ tr'.tokens = LimitOf(c)
      BY Zenon, <2>4, <2>5, EmptyFacts DEF StoreTokens, RateInv
    <3>2. LimitOf(c) \in 1 .. Word - 1
      BY Zenon, LimitFacts DEF LimiterInv, IInv
    <3> QED
      BY <3>1, <3>2, LimiterAssumption
  <2>6. CASE CasRefresh(c)
    BY Zenon, <2>2, <2>4, <2>6 DEF CasRefresh, AddsInv
  <2>7. CASE Take(c)
    <3>1. tr'.last = tr.last
      BY <2>2, <2>7 DEF Take
    <3> QED
      BY <2>1, <3>1
  <2>8. CASE \/ Lock(c) \/ StoreMax(c) \/ Fill(c) \/ Spread(c) \/ Unlock(c)
             \/ NowTick(c) \/ Load(c) \/ Refresh(c) \/ Sum(c) \/ SetNew(c)
             \/ Cap(c) \/ Deny(c)
    BY Zenon, <2>2, <2>8 DEF Lock, StoreMax, Fill, Spread, Unlock, NowTick, Load,
                      Refresh, Sum, SetNew, Cap, NewVal, Deny, shared
  <2> QED
    BY Zenon, <2>3, <2>5, <2>6, <2>7, <2>8 DEF Caller
<1> QED
  BY <1>1, LimiterInvariance, PTL DEF Spec, RefreshAdds

=============================================================================
