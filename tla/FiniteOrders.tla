------------------------------ MODULE FiniteOrders ------------------------------
(* Finite sets in an order: the least and the greatest of some numbers,     *)
(* the first few members of a set in a strict order R, a set of pairs, and  *)
(* functions that walk up the numbers, each value made from the one before. *)
EXTENDS Ordered, FiniteSetTheorems, WellFoundedInduction, TLAPS

(* The numbers up to a number are finitely many.                            *)
LEMMA UpToFinite ==
  ASSUME NEW n \in Nat
  PROVE  IsFiniteSet(0..n) /\ IsFiniteSet(1..n)
  BY FS_Interval

(* A set of instants that is not empty has a first one, which Min names.   *)
LEMMA FirstInstant ==
  ASSUME NEW S \in SUBSET Nat, S # {}
  PROVE  Min(S) \in S /\ \A s \in S : Min(S) <= s
<1> DEFINE Less == {ss \in Nat \X Nat : ss[1] < ss[2]}
<1>1. IsWellFoundedOn(Less, Nat)
  BY NatLessThanWellFounded DEF OpToRel
<1>2. PICK x \in S : \A y \in S : ~ (<<y, x>> \in Less)
  <2> HIDE DEF Less
  <2> QED
    BY <1>1, WFMin
<1>3. ASSUME NEW y \in S PROVE x <= y
  <2>1. y \in Nat /\ x \in Nat /\ (y < x => <<y, x>> \in Less)
    OBVIOUS
  <2> HIDE DEF Less
  <2> QED
    BY <1>2, <2>1
<1> QED
  BY <1>3 DEF Min

(* A finite set that is not empty has a member no other precedes, in any   *)
(* strict order: the one with the fewest before it.                        *)
LEMMA FinitelyManyBefore ==
  ASSUME NEW S, IsFiniteSet(S), S # {}, NEW R,
         \A x \in S : <<x, x>> \notin R,
         \A x, y, z \in S : <<x, y>> \in R /\ <<y, z>> \in R => <<x, z>> \in R
  PROVE  \E x \in S : \A y \in S : <<y, x>> \notin R
<1> DEFINE Ahead(x) == {y \in S : <<y, x>> \in R}
           Ranks == {Cardinality(Ahead(x)) : x \in S}
<1>1. \A x \in S : IsFiniteSet(Ahead(x)) /\ Cardinality(Ahead(x)) \in Nat
  BY FS_Subset, FS_CardinalityType
<1>2. Ranks \in SUBSET Nat /\ Ranks # {}
  <2> HIDE DEF Ahead
  <2> QED
    BY <1>1
<1>3. PICK n \in Ranks : \A m \in Ranks : n <= m
  BY <1>2, FirstInstant
<1>4. PICK x \in S : n = Cardinality(Ahead(x))
  OBVIOUS
<1>5. ASSUME NEW y \in S, <<y, x>> \in R PROVE FALSE
  <2>1. Ahead(y) \in SUBSET Ahead(x)
    BY <1>5
  <2>2. y \in Ahead(x) /\ y \notin Ahead(y)
    BY <1>5
  <2> HIDE DEF Ahead
  <2>3. Cardinality(Ahead(y)) <= Cardinality(Ahead(x)) /\ Cardinality(Ahead(y)) # Cardinality(Ahead(x))
    BY <1>1, <2>1, <2>2, FS_Subset
  <2>4. Cardinality(Ahead(x)) <= Cardinality(Ahead(y))
    BY <1>3, <1>4
  <2> QED
    BY <1>1, <2>3, <2>4
<1> QED
  BY <1>5

LEMMA GreatestOfFinite ==
  ASSUME NEW S \in SUBSET Nat, IsFiniteSet(S), S # {}
  PROVE  Max(S) \in S /\ \A s \in S : Max(S) >= s
<1> DEFINE R == {ss \in S \X S : ss[1] > ss[2]}
<1>1. \A x, y \in S : <<x, y>> \in R <=> x > y
  OBVIOUS
<1>2. \A x \in S : x \in Nat
  OBVIOUS
<1> HIDE DEF R
<1>3. /\ \A x \in S : <<x, x>> \notin R
      /\ \A x, y, z \in S : <<x, y>> \in R /\ <<y, z>> \in R => <<x, z>> \in R
  BY <1>1, <1>2
<1>4. PICK x \in S : \A y \in S : <<y, x>> \notin R
  BY <1>3, FinitelyManyBefore
<1>5. ASSUME NEW y \in S PROVE x >= y
  <2>1. ~(y > x) /\ x \in Nat /\ y \in Nat
    BY <1>1, <1>2, <1>4
  <2> QED
    BY <2>1
<1> QED
  BY <1>5 DEF Max

(* In a strict order of all of a finite set, ranks name its members: who   *)
(* comes before another has the lower rank, and each rank is someone's.    *)
LEMMA RanksGrow ==
  ASSUME NEW S, IsFiniteSet(S), NEW R, NEW x \in S, NEW y \in S, <<x, y>> \in R,
         \A u \in S : <<u, u>> \notin R,
         \A u, v, w \in S : <<u, v>> \in R /\ <<v, w>> \in R => <<u, w>> \in R
  PROVE  CountBefore(x, S, R) \in Nat /\ CountBefore(y, S, R) \in Nat /\ CountBefore(x, S, R) < CountBefore(y, S, R)
<1> DEFINE Ahead(u) == {v \in S : <<v, u>> \in R}
<1>1. \A u \in S : IsFiniteSet(Ahead(u)) /\ Cardinality(Ahead(u)) \in Nat
  BY FS_Subset, FS_CardinalityType
<1>2. Ahead(x) \in SUBSET Ahead(y) /\ x \in Ahead(y) /\ x \notin Ahead(x)
  OBVIOUS
<1>3. CountBefore(x, S, R) = Cardinality(Ahead(x)) /\ CountBefore(y, S, R) = Cardinality(Ahead(y))
  BY DEF CountBefore
<1> HIDE DEF Ahead
<1>4. Cardinality(Ahead(x)) <= Cardinality(Ahead(y)) /\ Cardinality(Ahead(x)) # Cardinality(Ahead(y))
  BY <1>1, <1>2, FS_Subset
<1> QED
  BY <1>1, <1>3, <1>4

LEMMA EveryRankIsTaken ==
  ASSUME NEW S, IsFiniteSet(S), NEW R,
         \A u \in S : <<u, u>> \notin R,
         \A u, v, w \in S : <<u, v>> \in R /\ <<v, w>> \in R => <<u, w>> \in R,
         \A u, v \in S : u = v \/ <<u, v>> \in R \/ <<v, u>> \in R
  PROVE  /\ Cardinality(S) \in Nat
         /\ \A x \in S : CountBefore(x, S, R) \in 0..(Cardinality(S) - 1)
         /\ \A x, y \in S : CountBefore(x, S, R) = CountBefore(y, S, R) => x = y
         /\ \A i \in 1..Cardinality(S) : \E x \in S : CountBefore(x, S, R) = i - 1
<1> DEFINE n == Cardinality(S)
           f == [x \in S |-> CountBefore(x, S, R) + 1]
<1>1. n \in Nat
  BY FS_CardinalityType
<1>2. ASSUME NEW x \in S PROVE CountBefore(x, S, R) \in 0..(n - 1)
  <2> DEFINE Ahead == {v \in S : <<v, x>> \in R}
  <2>1. IsFiniteSet(Ahead) /\ Cardinality(Ahead) \in Nat /\ Cardinality(Ahead) <= n
    BY FS_Subset, FS_CardinalityType
  <2>2. Ahead \in SUBSET S /\ x \in S /\ x \notin Ahead
    OBVIOUS
  <2>3. CountBefore(x, S, R) = Cardinality(Ahead)
    BY DEF CountBefore
  <2> HIDE DEF Ahead
  <2>4. Cardinality(Ahead) # n
    BY <2>2, FS_Subset
  <2> QED
    BY <1>1, <2>1, <2>3, <2>4
<1>3. ASSUME NEW x \in S, NEW y \in S, CountBefore(x, S, R) = CountBefore(y, S, R) PROVE x = y
  <2>1. ASSUME NEW u \in S, NEW v \in S, <<u, v>> \in R
        PROVE  CountBefore(u, S, R) # CountBefore(v, S, R)
    <3>1. /\ CountBefore(u, S, R) \in Nat /\ CountBefore(v, S, R) \in Nat
          /\ CountBefore(u, S, R) < CountBefore(v, S, R)
      BY <2>1, RanksGrow
    <3> QED
      BY <3>1
  <2> QED
    BY <1>3, <2>1
<1>4. f \in Injection(S, 1..n)
  <2>1. \A x \in S : f[x] \in 1..n
    BY <1>1, <1>2
  <2>2. \A x, y \in S : f[x] = f[y] => x = y
    <3> SUFFICES ASSUME NEW x \in S, NEW y \in S, f[x] = f[y] PROVE x = y
      OBVIOUS
    <3>1. CountBefore(x, S, R) + 1 = CountBefore(y, S, R) + 1
      OBVIOUS
    <3>2. CountBefore(x, S, R) \in Int /\ CountBefore(y, S, R) \in Int
      BY <1>1, <1>2
    <3> QED
      BY <1>3, <3>1, <3>2
  <2>3. f \in [S -> 1..n]
    BY <2>1
  <2> HIDE DEF f
  <2> QED
    BY <2>2, <2>3 DEF Injection, IsInjective
<1>5. IsFiniteSet(1..n) /\ Cardinality(1..n) = n
  BY <1>1, FS_Interval
<1>6. f \in Surjection(S, 1..n)
  <2> HIDE DEF f
  <2> QED
    BY <1>4, <1>5, FS_Injection
<1>7. ASSUME NEW i \in 1..n PROVE \E x \in S : CountBefore(x, S, R) = i - 1
  <2>1. PICK x \in S : f[x] = i
    <3> HIDE DEF f
    <3> QED
      BY <1>6 DEF Surjection
  <2>2. CountBefore(x, S, R) + 1 = i /\ CountBefore(x, S, R) \in Int
    BY <1>1, <1>2, <2>1
  <2> QED
    BY <2>2
<1> QED
  BY <1>1, <1>2, <1>3, <1>7

(* The first n of a set are members of it, at most n of them; if one is    *)
(* left out they are n, and each comes before it.                          *)
LEMMA FirstAreBefore ==
  ASSUME NEW S, IsFiniteSet(S), NEW n \in Nat, NEW R,
         \A u \in S : <<u, u>> \notin R,
         \A u, v, w \in S : <<u, v>> \in R /\ <<v, w>> \in R => <<u, w>> \in R,
         \A u, v \in S : u = v \/ <<u, v>> \in R \/ <<v, u>> \in R,
         NEW first, first = FirstOf(S, n, R)
  PROVE  /\ first \in Seq(S) /\ Len(first) \in Nat /\ Len(first) <= n
         /\ DOMAIN first = 1..Len(first)
         /\ \A i \in 1..Len(first) : first[i] \in S
         /\ \A x \in S : (\A i \in 1..Len(first) : first[i] # x) =>
               Len(first) = n /\ \A i \in 1..Len(first) : <<first[i], x>> \in R
<1> DEFINE c == Cardinality(S)
           m == Min({n, c})
<1>1. /\ c \in Nat
      /\ \A x \in S : CountBefore(x, S, R) \in 0..(c - 1)
      /\ \A x, y \in S : CountBefore(x, S, R) = CountBefore(y, S, R) => x = y
      /\ \A i \in 1..c : \E x \in S : CountBefore(x, S, R) = i - 1
  BY EveryRankIsTaken
<1>2. m \in Nat /\ m <= n /\ m <= c /\ (m = n \/ m = c)
  <2>1. {n, c} \in SUBSET Nat /\ {n, c} # {}
    BY <1>1
  <2>2. m \in {n, c} /\ \A s \in {n, c} : m <= s
    BY <2>1, FirstInstant
  <2> QED
    BY <1>1, <2>2
<1>3. ASSUME NEW i \in 1..m PROVE first[i] \in S /\ CountBefore(first[i], S, R) = i - 1
  <2>1. i \in 1..c
    BY <1>1, <1>2
  <2>2. \E x \in S : CountBefore(x, S, R) = i - 1
    BY <1>1, <2>1
  <2>3. first[i] = CHOOSE x \in S : CountBefore(x, S, R) = i - 1
    BY DEF FirstOf
  <2> QED
    BY <2>2, <2>3
<1>4. first \in [1..m -> S]
  <2>1. first = [i \in 1..m |-> first[i]]
    BY DEF FirstOf
  <2> QED
    BY <1>3, <2>1
<1>5. first \in Seq(S) /\ Len(first) = m
  <2> HIDE DEF m
  <2> QED
    BY <1>2, <1>4
<1>6. ASSUME NEW x \in S, \A i \in 1..m : first[i] # x
      PROVE  m = n /\ \A i \in 1..m : <<first[i], x>> \in R
  <2> DEFINE k == CountBefore(x, S, R)
  <2>1. k \in 0..(c - 1)
    BY <1>1
  <2>2. ASSUME k < m PROVE FALSE
    <3>1. k + 1 \in 1..m /\ (k + 1) - 1 = k
      BY <1>1, <1>2, <2>1, <2>2
    <3>2. first[k + 1] \in S /\ CountBefore(first[k + 1], S, R) = k
      BY <1>3, <3>1
    <3> QED
      BY <1>1, <1>6, <3>1, <3>2
  <2>3. m = n
    BY <1>1, <1>2, <2>1, <2>2
  <2>4. ASSUME NEW i \in 1..m PROVE <<first[i], x>> \in R
    <3>1. first[i] \in S /\ CountBefore(first[i], S, R) < k
      <4>1. CountBefore(first[i], S, R) = i - 1 /\ first[i] \in S
        BY <1>3
      <4> HIDE DEF m, k
      <4> QED
        BY <1>1, <1>2, <2>1, <2>2, <4>1
    <3>2. ASSUME <<x, first[i]>> \in R PROVE FALSE
      <4>1. k \in Nat /\ CountBefore(first[i], S, R) \in Nat /\ k < CountBefore(first[i], S, R)
        BY <3>1, <3>2, RanksGrow
      <4> QED
        BY <3>1, <4>1
    <3> QED
      BY <1>6, <3>1, <3>2
  <2> QED
    BY <2>3, <2>4
<1>7. DOMAIN first = 1..m
  BY <1>4
<1> QED
  <2> HIDE DEF m
  <2> QED
    BY <1>2, <1>3, <1>5, <1>6, <1>7

(* The first n are as many as there are, and no two of them are one.         *)
LEMMA FirstAreMany ==
  ASSUME NEW S, IsFiniteSet(S), NEW n \in Nat, NEW R,
         \A u \in S : <<u, u>> \notin R,
         \A u, v, w \in S : <<u, v>> \in R /\ <<v, w>> \in R => <<u, w>> \in R,
         \A u, v \in S : u = v \/ <<u, v>> \in R \/ <<v, u>> \in R,
         NEW first, first = FirstOf(S, n, R)
  PROVE  /\ Len(first) = n \/ Len(first) = Cardinality(S)
         /\ \A i, j \in 1..Len(first) : first[i] = first[j] => i = j
<1> DEFINE c == Cardinality(S)
           m == Min({n, c})
<1>1. c \in Nat /\ \A i \in 1..c : \E x \in S : CountBefore(x, S, R) = i - 1
  BY EveryRankIsTaken
<1>2. m \in Nat /\ m <= c /\ (m = n \/ m = c)
  <2>1. {n, c} \in SUBSET Nat /\ {n, c} # {}
    BY <1>1
  <2>2. m \in {n, c} /\ \A s \in {n, c} : m <= s
    BY <2>1, FirstInstant
  <2> QED
    BY <1>1, <2>2
<1>3. first = [i \in 1..m |-> CHOOSE x \in S : CountBefore(x, S, R) = i - 1]
  BY DEF FirstOf
<1>4. Len(first) = m
  <2>1. DOMAIN first = 1..Len(first) /\ Len(first) \in Nat
    BY FirstAreBefore
  <2>2. DOMAIN first = 1..m
    BY <1>3
  <2> HIDE DEF m
  <2>3. \A k, l \in Nat : 1..k = 1..l => k = l
    <3> SUFFICES ASSUME NEW k \in Nat, NEW l \in Nat, 1..k = 1..l PROVE ~(k < l)
      OBVIOUS
    <3>1. k < l => l \in 1..l /\ l \notin 1..k
      OBVIOUS
    <3> QED
      BY <3>1
  <2> QED
    BY <1>2, <2>1, <2>2, <2>3
<1>5. ASSUME NEW i \in 1..m PROVE CountBefore(first[i], S, R) = i - 1
  <2>1. i \in 1..c
    BY <1>1, <1>2
  <2>2. \E x \in S : CountBefore(x, S, R) = i - 1
    BY <1>1, <2>1
  <2>3. first[i] = CHOOSE x \in S : CountBefore(x, S, R) = i - 1
    BY <1>3
  <2> QED
    BY <2>2, <2>3
<1>6. ASSUME NEW i \in 1..m, NEW j \in 1..m, first[i] = first[j] PROVE i = j
  <2>1. i - 1 = j - 1 /\ i \in Int /\ j \in Int
    <3>1. CountBefore(first[i], S, R) = i - 1 /\ CountBefore(first[j], S, R) = j - 1
      BY <1>5
    <3>2. i \in Int /\ j \in Int
      BY <1>2
    <3> QED
      BY <1>6, <3>1, <3>2
  <2> QED
    BY <2>1
<1> QED
  BY <1>2, <1>4, <1>6

(* What a function makes of a finite set is finite.                          *)
LEMMA ImageIsFinite ==
  ASSUME NEW S, IsFiniteSet(S), NEW T, NEW f \in [S -> T]
  PROVE  IsFiniteSet({f[x] : x \in S})
<1>1. f \in Surjection(S, {f[x] : x \in S})
  BY DEF Surjection
<1> QED
  BY <1>1, FS_Surjection

(* All of a set in order: each member is in the list, and who stands        *)
(* earlier in it comes before who stands later.                             *)
LEMMA AllInOrder ==
  ASSUME NEW S, IsFiniteSet(S), NEW R,
         \A u \in S : <<u, u>> \notin R,
         \A u, v, w \in S : <<u, v>> \in R /\ <<v, w>> \in R => <<u, w>> \in R,
         \A u, v \in S : u = v \/ <<u, v>> \in R \/ <<v, u>> \in R,
         NEW all, all = FirstOf(S, Cardinality(S), R)
  PROVE  /\ Cardinality(S) \in Nat /\ DOMAIN all = 1..Cardinality(S)
         /\ \A i \in DOMAIN all : i \in Nat /\ all[i] \in S
         /\ \A x \in S : \E i \in DOMAIN all : all[i] = x
         /\ \A i, j \in DOMAIN all : i < j => <<all[i], all[j]>> \in R
<1> DEFINE c == Cardinality(S)
<1>1. /\ c \in Nat
      /\ \A x \in S : CountBefore(x, S, R) \in 0..(c - 1)
      /\ \A x, y \in S : CountBefore(x, S, R) = CountBefore(y, S, R) => x = y
      /\ \A i \in 1..c : \E x \in S : CountBefore(x, S, R) = i - 1
  BY EveryRankIsTaken
<1>2. Min({c, c}) = c
  <2>1. {c, c} \in SUBSET Nat /\ {c, c} # {}
    BY <1>1
  <2> HIDE DEF c
  <2> QED
    BY <2>1, FirstInstant
<1>3. all = [i \in 1..c |-> CHOOSE x \in S : CountBefore(x, S, R) = i - 1]
  BY <1>2 DEF FirstOf
<1> HIDE DEF c
<1>4. ASSUME NEW i \in 1..c PROVE all[i] \in S /\ CountBefore(all[i], S, R) = i - 1
  <2>1. \E x \in S : CountBefore(x, S, R) = i - 1
    BY <1>1
  <2>2. all[i] = CHOOSE x \in S : CountBefore(x, S, R) = i - 1
    BY <1>3
  <2> QED
    BY <2>1, <2>2
<1>5. DOMAIN all = 1..c
  BY <1>3
<1>6. ASSUME NEW x \in S PROVE \E i \in 1..c : all[i] = x
  <2> DEFINE k == CountBefore(x, S, R)
  <2>1. k \in 0..(c - 1)
    BY <1>1
  <2>2. k + 1 \in 1..c /\ (k + 1) - 1 = k
    <3> HIDE DEF k
    <3> QED
      BY <1>1, <2>1
  <2>3. all[k + 1] \in S /\ CountBefore(all[k + 1], S, R) = k
    BY <1>4, <2>2
  <2> QED
    BY <1>1, <2>2, <2>3
<1>7. ASSUME NEW i \in 1..c, NEW j \in 1..c, i < j PROVE <<all[i], all[j]>> \in R
  <2>1. /\ all[i] \in S /\ CountBefore(all[i], S, R) = i - 1
        /\ all[j] \in S /\ CountBefore(all[j], S, R) = j - 1
    BY <1>4
  <2>2. i - 1 # j - 1 /\ ~(j - 1 < i - 1)
    <3>1. i \in Int /\ j \in Int /\ i < j
      BY <1>1, <1>7
    <3> QED
      BY <3>1
  <2>3. all[i] # all[j]
    BY <2>1, <2>2
  <2>4. ASSUME <<all[j], all[i]>> \in R PROVE FALSE
    <3>1. CountBefore(all[j], S, R) < CountBefore(all[i], S, R)
      BY <2>1, <2>4, RanksGrow
    <3> QED
      BY <2>1, <2>2, <3>1
  <2> QED
    BY <2>1, <2>3, <2>4
<1>8. \A i \in 1..c : i \in Nat
  BY <1>1
<1> QED
  BY <1>1, <1>4, <1>5, <1>6, <1>7, <1>8 DEF c

(* A walk of n steps: what each step makes of the value before it, g says.  *)
Walks(n, V, base, g) ==
    {f \in [0..n -> V] : f[0] = base /\ \A i \in 1..n : f[i] = g[<<f[i - 1], i>>]}

(* There is one, and two of them agree as far as both go.                   *)
LEMMA WalkExists ==
  ASSUME NEW n \in Nat, NEW V, NEW base \in V, NEW g \in [V \X (1..n) -> V]
  PROVE  Walks(n, V, base, g) # {}
<1> DEFINE Good(m) == \E f \in [0..m -> V] : f[0] = base /\ \A i \in 1..m : f[i] = g[<<f[i - 1], i>>]
           Bad == {m \in 0..n : ~Good(m)}
<1>1. Good(0)
  <2> DEFINE f == [i \in 0..0 |-> base]
  <2>1. f \in [0..0 -> V] /\ f[0] = base
    OBVIOUS
  <2>2. 1..0 = {}
    OBVIOUS
  <2> QED
    BY <2>1, <2>2
<1>2. ASSUME NEW m \in 1..n, Good(m - 1) PROVE Good(m)
  <2>1. PICK f \in [0..(m - 1) -> V] :
           f[0] = base /\ \A i \in 1..(m - 1) : f[i] = g[<<f[i - 1], i>>]
    BY <1>2
  <2> DEFINE v == g[<<f[m - 1], m>>]
             h == [i \in 0..m |-> IF i < m THEN f[i] ELSE v]
  <2>2. m \in Int /\ m >= 1 /\ m - 1 \in 0..(m - 1)
    OBVIOUS
  <2>3. v \in V
    <3>1. f[m - 1] \in V
      BY <2>1, <2>2
    <3> HIDE DEF v
    <3>2. <<f[m - 1], m>> \in V \X (1..n)
      BY <3>1
    <3> QED
      BY <3>2 DEF v
  <2>4. \A i \in 0..(m - 1) : i \in 0..m /\ i < m /\ h[i] = f[i] /\ f[i] \in V
    <3> HIDE DEF v
    <3> QED
      BY <2>1, <2>2
  <2>5. h[m] = v
    <3> HIDE DEF v
    <3> QED
      BY <2>2
  <2>6. \A i \in 0..m : i = m \/ i \in 0..(m - 1)
    BY <2>2
  <2>7. h \in [0..m -> V]
    <3>1. h = [i \in 0..m |-> h[i]]
      OBVIOUS
    <3> HIDE DEF h, v
    <3> QED
      BY <2>3, <2>4, <2>5, <2>6, <3>1
  <2>8. h[0] = base
    <3>1. 0 \in 0..(m - 1)
      BY <2>2
    <3> HIDE DEF h, v
    <3> QED
      BY <2>1, <2>4, <3>1
  <2>9. ASSUME NEW i \in 1..m PROVE h[i] = g[<<h[i - 1], i>>]
    <3>1. i - 1 \in 0..(m - 1) /\ (i = m \/ i \in 1..(m - 1))
      BY <2>2
    <3>2. h[i - 1] = f[i - 1]
      <4> HIDE DEF h, v
      <4> QED
        BY <2>4, <3>1
    <3>3. CASE i = m
      <4> HIDE DEF h
      <4> QED
        BY <2>5, <3>2, <3>3
    <3>4. CASE i \in 1..(m - 1)
      <4>1. i \in 0..(m - 1)
        BY <3>4
      <4> HIDE DEF h, v
      <4> QED
        BY <2>1, <2>4, <3>2, <3>4, <4>1
    <3> QED
      BY <3>1, <3>3, <3>4
  <2> HIDE DEF h, v
  <2> QED
    BY <2>7, <2>8, <2>9
<1>3. Good(n)
  <2> SUFFICES ASSUME ~Good(n) PROVE FALSE
    OBVIOUS
  <2>1. Bad \in SUBSET Nat /\ Bad # {}
    <3> HIDE DEF Good
    <3> QED
      OBVIOUS
  <2>2. Min(Bad) \in Bad /\ \A m \in Bad : Min(Bad) <= m
    <3> HIDE DEF Bad
    <3> QED
      BY <2>1, FirstInstant
  <2> DEFINE m == Min(Bad)
  <2> HIDE DEF m
  <2>3. m \in 0..n /\ ~Good(m) /\ \A k \in 0..n : ~Good(k) => m <= k
    <3> HIDE DEF Good
    <3> QED
      BY <2>2 DEF m
  <2> HIDE DEF Good, Bad
  <2>4. m \in 1..n
    BY <1>1, <2>3
  <2>5. m - 1 \in 0..n /\ ~(m <= m - 1)
    BY <2>4
  <2>6. Good(m - 1)
    BY <2>3, <2>5
  <2> QED
    BY <1>2, <2>3, <2>4, <2>6
<1> QED
  BY <1>3 DEF Walks

LEMMA WalksAgree ==
  ASSUME NEW n \in Nat, NEW m \in Nat, m <= n, NEW V, NEW W, NEW base, NEW g, NEW h,
         NEW f \in Walks(m, V, base, g), NEW e \in Walks(n, W, base, h),
         \A v \in V, i \in 1..m : g[<<v, i>>] = h[<<v, i>>]
  PROVE  \A i \in 0..m : f[i] = e[i]
<1> DEFINE Bad == {i \in 0..m : f[i] # e[i]}
<1> SUFFICES ASSUME Bad # {} PROVE FALSE
  OBVIOUS
<1>1. Bad \in SUBSET Nat
  OBVIOUS
<1>2. Min(Bad) \in Bad /\ \A i \in Bad : Min(Bad) <= i
  <2> HIDE DEF Bad
  <2> QED
    BY <1>1, FirstInstant
<1> DEFINE k == Min(Bad)
<1> HIDE DEF k
<1>3. k \in 0..m /\ f[k] # e[k] /\ \A i \in 0..m : f[i] # e[i] => k <= i
  BY <1>2 DEF k
<1>4. /\ f \in [0..m -> V] /\ f[0] = base /\ e[0] = base
      /\ \A i \in 1..m : f[i] = g[<<f[i - 1], i>>]
      /\ \A i \in 1..n : e[i] = h[<<e[i - 1], i>>]
  BY DEF Walks
<1>5. k \in 1..m /\ k \in 1..n /\ k - 1 \in 0..m /\ ~(k <= k - 1)
  BY <1>3, <1>4
<1>6. f[k - 1] = e[k - 1] /\ f[k - 1] \in V
  BY <1>3, <1>4, <1>5
<1>7. f[k] = g[<<f[k - 1], k>>] /\ e[k] = h[<<e[k - 1], k>>]
  BY <1>4, <1>5
<1>8. g[<<f[k - 1], k>>] = h[<<f[k - 1], k>>]
  BY <1>5, <1>6
<1> QED
  BY <1>3, <1>6, <1>7, <1>8
================================================================================
