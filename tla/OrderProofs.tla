---------------------------- MODULE OrderProofs ----------------------------
(* What Sorted does with any finite set; the greatest and the least of       *)
(* finitely many integers, and of the positions up to n; quotients.         *)
EXTENDS Order, Integers, FiniteSetsExt, FiniteSetTheorems, TLAPS

(* Sorting *)

\* What is ahead of what: a strict total order.
Ranks(ahead) ==
    /\ \A x \in DOMAIN ahead : ahead[x] \subseteq DOMAIN ahead /\ x \notin ahead[x]
    /\ \A x, y \in DOMAIN ahead : x \in ahead[y] => ahead[x] \subseteq ahead[y]
    /\ \A x, y \in DOMAIN ahead : x # y => x \in ahead[y] \/ y \in ahead[x]

\* Sorting lists everybody once, and whoever is ahead of another comes first.
LEMMA SortedIsInOrder ==
    ASSUME NEW ahead, IsFiniteSet(DOMAIN ahead), Ranks(ahead)
    PROVE  LET s == Sorted(ahead)
               n == Cardinality(DOMAIN ahead)
           IN  /\ n \in Nat /\ s \in [1..n -> DOMAIN ahead]
               /\ \A x \in DOMAIN ahead : \E k \in 1..n : s[k] = x
               /\ \A j, k \in 1..n : s[j] \in ahead[s[k]] <=> j < k
               /\ \A j, k \in 1..n : s[j] = s[k] => j = k
<1> DEFINE S == DOMAIN ahead
           n == Cardinality(S)
           place == [x \in S |-> Cardinality(ahead[x])]
<1>1. n \in Nat /\ \A x \in S : IsFiniteSet(ahead[x]) /\ Cardinality(ahead[x]) \in Nat
  BY FS_CardinalityType, FS_Subset DEF Ranks
<1>2. \A x, y \in S : x \in ahead[y] => place[x] < place[y]
  <2> TAKE x, y \in S
  <2> HAVE x \in ahead[y]
  <2>1. ahead[x] \in SUBSET ahead[y] /\ ahead[x] # ahead[y]
    BY DEF Ranks
  <2>2. Cardinality(ahead[x]) <= Cardinality(ahead[y]) /\ Cardinality(ahead[x]) # Cardinality(ahead[y])
    BY <1>1, <2>1, FS_Subset
  <2> QED BY <1>1, <2>2
<1>3. \A x \in S : place[x] \in 0..(n - 1)
  <2> TAKE x \in S
  <2>1. ahead[x] \in SUBSET S /\ ahead[x] # S
    BY DEF Ranks
  <2>2. Cardinality(ahead[x]) <= n /\ Cardinality(ahead[x]) # n
    BY <2>1, FS_Subset
  <2> QED BY <1>1, <2>2
<1>4. \A x, y \in S : place[x] = place[y] => x = y
  <2> SUFFICES ASSUME NEW x \in S, NEW y \in S, place[x] = place[y], x # y PROVE FALSE
    OBVIOUS
  <2>1. x \in ahead[y] \/ y \in ahead[x]
    BY DEF Ranks
  <2>2. place[x] \in Int /\ place[y] \in Int
    BY <1>3
  <2> HIDE DEF place
  <2> QED BY <1>2, <2>1, <2>2
<1>5. place \in Injection(S, 0..(n - 1))
  BY <1>3, <1>4 DEF Injection, IsInjective
<1>6. \A k \in 0..(n - 1) : \E x \in S : place[x] = k
  <2>1. IsFiniteSet(0..(n - 1)) /\ Cardinality(0..(n - 1)) = n
    BY <1>1, FS_Interval
  <2>2. place \in Surjection(S, 0..(n - 1))
    BY <1>5, <2>1, FS_Injection
  <2> QED BY <2>2 DEF Surjection
<1>7. \A k \in 1..n : Sorted(ahead)[k] \in S /\ place[Sorted(ahead)[k]] = k - 1
  <2> TAKE k \in 1..n
  <2>1. k - 1 \in 0..(n - 1)
    BY <1>1
  <2>2. PICK x \in S : Cardinality(ahead[x]) = k - 1
    BY <1>6, <2>1
  <2>3. Sorted(ahead)[k] = CHOOSE y \in S : Cardinality(ahead[y]) = k - 1
    BY DEF Sorted
  <2> QED BY <2>2, <2>3
<1>8. DOMAIN Sorted(ahead) = 1..n
  BY DEF Sorted
<1>9. \A k \in 1..n : k - 1 \in 0..(n - 1) /\ k \in Int
  BY <1>1
<1>10. Sorted(ahead) = [k \in 1..n |-> Sorted(ahead)[k]]
  BY DEF Sorted
<1> DEFINE s == Sorted(ahead)
<1> HIDE DEF place, s
<1>11. \A x \in S : \E k \in 1..n : s[k] = x
  <2> TAKE x \in S
  <2>1. place[x] + 1 \in 1..n /\ (place[x] + 1) - 1 = place[x]
    BY <1>1, <1>3
  <2>2. s[place[x] + 1] = x
    BY <1>4, <1>7, <2>1 DEF s
  <2> QED BY <2>1, <2>2
<1>12. \A j, k \in 1..n : s[j] = s[k] => j = k
  BY <1>7, <1>9 DEF s
<1>13. \A j, k \in 1..n : s[j] \in ahead[s[k]] <=> j < k
  <2> TAKE j, k \in 1..n
  <2>1. s[j] \in S /\ s[k] \in S /\ place[s[j]] = j - 1 /\ place[s[k]] = k - 1
    BY <1>7 DEF s
  <2>2. ASSUME s[j] \in ahead[s[k]] PROVE j < k
    BY <1>2, <1>9, <2>1, <2>2
  <2>3. ASSUME j < k PROVE s[j] \in ahead[s[k]]
    <3>1. s[j] # s[k]
      BY <1>9, <2>1, <2>3
    <3>2. s[k] \notin ahead[s[j]]
      BY <1>2, <1>9, <2>1, <2>3
    <3> QED BY <2>1, <3>1, <3>2 DEF Ranks
  <2> QED BY <2>2, <2>3
<1>14. s \in [1..n -> S]
  BY <1>7, <1>10 DEF s
<1> QED BY <1>1, <1>11, <1>12, <1>13, <1>14 DEF s

LEMMA UpToIsFinite ==
    \A n \in Nat : IsFiniteSet(1..n) /\ Cardinality(1..n) = n /\ 1..n \in SUBSET Nat
<1> TAKE n \in Nat
<1>1. IsFiniteSet(1..n) /\ Cardinality(1..n) = IF 1 > n THEN 0 ELSE n - 1 + 1
  BY FS_Interval
<1> QED BY <1>1

(* Numbers *)

LEMMA QuotientIsNat == ASSUME NEW a \in Nat, NEW b \in Nat \ {0} PROVE a \div b \in Nat
OBVIOUS

(* Greatest and least elements *)

\* A finite set of integers has a greatest element.
LEMMA MaxIsThere ==
    ASSUME NEW S \in SUBSET Int, IsFiniteSet(S), S # {}
    PROVE  Max(S) \in S /\ \A x \in S : Max(S) >= x
<1> DEFINE ahead == [x \in S |-> {y \in S : y > x}]
<1>1. Ranks(ahead) /\ DOMAIN ahead = S
  <2>1. \A x \in S : ahead[x] = {y \in S : y > x} /\ x \in Int
    OBVIOUS
  <2>2. DOMAIN ahead = S
    OBVIOUS
  <2> HIDE DEF ahead
  <2>3. \A x \in S : ahead[x] \subseteq S /\ x \notin ahead[x]
    BY <2>1
  <2>4. ASSUME NEW x \in S, NEW y \in S, x \in ahead[y], NEW z \in ahead[x]
       PROVE z \in ahead[y]
    <3>1. x > y /\ z > x /\ z \in S
      BY <2>1, <2>4
    <3>2. z > y
      BY <2>1, <3>1
    <3> QED BY <2>1, <3>1, <3>2
  <2>5. \A x, y \in S : x # y => x \in ahead[y] \/ y \in ahead[x]
    BY <2>1
  <2>6. \A x, y \in S : x \in ahead[y] => ahead[x] \subseteq ahead[y]
    BY <2>4
  <2> QED BY <2>2, <2>3, <2>5, <2>6 DEF Ranks
<1>2. Cardinality(S) \in Nat \ {0}
  BY FS_CardinalityType, FS_EmptySet
<1> DEFINE s == Sorted(ahead)
           n == Cardinality(S)
<1>3. /\ s \in [1..n -> S] /\ \A x \in S : \E k \in 1..n : s[k] = x
      /\ \A j, k \in 1..n : s[j] \in ahead[s[k]] <=> j < k
  <2> HIDE DEF ahead
  <2> QED BY <1>1, SortedIsInOrder
<1> HIDE DEF s
<1>4. \A x \in S : s[1] >= x
  <2> TAKE x \in S
  <2>1. PICK k \in 1..n : s[k] = x
    BY <1>3
  <2>2. 1 \in 1..n /\ ~ (k < 1)
    BY <1>2
  <2>3. s[k] \notin ahead[s[1]] /\ s[1] \in S
    <3> HIDE DEF ahead
    <3> QED BY <1>3, <2>2
  <2>4. ~ (x > s[1]) /\ x \in Int /\ s[1] \in Int
    BY <2>1, <2>3
  <2> QED BY <2>4
<1>5. s[1] \in S
  BY <1>2, <1>3
<1> QED BY <1>4, <1>5 DEF Max

\* And a least one.
LEMMA MinIsThere ==
    ASSUME NEW S \in SUBSET Int, IsFiniteSet(S), S # {}
    PROVE  Min(S) \in S /\ \A x \in S : Min(S) <= x
<1> DEFINE ahead == [x \in S |-> {y \in S : y < x}]
<1>1. Ranks(ahead) /\ DOMAIN ahead = S
  <2>1. \A x \in S : ahead[x] = {y \in S : y < x} /\ x \in Int
    OBVIOUS
  <2>2. DOMAIN ahead = S
    OBVIOUS
  <2> HIDE DEF ahead
  <2>3. \A x \in S : ahead[x] \subseteq S /\ x \notin ahead[x]
    BY <2>1
  <2>4. ASSUME NEW x \in S, NEW y \in S, x \in ahead[y], NEW z \in ahead[x]
       PROVE z \in ahead[y]
    <3>1. x < y /\ z < x /\ z \in S
      BY <2>1, <2>4
    <3>2. z < y
      BY <2>1, <3>1
    <3> QED BY <2>1, <3>1, <3>2
  <2>5. \A x, y \in S : x # y => x \in ahead[y] \/ y \in ahead[x]
    BY <2>1
  <2>6. \A x, y \in S : x \in ahead[y] => ahead[x] \subseteq ahead[y]
    BY <2>4
  <2> QED BY <2>2, <2>3, <2>5, <2>6 DEF Ranks
<1>2. Cardinality(S) \in Nat \ {0}
  BY FS_CardinalityType, FS_EmptySet
<1> DEFINE s == Sorted(ahead)
           n == Cardinality(S)
<1>3. /\ s \in [1..n -> S] /\ \A x \in S : \E k \in 1..n : s[k] = x
      /\ \A j, k \in 1..n : s[j] \in ahead[s[k]] <=> j < k
  <2> HIDE DEF ahead
  <2> QED BY <1>1, SortedIsInOrder
<1> HIDE DEF s
<1>4. \A x \in S : s[1] <= x
  <2> TAKE x \in S
  <2>1. PICK k \in 1..n : s[k] = x
    BY <1>3
  <2>2. 1 \in 1..n /\ ~ (k < 1)
    BY <1>2
  <2>3. s[k] \notin ahead[s[1]] /\ s[1] \in S
    <3> HIDE DEF ahead
    <3> QED BY <1>3, <2>2
  <2>4. ~ (x < s[1]) /\ x \in Int /\ s[1] \in Int
    BY <2>1, <2>3
  <2> QED BY <2>4
<1>5. s[1] \in S
  BY <1>2, <1>3
<1> QED BY <1>4, <1>5 DEF Min

LEMMA LesserOfTwo ==
    ASSUME NEW a \in Int, NEW b \in Int
    PROVE  Min({a, b}) = IF a <= b THEN a ELSE b
<1>1. Min({a, b}) \in {a, b} /\ Min({a, b}) <= a /\ Min({a, b}) <= b
  <2>1. {a, b} \in SUBSET Int /\ IsFiniteSet({a, b}) /\ {a, b} # {}
    <3>1. {a, b} = {a} \cup {b}
      OBVIOUS
    <3>2. IsFiniteSet({a} \cup {b})
      BY FS_Singleton, FS_AddElement
    <3> QED BY <3>1, <3>2
  <2> QED BY <2>1, MinIsThere
<1> QED BY <1>1

LEMMA GreaterOfTwo ==
    ASSUME NEW a \in Int, NEW b \in Int
    PROVE  Max({a, b}) = IF a >= b THEN a ELSE b
<1>1. Max({a, b}) \in {a, b} /\ Max({a, b}) >= a /\ Max({a, b}) >= b
  <2>1. {a, b} \in SUBSET Int /\ IsFiniteSet({a, b}) /\ {a, b} # {}
    <3>1. {a, b} = {a} \cup {b}
      OBVIOUS
    <3>2. IsFiniteSet({a} \cup {b})
      BY FS_Singleton, FS_AddElement
    <3> QED BY <3>1, <3>2
  <2> QED BY <2>1, MaxIsThere
<1> QED BY <1>1

\* A set of positions up to n has a least one.
LEMMA LeastPosition ==
    ASSUME NEW n \in Nat, NEW S \in SUBSET (0..n), S # {}
    PROVE  Min(S) \in S /\ \A k \in S : Min(S) <= k
<1>1. IsFiniteSet(0..n) /\ 0..n \in SUBSET Int
  BY FS_Interval
<1>2. S \in SUBSET Int /\ IsFiniteSet(S)
  BY <1>1, FS_Subset
<1> QED BY <1>2, MinIsThere

=============================================================================
