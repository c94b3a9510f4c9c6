--------------------------- MODULE FeaturesProofs ---------------------------
(***************************************************************************)
(* Proofs about Features, for every candidate within the schema: no amount   *)
(* of a feature row is negative, and a skill on the topic never lowers the   *)
(* fit of somebody with a technical career. What is proved of the sums over  *)
(* skills, roles and assessments rests on Total as a recursive function: a   *)
(* least position at which a claim failed would contradict its equation.     *)
(***************************************************************************)
EXTENDS Features, OrderProofs, FiniteSetTheorems, SequenceTheorems, TLAPS

(* Sums *)

\* What position n adds to the sum of f.
Term(f, n) == IF n \in DOMAIN f THEN f[n] ELSE 0

\* The sums of f up to each position.
SumsOf(f, last, sums) ==
    sums = [n \in 0..last |-> IF n = 0 THEN 0 ELSE sums[n - 1] + Term(f, n)]

\* Numbers at positions.
Numbers(f) == DOMAIN f \in SUBSET Nat /\ IsFiniteSet(DOMAIN f) /\ \A i \in DOMAIN f : f[i] \in Nat

\* The equation of the sums has a solution for every last position: a least position without one
\* could take the sums of the position before it and add its own term.
LEMMA SumsExist == ASSUME NEW f, NEW last \in Nat PROVE \E sums : SumsOf(f, last, sums)
<1> DEFINE bad == {k \in 0..last : ~\E sums : SumsOf(f, k, sums)}
<1>1. ASSUME bad # {} PROVE FALSE
  <2> DEFINE m == Min(bad)
  <2>1. bad \in SUBSET (0..last)
    OBVIOUS
  <2>2. m \in bad /\ \A k \in bad : m <= k
    <3> HIDE DEF bad
    <3> QED BY <1>1, <2>1, LeastPosition
  <2> HIDE DEF m
  <2>3. m \in 0..last /\ ~\E sums : SumsOf(f, m, sums)
    BY <2>2
  <2>4. m # 0
    <3> SUFFICES ASSUME m = 0 PROVE FALSE
      OBVIOUS
    <3>1. SumsOf(f, 0, [n \in 0..0 |-> 0])
      BY DEF SumsOf
    <3> QED BY <2>3, <3>1
  <2>5. m - 1 \in 0..last /\ m - 1 \notin bad
    BY <2>2, <2>3, <2>4
  <2>6. PICK before : SumsOf(f, m - 1, before)
    BY <2>5
  <2> DEFINE s == [n \in 0..m |-> IF n = m THEN before[m - 1] + Term(f, m) ELSE before[n]]
  <2>7. ASSUME NEW n \in 0..m PROVE s[n] = IF n = 0 THEN 0 ELSE s[n - 1] + Term(f, n)
    <3>1. CASE n = m
      <4>1. n - 1 \in 0..m /\ n - 1 # m /\ n # 0
        BY <2>3, <2>4, <3>1
      <4> QED BY <3>1, <4>1
    <3>2. CASE n # m
      <4>1. n \in 0..(m - 1)
        BY <2>3, <3>2
      <4>2. s[n] = IF n = 0 THEN 0 ELSE before[n - 1] + Term(f, n)
        BY <2>6, <3>2, <4>1 DEF SumsOf
      <4>3. n # 0 => n - 1 \in 0..m /\ n - 1 # m
        BY <2>3, <4>1
      <4> QED BY <4>2, <4>3
    <3> QED BY <3>1, <3>2
  <2>8. SumsOf(f, m, s)
    <3>1. DOMAIN s = 0..m /\ s = [n \in DOMAIN s |-> s[n]]
      OBVIOUS
    <3> HIDE DEF s
    <3> QED BY <2>7, <3>1 DEF SumsOf
  <2> QED BY <2>3, <2>8
<1> QED BY <1>1

\* Sums of numbers are numbers.
LEMMA SumsAreNats ==
    ASSUME NEW f, Numbers(f), NEW last \in Nat, NEW sums, SumsOf(f, last, sums)
    PROVE  \A n \in 0..last : sums[n] \in Nat
<1> DEFINE bad == {k \in 0..last : sums[k] \notin Nat}
<1>1. ASSUME bad # {} PROVE FALSE
  <2> DEFINE m == Min(bad)
  <2>1. bad \in SUBSET (0..last)
    OBVIOUS
  <2>2. m \in bad /\ \A k \in bad : m <= k
    <3> HIDE DEF bad
    <3> QED BY <1>1, <2>1, LeastPosition
  <2> HIDE DEF m
  <2>3. m \in 0..last /\ sums[m] \notin Nat
    BY <2>2
  <2>4. sums[m] = IF m = 0 THEN 0 ELSE sums[m - 1] + Term(f, m)
    BY <2>3 DEF SumsOf
  <2>5. Term(f, m) \in Nat
    BY DEF Term, Numbers
  <2>6. m # 0
    BY <2>3, <2>4
  <2>7. m - 1 \in 0..last /\ m - 1 \notin bad
    BY <2>2, <2>3, <2>6
  <2>8. sums[m - 1] \in Nat
    BY <2>7
  <2> QED BY <2>3, <2>4, <2>5, <2>6, <2>8
<1> QED BY <1>1

\* A total is the last of the sums up to the last position.
LEMMA TotalIsTheLastSum ==
    ASSUME NEW f, Numbers(f)
    PROVE  \E last, sums :
              /\ last \in Nat /\ SumsOf(f, last, sums) /\ Total(f) = sums[last]
              /\ \A i \in DOMAIN f : i <= last
<1> DEFINE last == Max(DOMAIN f \cup {0})
           s == CHOOSE sums : SumsOf(f, last, sums)
<1>1. last \in Nat /\ \A i \in DOMAIN f : i <= last
  <2> DEFINE S == DOMAIN f \cup {0}
  <2>1. S \in SUBSET Int /\ IsFiniteSet(S) /\ S # {}
    BY FS_AddElement DEF Numbers
  <2>2. Max(S) \in S /\ \A x \in S : Max(S) >= x
    <3> HIDE DEF S
    <3> QED BY <2>1, MaxIsThere
  <2> QED BY <2>1, <2>2 DEF Numbers
<1>2. SumsOf(f, last, s)
  <2> HIDE DEF last
  <2> QED BY <1>1, SumsExist
<1>3. Total(f) = s[last]
  BY DEF Total, SumsOf, Term
<1> QED BY <1>1, <1>2, <1>3

\* A total of numbers is a number.
LEMMA TotalIsNat == ASSUME NEW f, Numbers(f) PROVE Total(f) \in Nat
<1>1. PICK last, sums : last \in Nat /\ SumsOf(f, last, sums) /\ Total(f) = sums[last]
  BY TotalIsTheLastSum
<1> QED BY <1>1, SumsAreNats

\* More positions and larger numbers make no smaller total.
THEOREM TotalIsMonotone ==
    ASSUME NEW f, NEW g, Numbers(f), Numbers(g), DOMAIN f \subseteq DOMAIN g,
           \A i \in DOMAIN f : f[i] <= g[i]
    PROVE  Total(f) <= Total(g)
<1>a. PICK m \in Nat : \E sf : SumsOf(f, m, sf) /\ Total(f) = sf[m] /\ \A i \in DOMAIN f : i <= m
  BY TotalIsTheLastSum
<1>1. PICK sf : SumsOf(f, m, sf) /\ Total(f) = sf[m] /\ \A i \in DOMAIN f : i <= m
  BY <1>a
<1>b. PICK n \in Nat : \E sg : SumsOf(g, n, sg) /\ Total(g) = sg[n] /\ \A i \in DOMAIN g : i <= n
  BY TotalIsTheLastSum
<1>2. PICK sg : SumsOf(g, n, sg) /\ Total(g) = sg[n] /\ \A i \in DOMAIN g : i <= n
  BY <1>b
<1> DEFINE P(k) == (IF k <= m THEN sf[k] ELSE sf[m]) <= (IF k <= n THEN sg[k] ELSE sg[n])
           bad == {k \in 0..(m + n) : ~P(k)}
<1>3. /\ \A k \in 0..m : sf[k] \in Nat /\ sf[k] = IF k = 0 THEN 0 ELSE sf[k - 1] + Term(f, k)
      /\ \A k \in 0..n : sg[k] \in Nat /\ sg[k] = IF k = 0 THEN 0 ELSE sg[k - 1] + Term(g, k)
  <2>1. \A k \in 0..m : sf[k] = IF k = 0 THEN 0 ELSE sf[k - 1] + Term(f, k)
    BY <1>1 DEF SumsOf
  <2>2. \A k \in 0..n : sg[k] = IF k = 0 THEN 0 ELSE sg[k - 1] + Term(g, k)
    BY <1>2 DEF SumsOf
  <2> QED BY <1>1, <1>2, <2>1, <2>2, SumsAreNats
<1>4. \A k \in Nat : /\ Term(f, k) \in Nat /\ Term(g, k) \in Nat /\ Term(f, k) <= Term(g, k)
                     /\ k > m => Term(f, k) = 0
                     /\ k > n => Term(f, k) = 0 /\ Term(g, k) = 0
  BY <1>1, <1>2 DEF Term, Numbers
<1>5. ASSUME bad # {} PROVE FALSE
  <2> DEFINE least == Min(bad)
  <2>1. bad \in SUBSET (0..(m + n))
    OBVIOUS
  <2>2. least \in bad /\ \A k \in bad : least <= k
    <3>1. m + n \in Nat
      OBVIOUS
    <3> HIDE DEF bad
    <3> QED BY <1>5, <2>1, <3>1, LeastPosition
  <2> HIDE DEF least
  <2>3. least \in 0..(m + n) /\ ~P(least)
    BY <2>2
  <2>4. least # 0
    <3>1. 0 \in 0..m /\ 0 \in 0..n
      OBVIOUS
    <3>2. sf[0] = 0 /\ sg[0] = 0
      BY <1>3, <3>1
    <3>3. P(0)
      BY <3>2
    <3> QED BY <2>3, <3>3
  <2> DEFINE k == least - 1
  <2>5. k \in 0..(m + n) /\ P(k) /\ least = k + 1
    BY <2>2, <2>3, <2>4
  <2> HIDE DEF k
  <2> DEFINE a == IF k <= m THEN sf[k] ELSE sf[m]
             b == IF k <= n THEN sg[k] ELSE sg[n]
             a1 == IF k + 1 <= m THEN sf[k + 1] ELSE sf[m]
             b1 == IF k + 1 <= n THEN sg[k + 1] ELSE sg[n]
  <2>6. a \in Nat /\ a1 = a + Term(f, k + 1)
    <3>1. CASE k + 1 <= m
      BY <1>3, <1>4, <2>5, <3>1
    <3>2. CASE ~(k + 1 <= m)
      <4>1. Term(f, k + 1) = 0 /\ a = sf[m] /\ a1 = sf[m] /\ m \in 0..m
        BY <1>4, <2>5, <3>2
      <4> QED BY <1>3, <4>1
    <3> QED BY <3>1, <3>2
  <2>7. b \in Nat /\ b1 = b + Term(g, k + 1)
    <3>1. CASE k + 1 <= n
      BY <1>3, <1>4, <2>5, <3>1
    <3>2. CASE ~(k + 1 <= n)
      <4>1. Term(g, k + 1) = 0 /\ b = sg[n] /\ b1 = sg[n] /\ n \in 0..n
        BY <1>4, <2>5, <3>2
      <4> QED BY <1>3, <4>1
    <3> QED BY <3>1, <3>2
  <2>8. a <= b /\ ~(a1 <= b1)
    BY <2>3, <2>5
  <2>9. Term(f, k + 1) \in Nat /\ Term(g, k + 1) \in Nat /\ Term(f, k + 1) <= Term(g, k + 1)
    BY <1>4, <2>5
  <2> HIDE DEF a, b, a1, b1
  <2> QED BY <2>6, <2>7, <2>8, <2>9
<1>6. P(m + n)
  BY <1>5
<1>7. /\ (IF m + n <= m THEN sf[m + n] ELSE sf[m]) = sf[m]
      /\ (IF m + n <= n THEN sg[m + n] ELSE sg[n]) = sg[n]
  OBVIOUS
<1> QED BY <1>1, <1>2, <1>6, <1>7

(* Arithmetic *)

LEMMA FractionIsNat == \A x \in 0..Unit : x \in Nat
BY DEF Unit

LEMMA ClipIsAFraction == ASSUME NEW x \in Int PROVE Clip(x) \in 0..Unit
<1> DEFINE m == Min({x, Unit})
<1>1. m \in Int /\ m <= 1000
  BY LesserOfTwo DEF Unit
<1>2. Clip(x) = Max({0, m})
  BY DEF Clip
<1> HIDE DEF m
<1>3. Max({0, m}) = IF 0 >= m THEN 0 ELSE m
  BY <1>1, GreaterOfTwo
<1> QED BY <1>1, <1>2, <1>3 DEF Unit

\* Division does not turn an order round.
LEMMA QuotientIsMonotone ==
    ASSUME NEW a \in Nat, NEW b \in Nat, NEW d \in Nat \ {0}, a <= b
    PROVE  a \div d <= b \div d
<1> DEFINE p == a \div d
           q == b \div d
<1>1. p \in Int /\ q \in Int /\ d * p <= a /\ b < d * (q + 1)
  OBVIOUS
<1>2. ASSUME q < p PROVE FALSE
  <2> HIDE DEF p, q
  <2>1. d * (q + 1) <= d * p
    BY <1>1, <1>2
  <2>2. d * (q + 1) \in Int /\ d * p \in Int
    BY <1>1
  <2> QED BY <1>1, <2>1, <2>2
<1> QED BY <1>1, <1>2

LEMMA ProductIsNat == ASSUME NEW a \in Nat, NEW b \in Nat PROVE a * b \in Nat
OBVIOUS

LEMMA TimesIsNat == \A a, b \in Nat : Times(a, b) \in Nat
BY ProductIsNat, QuotientIsNat DEF Times, Unit

\* A larger divisor gives no larger a quotient.
LEMMA QuotientIsAntitone ==
    ASSUME NEW a \in Nat, NEW d \in Nat \ {0}, NEW e \in Nat \ {0}, d <= e
    PROVE  a \div e <= a \div d
<1> DEFINE p == a \div d
           q == a \div e
<1>1. p \in Nat /\ q \in Nat /\ e * q <= a /\ a < d * (p + 1)
  OBVIOUS
<1>2. ASSUME p < q PROVE FALSE
  <2> HIDE DEF p, q
  <2>1. d * (p + 1) <= d * q
    BY <1>1, <1>2
  <2>2. d * q <= e * q
    BY <1>1
  <2>3. d * (p + 1) \in Int /\ d * q \in Int /\ e * q \in Int
    BY <1>1
  <2> QED BY <1>1, <2>1, <2>2, <2>3
<1> QED BY <1>1, <1>2

LEMMA ClipIsNat == ASSUME NEW x \in Nat PROVE Clip(x) \in Nat /\ Clip(x) <= Unit
<1>1. Clip(x) \in 0..Unit
  BY ClipIsAFraction
<1> QED BY <1>1 DEF Unit

\* A larger factor gives no smaller a product.
LEMMA TimesIsMonotone ==
    ASSUME NEW a \in Nat, NEW b \in Nat, NEW c \in Nat, a <= b PROVE Times(a, c) <= Times(b, c)
<1> DEFINE p == a * c
           q == b * c
<1>1. p \in Nat /\ q \in Nat /\ p <= q
  OBVIOUS
<1>2. p \div Unit <= q \div Unit
  <2> HIDE DEF p, q
  <2> QED BY <1>1, QuotientIsMonotone DEF Unit
<1> QED BY <1>2 DEF Times

LEMMA TimesIsAntitone ==
    ASSUME NEW a \in Nat, NEW b \in Nat, NEW c \in Nat, a <= b PROVE Times(c, a) <= Times(c, b)
<1>1. Times(c, a) = Times(a, c) /\ Times(c, b) = Times(b, c)
  BY DEF Times
<1> QED BY <1>1, TimesIsMonotone

\* A part of a whole is a fraction.
LEMMA ShareIsAFraction ==
    ASSUME NEW part \in Nat, NEW whole \in Nat, part <= whole PROVE Share(part, whole) \in 0..Unit
<1> DEFINE m == Max({whole, 1})
           q == (Unit * part) \div m
<1>1. m = IF whole >= 1 THEN whole ELSE 1
  BY GreaterOfTwo
<1>2. m \in Nat \ {0} /\ part <= m
  BY <1>1
<1> HIDE DEF m
<1>3. Unit * part \in Nat /\ Unit * part <= Unit * m
  BY <1>2 DEF Unit
<1>4. q \in Nat /\ m * q <= Unit * part
  BY <1>2, <1>3
<1>5. ASSUME q > Unit PROVE FALSE
  <2> HIDE DEF q
  <2>1. m * (Unit + 1) <= m * q /\ m * (Unit + 1) = Unit * m + m
    BY <1>2, <1>4, <1>5 DEF Unit
  <2>2. m * q \in Nat /\ Unit * m \in Nat
    BY <1>2, <1>4 DEF Unit
  <2> QED BY <1>2, <1>3, <1>4, <2>1, <2>2
<1>6. Share(part, whole) = q
  BY DEF Share, m
<1> QED BY <1>4, <1>5, <1>6 DEF Unit

LEMMA ShareIsNat == ASSUME NEW part \in Nat, NEW whole \in Nat PROVE Share(part, whole) \in Nat
<1>1. Max({whole, 1}) \in Nat \ {0}
  BY GreaterOfTwo
<1> QED BY <1>1, ProductIsNat, QuotientIsNat DEF Share, Unit

\* The curve that squashes trust is a fraction and never falls.
LEMMA TanhIsAFraction == ASSUME NEW x \in Nat PROVE Tanh(x) \in 0..Unit
<1> DEFINE p == x * x
           q == p \div 4000
<1>1. p \in Nat
  OBVIOUS
<1>2. q \in Nat /\ 4000 * q <= p /\ p < 4000 * q + 4000
  <2> HIDE DEF p
  <2> QED BY <1>1
<1>3. CASE x < 2000
  <2>1. p <= 2000 * x
    BY <1>3
  <2>2. (2000 - x) * (2000 - x) >= 0 /\ (2000 - x) * (2000 - x) = 4000000 - 4000 * x + p
    BY <1>3
  <2> HIDE DEF p, q
  <2>3. q <= x /\ x - q <= 1000
    BY <1>1, <1>2, <1>3, <2>1, <2>2
  <2>4. Tanh(x) = x - q
    BY <1>3 DEF Tanh, q, p
  <2> QED BY <1>2, <2>3, <2>4 DEF Unit
<1>4. CASE x >= 2000
  BY <1>4 DEF Tanh, Unit
<1> QED BY <1>3, <1>4

LEMMA TanhIsMonotone == ASSUME NEW x \in Nat, NEW y \in Nat, x <= y PROVE Tanh(x) <= Tanh(y)
<1>1. CASE y >= 2000
  <2>1. Tanh(y) = Unit /\ Tanh(x) \in 0..Unit
    BY <1>1, TanhIsAFraction DEF Tanh
  <2> QED BY <2>1 DEF Unit
<1>2. CASE y < 2000
  <2> DEFINE p == x * x
             r == y * y
             q == p \div 4000
             t == r \div 4000
  <2>1. p \in Nat /\ r \in Nat
    OBVIOUS
  <2>2. q \in Nat /\ 4000 * q <= p /\ p < 4000 * q + 4000
    <3> HIDE DEF p
    <3> QED BY <2>1
  <2>3. t \in Nat /\ 4000 * t <= r /\ r < 4000 * t + 4000
    <3> HIDE DEF r
    <3> QED BY <2>1
  <2>4. r - p = (y - x) * (y + x) /\ (y - x) * (y + x) <= (y - x) * 4000
    BY <1>2
  <2>5. Tanh(x) = x - q /\ Tanh(y) = y - t
    BY <1>2 DEF Tanh
  <2> HIDE DEF p, q, r, t
  <2>6. r - p <= 4000 * y - 4000 * x
    BY <2>1, <2>4
  <2>7. t - q <= y - x
    BY <2>1, <2>2, <2>3, <2>6
  <2> QED BY <2>2, <2>3, <2>5, <2>7
<1> QED BY <1>1, <1>2

LEMMA ClipIsMonotone == ASSUME NEW x \in Nat, NEW y \in Nat, x <= y PROVE Clip(x) <= Clip(y)
<1>1. \A z \in Nat : Clip(z) = IF z <= Unit THEN z ELSE Unit
  <2> TAKE z \in Nat
  <2> DEFINE m == Min({z, Unit})
  <2>1. m = IF z <= Unit THEN z ELSE Unit
    BY LesserOfTwo DEF Unit
  <2>2. m \in Nat
    BY <2>1 DEF Unit
  <2>3. Clip(z) = Max({0, m})
    BY DEF Clip
  <2> HIDE DEF m
  <2>4. Max({0, m}) = IF 0 >= m THEN 0 ELSE m
    BY <2>2, GreaterOfTwo
  <2> QED BY <2>1, <2>2, <2>3, <2>4
<1> QED BY <1>1 DEF Unit


(* Candidates *)

LEMMA CandidateFacts ==
    ASSUME NEW c \in Candidate
    PROVE  /\ c.id \in Nat /\ c.roles \in Seq(Role) /\ c.title \in Titles /\ c.skills \in Seq(Skill)
           /\ c.assessments \in Seq(Assessment) /\ c.signals \in Signals
           /\ c.texts \in [default : Match, custom : Match]
BY DEF Candidate

\* Listed positions: finitely many naturals.
LEMMA PositionsOfASequence ==
    ASSUME NEW S, NEW s \in Seq(S)
    PROVE  /\ Len(s) \in Nat /\ DOMAIN s = 1..Len(s) /\ \A i \in DOMAIN s : s[i] \in S
           /\ DOMAIN s \in SUBSET Nat /\ IsFiniteSet(DOMAIN s)
<1>1. Len(s) \in Nat /\ DOMAIN s = 1..Len(s) /\ \A i \in DOMAIN s : s[i] \in S
  OBVIOUS
<1>2. IsFiniteSet(1..Len(s)) /\ 1..Len(s) \in SUBSET Nat
  BY <1>1, UpToIsFinite
<1> QED BY <1>1, <1>2

\* The positions of the skills of these kinds.
Knowing(skills, kinds) == {i \in DOMAIN skills : skills[i].kind \in kinds}

LEMMA SkillCountIsACardinality ==
    \A c, kinds : SkillCount(c, kinds) = Cardinality(Knowing(c.skills, kinds))
BY DEF SkillCount, Count, Positions, Knowing

LEMMA KnowingIsFinite ==
    ASSUME NEW skills \in Seq(Skill), NEW kinds
    PROVE  /\ Knowing(skills, kinds) \in SUBSET (DOMAIN skills) /\ IsFiniteSet(Knowing(skills, kinds))
           /\ Cardinality(Knowing(skills, kinds)) \in Nat
<1>1. IsFiniteSet(DOMAIN skills)
  BY PositionsOfASequence
<1>2. Knowing(skills, kinds) \in SUBSET (DOMAIN skills)
  BY DEF Knowing
<1>3. IsFiniteSet(Knowing(skills, kinds))
  BY <1>1, <1>2, FS_Subset
<1> QED BY <1>2, <1>3, FS_CardinalityType

LEMMA SkillCountIsNat == ASSUME NEW c \in Candidate, NEW kinds PROVE SkillCount(c, kinds) \in Nat
BY CandidateFacts, KnowingIsFinite, SkillCountIsACardinality

\* More kinds, no fewer skills.
LEMMA SkillCountGrows ==
    ASSUME NEW c \in Candidate, NEW some, NEW kinds, some \subseteq kinds
    PROVE  SkillCount(c, some) <= SkillCount(c, kinds)
<1>1. c.skills \in Seq(Skill)
  BY CandidateFacts
<1>2. IsFiniteSet(Knowing(c.skills, kinds))
  BY <1>1, KnowingIsFinite
<1>3. Knowing(c.skills, some) \in SUBSET Knowing(c.skills, kinds)
  BY DEF Knowing
<1>4. Cardinality(Knowing(c.skills, some)) <= Cardinality(Knowing(c.skills, kinds))
  BY <1>2, <1>3, FS_Subset
<1> QED BY <1>4, SkillCountIsACardinality

LEMMA TermsOfTrust ==
    ASSUME NEW s \in Skill
    PROVE  Times(Times(s.weight, Endorsed(s.endorsements)), Used(s.months)) \in Nat
<1>1. s.weight \in Nat /\ s.endorsements \in Nat /\ s.months \in Nat
  BY DEF Skill, Unit
<1>2. Endorsed(s.endorsements) \in Nat /\ Used(s.months) \in Nat
  BY <1>1 DEF Endorsed, Used
<1> QED BY <1>1, <1>2, TimesIsNat

\* What each relevant skill adds to the trust.
TrustOf(skills) ==
    [i \in Knowing(skills, JdCore) |->
        Times(Times(skills[i].weight, Endorsed(skills[i].endorsements)), Used(skills[i].months))]

LEMMA TrustIsNumbers ==
    ASSUME NEW skills \in Seq(Skill)
    PROVE  Numbers(TrustOf(skills))
<1> DEFINE D == Knowing(skills, JdCore)
<1>1. D \in SUBSET Nat /\ IsFiniteSet(D) /\ \A i \in D : skills[i] \in Skill
  BY KnowingIsFinite, PositionsOfASequence
<1>2. DOMAIN TrustOf(skills) = D
  BY DEF TrustOf
<1>3. \A i \in D : TrustOf(skills)[i] \in Nat
  BY <1>1, TermsOfTrust DEF TrustOf
<1> QED BY <1>1, <1>2, <1>3 DEF Numbers

LEMMA SkillTrustIsNat ==
    ASSUME NEW c \in Candidate
    PROVE  SkillTrust(c) = Total(TrustOf(c.skills)) /\ SkillTrust(c) \in Nat
<1>1. SkillTrust(c) = Total(TrustOf(c.skills))
  BY DEF SkillTrust, TrustOf, Knowing, Positions
<1> QED BY <1>1, CandidateFacts, TrustIsNumbers, TotalIsNat


(* Careers *)

\* Roles in order are the same roles.
LEMMA ChronologicalRoles ==
    ASSUME NEW roles \in Seq(Role)
    PROVE  Chronological(roles) \in Seq(Role) /\ Len(Chronological(roles)) = Len(roles)
<1> DEFINE D == DOMAIN roles
           ahead == [i \in D |-> {j \in D : \/ Start(roles[j]) < Start(roles[i])
                                            \/ Start(roles[j]) = Start(roles[i]) /\ j < i}]
           order == Sorted(ahead)
           n == Len(roles)
<1>1. n \in Nat /\ D = 1..n /\ D \in SUBSET Nat /\ IsFiniteSet(D) /\ \A i \in D : roles[i] \in Role
  BY PositionsOfASequence
<1>2. \A i \in D : Start(roles[i]) \in Nat
  <2> TAKE i \in D
  <2>1. roles[i].start \in Nat \cup {None}
    BY <1>1 DEF Role
  <2> QED BY <2>1 DEF Start
<1>3. DOMAIN ahead = D /\ \A i \in D :
         ahead[i] = {j \in D : \/ Start(roles[j]) < Start(roles[i])
                               \/ Start(roles[j]) = Start(roles[i]) /\ j < i}
  OBVIOUS
<1>4. Ranks(ahead)
  <2> HIDE DEF ahead, D
  <2>1. \A x \in D : ahead[x] \subseteq D /\ x \notin ahead[x]
    BY <1>1, <1>2, <1>3
  <2>2. ASSUME NEW x \in D, NEW y \in D, x \in ahead[y], NEW z \in ahead[x] PROVE z \in ahead[y]
    <3>1. z \in D /\ z \in Nat /\ x \in Nat /\ y \in Nat
      BY <1>1, <1>3, <2>2
    <3>2. Start(roles[z]) \in Nat /\ Start(roles[x]) \in Nat /\ Start(roles[y]) \in Nat
      BY <1>2, <2>2, <3>1
    <3>3. \/ Start(roles[z]) < Start(roles[x])
          \/ Start(roles[z]) = Start(roles[x]) /\ z < x
      BY <1>3, <2>2
    <3>4. \/ Start(roles[x]) < Start(roles[y])
          \/ Start(roles[x]) = Start(roles[y]) /\ x < y
      BY <1>3, <2>2
    <3>5. \/ Start(roles[z]) < Start(roles[y])
          \/ Start(roles[z]) = Start(roles[y]) /\ z < y
      BY <3>1, <3>2, <3>3, <3>4
    <3> QED BY <1>3, <2>2, <3>1, <3>5
  <2>3. ASSUME NEW x \in D, NEW y \in D, x # y PROVE x \in ahead[y] \/ y \in ahead[x]
    <3>1. Start(roles[x]) \in Nat /\ Start(roles[y]) \in Nat /\ x \in Nat /\ y \in Nat
      BY <1>1, <1>2, <2>3
    <3> QED BY <1>3, <2>3, <3>1
  <2> QED BY <1>3, <2>1, <2>2, <2>3 DEF Ranks
<1>5. Cardinality(D) = n
  BY <1>1, UpToIsFinite
<1>6. order \in [1..n -> D]
  <2> HIDE DEF ahead
  <2> QED BY <1>1, <1>3, <1>4, <1>5, SortedIsInOrder
<1>7. Chronological(roles) = [k \in D |-> roles[order[k]]]
  BY DEF Chronological
<1> HIDE DEF order, D
<1>8. Chronological(roles) \in [1..n -> Role]
  BY <1>1, <1>6, <1>7
<1> QED BY <1>1, <1>8

\* The columns of a career that the arithmetic reads.
SoundCareer(career) ==
    /\ career.technicalRoles \in Nat /\ career.productRatio \in Nat /\ career.scope \in Nat
    /\ career.production \in BOOLEAN /\ career.allConsulting \in BOOLEAN

CareerNames ==
    {"scope", "gap", "productRatio", "allConsulting", "titleChaser", "production", "technicalRoles"}

LEMMA CareersAreSound ==
    ASSUME NEW c \in Candidate
    PROVE  SoundCareer(CareerFeatures(c)) /\ DOMAIN CareerFeatures(c) = CareerNames
<1> DEFINE roles == Chronological(c.roles)
           n == Len(roles)
           products == {i \in DOMAIN roles : ~roles[i].consulting}
           technical == {i \in DOMAIN roles : Technical(roles[i])}
           scope == IF n < 2 THEN 500 ELSE Clip(500 + 100 * (roles[n].level - roles[1].level))
           career == CareerFeatures(c)
<1>1. roles \in Seq(Role)
  BY CandidateFacts, ChronologicalRoles
<1> HIDE DEF roles
<1>2. n \in Nat /\ DOMAIN roles = 1..n /\ IsFiniteSet(DOMAIN roles) /\ \A i \in DOMAIN roles : roles[i] \in Role
  BY <1>1, PositionsOfASequence
<1>3. Cardinality(products) \in Nat /\ Cardinality(technical) \in Nat
  BY <1>2, FS_Subset, FS_CardinalityType
<1>4. scope \in Nat
  <2>1. CASE n < 2
    BY <2>1
  <2>2. CASE ~(n < 2)
    <3> DEFINE step == 500 + 100 * (roles[n].level - roles[1].level)
    <3>1. roles[n].level \in Nat /\ roles[1].level \in Nat
      BY <1>2, <2>2 DEF Role
    <3>2. step \in Int
      BY <3>1
    <3>3. scope = Clip(step)
      BY <2>2
    <3> HIDE DEF scope, step
    <3>4. Clip(step) \in 0..Unit
      BY <3>2, ClipIsAFraction
    <3> QED BY <3>3, <3>4 DEF Unit
  <2> QED BY <1>2, <2>1, <2>2
<1>5. Share(Cardinality(products), n) \in Nat
  BY <1>2, <1>3, ShareIsNat
<1>6. /\ career.scope = scope
      /\ career.productRatio = Share(Cardinality(products), n)
      /\ career.allConsulting = (n > 0 /\ Cardinality(products) = 0)
      /\ career.production = \E i \in 1..n : roles[i].production
      /\ career.technicalRoles = Cardinality(technical)
  BY DEF CareerFeatures, Count, Positions, roles
<1>7. DOMAIN career = CareerNames
  BY DEF CareerFeatures, CareerNames
<1> QED BY <1>3, <1>4, <1>5, <1>6, <1>7 DEF SoundCareer

(* Skills *)

SoundSkills(skill) ==
    /\ {skill.matched, skill.retrievalSkills, skill.llmSkills, skill.skillTrust, skill.assessed,
        skill.jdAssessed} \subseteq Nat
    /\ skill.cvDominance \in 0..Unit /\ skill.stuffer \in BOOLEAN

SkillNames ==
    {"matched", "retrievalSkills", "llmSkills", "cvDominance", "skillTrust", "stuffer", "assessed",
     "jdAssessed"}

Specialised == {"retrieval", "llm", "ml", "nlp", "cv"}

\* The scores at these positions are numbers.
LEMMA MeanIsNat ==
    ASSUME NEW a \in Seq(Assessment), NEW D \in SUBSET DOMAIN a, NEW n \in Nat
    PROVE  Total([i \in D |-> a[i].score]) \div Max({n, 1}) \in Nat
<1> DEFINE f == [i \in D |-> a[i].score]
<1>1. DOMAIN a \in SUBSET Nat /\ IsFiniteSet(DOMAIN a) /\ \A i \in DOMAIN a : a[i] \in Assessment
  BY PositionsOfASequence
<1>2. IsFiniteSet(D)
  BY <1>1, FS_Subset
<1>3. \A i \in D : a[i].score \in Nat
  <2> TAKE i \in D
  <2>1. a[i] \in Assessment
    BY <1>1
  <2>2. a[i].score \in 0..Unit
    BY <2>1 DEF Assessment
  <2> QED BY <2>2, FractionIsNat
<1>4. Numbers(f)
  BY <1>1, <1>2, <1>3 DEF Numbers
<1> HIDE DEF f
<1>5. Total(f) \in Nat
  BY <1>4, TotalIsNat
<1>6. Max({n, 1}) \in Nat \ {0}
  BY GreaterOfTwo
<1>7. Total(f) \div Max({n, 1}) \in Nat
  BY <1>5, <1>6, QuotientIsNat
<1> QED BY <1>7 DEF f

LEMMA SkillsAreSound ==
    ASSUME NEW c \in Candidate, NEW career
    PROVE  SoundSkills(SkillFeatures(c, career)) /\ DOMAIN SkillFeatures(c, career) = SkillNames
<1> DEFINE relevant == {i \in DOMAIN c.assessments : c.assessments[i].jd}
           skill == SkillFeatures(c, career)
           all == DOMAIN c.assessments
<1>1. /\ skill.matched = SkillCount(c, JdCore)
      /\ skill.retrievalSkills = SkillCount(c, {"retrieval"})
      /\ skill.llmSkills = SkillCount(c, {"llm"})
      /\ skill.cvDominance = Share(SkillCount(c, CvSpeech), SkillCount(c, Specialised))
      /\ skill.skillTrust = SkillTrust(c)
      /\ skill.stuffer = KeywordStuffer(c, career)
  BY DEF SkillFeatures, Specialised
<1>2. /\ skill.assessed = Total([i \in all |-> c.assessments[i].score]) \div Max({Len(c.assessments), 1})
      /\ skill.jdAssessed = Total([i \in relevant |-> c.assessments[i].score])
                               \div Max({Cardinality(relevant), 1})
  BY DEF SkillFeatures, Positions
<1>3. c.assessments \in Seq(Assessment) /\ relevant \in SUBSET all
  BY CandidateFacts
<1>4. Len(c.assessments) \in Nat /\ Cardinality(relevant) \in Nat
  BY <1>3, PositionsOfASequence, FS_Subset, FS_CardinalityType
<1>5. skill.assessed \in Nat /\ skill.jdAssessed \in Nat
  <2> HIDE DEF relevant, skill
  <2> QED BY <1>2, <1>3, <1>4, MeanIsNat
<1>6. skill.cvDominance \in 0..Unit
  <2>1. CvSpeech \subseteq Specialised
    BY DEF CvSpeech, Specialised
  <2>2. /\ SkillCount(c, CvSpeech) \in Nat /\ SkillCount(c, Specialised) \in Nat
        /\ SkillCount(c, CvSpeech) <= SkillCount(c, Specialised)
    BY <2>1, SkillCountIsNat, SkillCountGrows
  <2> QED BY <1>1, <2>2, ShareIsAFraction
<1>7. DOMAIN skill = SkillNames
  BY DEF SkillFeatures, SkillNames
<1>8. KeywordStuffer(c, career) \in BOOLEAN
  BY DEF KeywordStuffer
<1> HIDE DEF skill
<1>9. {skill.matched, skill.retrievalSkills, skill.llmSkills, skill.skillTrust} \subseteq Nat
  BY <1>1, SkillCountIsNat, SkillTrustIsNat
<1>10. SoundSkills(skill)
  BY <1>1, <1>5, <1>6, <1>8, <1>9 DEF SoundSkills
<1> QED BY <1>7, <1>10 DEF skill


(* Signals *)

SignalNames ==
    {"idle", "notice", "responds", "github", "availability", "engagement", "behavioural"}

LEMMA SignalsAreSound ==
    ASSUME NEW c \in Candidate
    PROVE  /\ SignalFeatures(c).availability \in Nat /\ SignalFeatures(c).engagement \in Nat
           /\ SignalFeatures(c).behavioural \in Nat /\ DOMAIN SignalFeatures(c) = SignalNames
<1> DEFINE sig == c.signals
           idle == IF sig.idle = None THEN 365 ELSE sig.idle
           open == IF sig.open THEN Unit ELSE 300
           availability == Times(Times(open, NoticeFactor(sig.notice)), Recency(idle))
           saved == Clip(100 * sig.saved)
           complete == Clip(sig.complete)
           answers == Share(100 * 24, 24 + sig.delay)
           engagement == Times(400, sig.responds) + Times(200, sig.interviews)
                         + Times(200, complete) + Times(100, saved) + answers \div Unit
           linkedin == IF sig.linkedin THEN 200 ELSE 0
           trust == 300 * sig.verified + linkedin + Times(200, complete)
           github == Max({sig.github, 0})
           behavioural == Times(350, availability) + Times(350, engagement)
                          + Times(200, trust) + Times(100, github)
           signals == SignalFeatures(c)
<1>1. sig \in Signals
  BY CandidateFacts
<1>2. /\ sig.idle \in Nat \cup {None} /\ sig.notice \in Nat /\ sig.responds \in 0..Unit
      /\ sig.interviews \in 0..Unit /\ sig.complete \in 0..Unit /\ sig.saved \in Nat
      /\ sig.delay \in Nat /\ sig.verified \in 0..2 /\ sig.github \in Nat \cup {-1}
  BY <1>1 DEF Signals
<1>3. /\ signals.availability = availability /\ signals.engagement = engagement
      /\ signals.behavioural = behavioural
  BY DEF SignalFeatures
<1>4. DOMAIN signals = SignalNames
  BY DEF SignalFeatures, SignalNames
<1> HIDE DEF sig, signals
<1>5. availability \in Nat
  <2>1. open \in Nat /\ NoticeFactor(sig.notice) \in Nat
    BY <1>2 DEF NoticeFactor, Unit
  <2>2. Recency(idle) \in Nat
    <3>1. idle \in Int
      BY <1>2
    <3> HIDE DEF idle
    <3> QED BY <3>1 DEF Recency
  <2> HIDE DEF open, idle
  <2> QED BY <2>1, <2>2, TimesIsNat
<1>6. saved \in Nat /\ complete \in Nat
  <2>1. 100 * sig.saved \in Nat /\ sig.complete \in Nat
    BY <1>2, FractionIsNat
  <2> QED BY <2>1, ClipIsNat
<1>7. answers \div Unit \in Nat
  <2>1. 100 * 24 \in Nat /\ 24 + sig.delay \in Nat
    BY <1>2
  <2>2. answers \in Nat
    BY <2>1, ShareIsNat
  <2> HIDE DEF answers
  <2> QED BY <2>2, QuotientIsNat DEF Unit
<1> HIDE DEF saved, complete, answers
<1>8. engagement \in Nat
  <2>1. sig.responds \in Nat /\ sig.interviews \in Nat
    BY <1>2, FractionIsNat
  <2>2. Times(400, sig.responds) \in Nat /\ Times(200, sig.interviews) \in Nat
    BY <2>1 DEF Times, Unit
  <2>3. Times(200, complete) \in Nat /\ Times(100, saved) \in Nat
    BY <1>6, TimesIsNat
  <2> QED BY <1>7, <2>2, <2>3
<1>9. trust \in Nat
  <2>1. Times(200, complete) \in Nat /\ linkedin \in Nat
    BY <1>6, TimesIsNat
  <2> HIDE DEF linkedin
  <2> QED BY <1>2, <2>1
<1>10. github \in Nat
  BY <1>2, GreaterOfTwo
<1> HIDE DEF availability, engagement, trust, github
<1>11. behavioural \in Nat
  <2>1. Times(350, availability) \in Nat /\ Times(350, engagement) \in Nat
    BY <1>5, <1>8 DEF Times, Unit
  <2>2. Times(200, trust) \in Nat /\ Times(100, github) \in Nat
    BY <1>9, <1>10, TimesIsNat
  <2> QED BY <2>1, <2>2
<1> QED BY <1>3, <1>4, <1>5, <1>8, <1>11 DEF signals

(* The fit *)

\* The parts of the fit, one below the other.
FitBase(career, skill) ==
    100 * Min({skill.retrievalSkills, 3}) + 25 * Min({skill.matched, 6})
    + Times(120, Tanh(skill.skillTrust \div 4)) + Times(120, skill.jdAssessed)
    + Times(100, career.productRatio) + (IF career.production THEN 80 ELSE 0)
    + Times(80, career.scope) + (50 * Min({skill.llmSkills, 3})) \div 3

Titled(c, base) == Times(base, 400 + Times(600, TitleFactor(c.title)))
OnTopic(titled, wrong) == Times(titled, Unit - Times(700, wrong))
Honest(onTopic, stuffer) == IF stuffer THEN Times(onTopic, 400) ELSE onTopic
Consulted(honest, consulting) == IF consulting THEN honest \div 2 ELSE honest

LEMMA FitInParts ==
    \A c, career, skill :
        JdFit(c, career, skill) =
            Clip(Consulted(Honest(OnTopic(Titled(c, FitBase(career, skill)),
                                          WrongSpecialisation(c, skill)),
                                  skill.stuffer),
                           career.allConsulting))
BY DEF JdFit, FitBase, Titled, OnTopic, Honest, Consulted

LEMMA FitBaseIsNat ==
    ASSUME NEW career, NEW skill, SoundCareer(career), SoundSkills(skill)
    PROVE  FitBase(career, skill) \in Nat
<1>1. /\ skill.retrievalSkills \in Nat /\ skill.matched \in Nat /\ skill.skillTrust \in Nat
      /\ skill.jdAssessed \in Nat /\ skill.llmSkills \in Nat
      /\ career.productRatio \in Nat /\ career.scope \in Nat
  BY DEF SoundSkills, SoundCareer
<1> DEFINE a == Min({skill.retrievalSkills, 3})
           b == Min({skill.matched, 6})
           t == Tanh(skill.skillTrust \div 4)
           l == Min({skill.llmSkills, 3})
           p == IF career.production THEN 80 ELSE 0
<1>2. a \in Nat /\ b \in Nat /\ l \in Nat /\ p \in Nat
  BY <1>1, LesserOfTwo
<1>3. t \in Nat
  <2>1. skill.skillTrust \div 4 \in Nat
    BY <1>1, QuotientIsNat
  <2> QED BY <2>1, TanhIsAFraction, FractionIsNat
<1>4. FitBase(career, skill) =
         100 * a + 25 * b + Times(120, t) + Times(120, skill.jdAssessed)
         + Times(100, career.productRatio) + p + Times(80, career.scope) + (50 * l) \div 3
  BY DEF FitBase
<1> HIDE DEF a, b, t, l, p
<1>5. /\ Times(120, t) \in Nat /\ Times(120, skill.jdAssessed) \in Nat
      /\ Times(100, career.productRatio) \in Nat /\ Times(80, career.scope) \in Nat
  BY <1>1, <1>3, TimesIsNat
<1>6. (50 * l) \div 3 \in Nat
  BY <1>2, QuotientIsNat
<1>7. 100 * a \in Nat /\ 25 * b \in Nat
  BY <1>2
<1> QED BY <1>2, <1>4, <1>5, <1>6, <1>7


LEMMA TitleFactorIsNat == ASSUME NEW title PROVE TitleFactor(title) \in Nat
BY DEF TitleFactor, Unit

\* How far off topic a profile is, a fraction.
LEMMA WrongIsAFraction ==
    ASSUME NEW c, NEW skill, SoundSkills(skill) PROVE WrongSpecialisation(c, skill) \in 0..Unit
<1>1. skill.cvDominance \in 0..Unit /\ 0 \in 0..Unit
  BY DEF SoundSkills, Unit
<1> QED BY <1>1 DEF WrongSpecialisation

\* Being less off topic leaves more of the fit, and never a negative part.
LEMMA OnTopicIsMonotone ==
    ASSUME NEW x \in Nat, NEW y \in Nat, NEW v \in 0..Unit, NEW w \in 0..Unit, x <= y, w <= v
    PROVE  OnTopic(x, v) \in Nat /\ OnTopic(y, w) \in Nat /\ OnTopic(x, v) <= OnTopic(y, w)
<1> DEFINE a == Times(700, v)
           b == Times(700, w)
<1>1. v \in Nat /\ w \in Nat /\ v <= Unit /\ w <= Unit
  BY DEF Unit
<1>2. a \in Nat /\ b \in Nat /\ b <= a
  BY <1>1 DEF Times, Unit
<1>3. a <= 700
  <2>1. Times(700, Unit) = 700 /\ Unit \in Nat
    BY DEF Times, Unit
  <2>2. a <= Times(700, Unit)
    BY <1>1, <2>1, TimesIsAntitone
  <2> QED BY <2>1, <2>2
<1> DEFINE p == Unit - a
           q == Unit - b
<1>4. p \in Nat /\ q \in Nat /\ p <= q
  <2> HIDE DEF a, b
  <2> QED BY <1>2, <1>3 DEF Unit
<1>5. OnTopic(x, v) = Times(x, p) /\ OnTopic(y, w) = Times(y, q)
  BY DEF OnTopic
<1> HIDE DEF p, q
<1>6. Times(x, p) <= Times(y, p) /\ Times(y, p) <= Times(y, q)
  BY <1>4, TimesIsMonotone, TimesIsAntitone
<1>7. Times(x, p) \in Nat /\ Times(y, p) \in Nat /\ Times(y, q) \in Nat
  BY <1>4, TimesIsNat
<1> QED BY <1>5, <1>6, <1>7

LEMMA TitledIsMonotone ==
    ASSUME NEW c, NEW x \in Nat, NEW y \in Nat, x <= y
    PROVE  Titled(c, x) \in Nat /\ Titled(c, y) \in Nat /\ Titled(c, x) <= Titled(c, y)
<1> DEFINE p == 400 + Times(600, TitleFactor(c.title))
<1>1. Times(600, TitleFactor(c.title)) \in Nat
  BY TitleFactorIsNat, TimesIsNat
<1>2. p \in Nat
  BY <1>1
<1>3. Titled(c, x) = Times(x, p) /\ Titled(c, y) = Times(y, p)
  BY DEF Titled
<1> HIDE DEF p
<1> QED BY <1>2, <1>3, TimesIsNat, TimesIsMonotone

\* A better base, on the same title and no further off topic, gives no smaller a fit.
LEMMA FitIsMonotone ==
    ASSUME NEW c, NEW d, c.title = d.title, NEW career, SoundCareer(career),
           NEW skill, SoundSkills(skill), NEW other, SoundSkills(other),
           FitBase(career, skill) <= FitBase(career, other),
           WrongSpecialisation(d, other) <= WrongSpecialisation(c, skill),
           skill.stuffer = other.stuffer
    PROVE  /\ JdFit(c, career, skill) \in 0..Unit /\ JdFit(d, career, other) \in 0..Unit
           /\ JdFit(c, career, skill) <= JdFit(d, career, other)
<1> DEFINE x0 == FitBase(career, skill)
           y0 == FitBase(career, other)
           x1 == Titled(c, x0)
           y1 == Titled(d, y0)
           x2 == OnTopic(x1, WrongSpecialisation(c, skill))
           y2 == OnTopic(y1, WrongSpecialisation(d, other))
           x3 == Honest(x2, skill.stuffer)
           y3 == Honest(y2, other.stuffer)
           x4 == Consulted(x3, career.allConsulting)
           y4 == Consulted(y3, career.allConsulting)
<1>1. x0 \in Nat /\ y0 \in Nat /\ x0 <= y0
  BY FitBaseIsNat
<1>2. x1 \in Nat /\ y1 \in Nat /\ x1 <= y1
  <2> HIDE DEF x0, y0
  <2>1. Titled(d, y0) = Titled(c, y0)
    BY DEF Titled
  <2> QED BY <1>1, <2>1, TitledIsMonotone
<1>3. x2 \in Nat /\ y2 \in Nat /\ x2 <= y2
  <2> HIDE DEF x1, y1
  <2> QED BY <1>2, WrongIsAFraction, OnTopicIsMonotone
<1>4. x3 \in Nat /\ y3 \in Nat /\ x3 <= y3
  <2> HIDE DEF x2, y2
  <2>1. Times(x2, 400) \in Nat /\ Times(y2, 400) \in Nat /\ Times(x2, 400) <= Times(y2, 400)
    BY <1>3, TimesIsNat, TimesIsMonotone
  <2> QED BY <1>3, <2>1 DEF Honest
<1>5. x4 \in Nat /\ y4 \in Nat /\ x4 <= y4
  <2> HIDE DEF x3, y3
  <2>1. x3 \div 2 \in Nat /\ y3 \div 2 \in Nat /\ x3 \div 2 <= y3 \div 2
    BY <1>4, QuotientIsNat, QuotientIsMonotone
  <2> QED BY <1>4, <2>1 DEF Consulted
<1>6. JdFit(c, career, skill) = Clip(x4) /\ JdFit(d, career, other) = Clip(y4)
  BY FitInParts
<1> HIDE DEF x4, y4
<1> QED BY <1>5, <1>6, ClipIsAFraction, ClipIsMonotone


(* The row of a candidate *)

LEMMA WithColumns ==
    ASSUME NEW part, NEW other
    PROVE  /\ DOMAIN With(part, other) = DOMAIN part \cup DOMAIN other
           /\ \A name \in DOMAIN part : With(part, other)[name] = part[name]
           /\ \A name \in DOMAIN other \ DOMAIN part : With(part, other)[name] = other[name]
BY DEF With

\* The columns a row has of its own.
Own(c) ==
    LET career == CareerFeatures(c)
        skill == SkillFeatures(c, career)
    IN  [id |-> c.id, texts |-> c.texts, honeypot |-> Honeypot(c), bonus |-> 0,
         fit |-> JdFit(c, career, skill), location |-> LocationFit(c),
         wrongSpec |-> WrongSpecialisation(c, skill)]

Facts(c) ==
    With(Own(c), With(CareerFeatures(c),
                      With(SkillFeatures(c, CareerFeatures(c)), SignalFeatures(c))))

LEMMA RowInParts ==
    \A c : FeatureRow(c) = With([passed |-> HardGates(Facts(c)) = {}], Facts(c))
BY DEF FeatureRow, Facts, Own

\* Where each column that is read later comes from.
LEMMA RowOfACandidate ==
    ASSUME NEW c \in Candidate
    PROVE  LET career == CareerFeatures(c)
               skill == SkillFeatures(c, career)
               signals == SignalFeatures(c)
               row == FeatureRow(c)
           IN  /\ row.passed \in BOOLEAN
               /\ row.id = c.id /\ row.texts = c.texts /\ row.honeypot = Honeypot(c) /\ row.bonus = 0
               /\ row.fit = JdFit(c, career, skill) /\ row.location = LocationFit(c)
               /\ row.technicalRoles = career.technicalRoles /\ row.production = career.production
               /\ row.productRatio = career.productRatio
               /\ row.retrievalSkills = skill.retrievalSkills /\ row.llmSkills = skill.llmSkills
               /\ row.matched = skill.matched /\ row.assessed = skill.assessed
               /\ row.availability = signals.availability /\ row.engagement = signals.engagement
               /\ row.behavioural = signals.behavioural
<1> DEFINE career == CareerFeatures(c)
           skill == SkillFeatures(c, career)
           signals == SignalFeatures(c)
           own == Own(c)
           passed == [passed |-> HardGates(Facts(c)) = {}]
           judged == With(skill, signals)
           employed == With(career, judged)
           row == FeatureRow(c)
<1>1. DOMAIN career = CareerNames /\ DOMAIN skill = SkillNames /\ DOMAIN signals = SignalNames
  BY CareersAreSound, SkillsAreSound, SignalsAreSound
<1>2. /\ DOMAIN own = {"id", "texts", "honeypot", "bonus", "fit", "location", "wrongSpec"}
      /\ own.id = c.id /\ own.texts = c.texts /\ own.honeypot = Honeypot(c) /\ own.bonus = 0
      /\ own.fit = JdFit(c, career, skill) /\ own.location = LocationFit(c)
  BY DEF Own
<1>3. DOMAIN passed = {"passed"} /\ passed.passed \in BOOLEAN
  OBVIOUS
<1>4. row = With(passed, With(own, employed))
  BY RowInParts DEF Facts
<1> HIDE DEF passed, own, career, skill, signals, row
<1>5. /\ DOMAIN judged = SkillNames \cup SignalNames
      /\ \A name \in SkillNames : judged[name] = skill[name]
      /\ \A name \in SignalNames \ SkillNames : judged[name] = signals[name]
  BY <1>1, WithColumns
<1> HIDE DEF judged
<1>6. /\ DOMAIN employed = CareerNames \cup (SkillNames \cup SignalNames)
      /\ \A name \in CareerNames : employed[name] = career[name]
      /\ \A name \in (SkillNames \cup SignalNames) \ CareerNames : employed[name] = judged[name]
  <2>1. /\ DOMAIN employed = DOMAIN career \cup DOMAIN judged
        /\ \A name \in DOMAIN career : employed[name] = career[name]
        /\ \A name \in DOMAIN judged \ DOMAIN career : employed[name] = judged[name]
    BY WithColumns
  <2> HIDE DEF employed
  <2> QED BY <1>1, <1>5, <2>1
<1> HIDE DEF employed
<1> DEFINE facts == With(own, employed)
<1>7. /\ DOMAIN facts = DOMAIN own \cup (CareerNames \cup (SkillNames \cup SignalNames))
      /\ \A name \in DOMAIN own : facts[name] = own[name]
      /\ \A name \in (CareerNames \cup (SkillNames \cup SignalNames)) \ DOMAIN own :
            facts[name] = employed[name]
  <2>1. /\ DOMAIN facts = DOMAIN own \cup DOMAIN employed
        /\ \A name \in DOMAIN own : facts[name] = own[name]
        /\ \A name \in DOMAIN employed \ DOMAIN own : facts[name] = employed[name]
    BY WithColumns
  <2> HIDE DEF facts
  <2> QED BY <1>6, <2>1
<1> HIDE DEF facts
<1>8. /\ row["passed"] = passed["passed"]
      /\ \A name \in DOMAIN facts \ {"passed"} : row[name] = facts[name]
  <2>1. row = With(passed, facts)
    BY <1>4 DEF facts
  <2>2. /\ \A name \in DOMAIN passed : With(passed, facts)[name] = passed[name]
        /\ \A name \in DOMAIN facts \ DOMAIN passed : With(passed, facts)[name] = facts[name]
    BY WithColumns
  <2> QED BY <1>3, <2>1, <2>2
<1>9. /\ \A name \in {"id", "texts", "honeypot", "bonus", "fit", "location"} : row[name] = own[name]
  BY <1>2, <1>7, <1>8
<1>10. \A name \in {"technicalRoles", "production", "productRatio"} : row[name] = career[name]
  BY <1>2, <1>6, <1>7, <1>8 DEF CareerNames
<1>11. \A name \in {"retrievalSkills", "llmSkills", "matched", "assessed"} : row[name] = skill[name]
  BY <1>2, <1>5, <1>6, <1>7, <1>8 DEF CareerNames, SkillNames
<1>12. \A name \in {"availability", "engagement", "behavioural"} : row[name] = signals[name]
  BY <1>2, <1>5, <1>6, <1>7, <1>8 DEF CareerNames, SkillNames, SignalNames
<1>13. /\ row.passed \in BOOLEAN
       /\ row.id = c.id /\ row.texts = c.texts /\ row.honeypot = Honeypot(c) /\ row.bonus = 0
       /\ row.fit = JdFit(c, career, skill) /\ row.location = LocationFit(c)
  BY <1>2, <1>3, <1>8, <1>9
<1>14. /\ row.technicalRoles = career.technicalRoles /\ row.production = career.production
       /\ row.productRatio = career.productRatio
  BY <1>10
<1>15. /\ row.retrievalSkills = skill.retrievalSkills /\ row.llmSkills = skill.llmSkills
       /\ row.matched = skill.matched /\ row.assessed = skill.assessed
  BY <1>11
<1>16. /\ row.availability = signals.availability /\ row.engagement = signals.engagement
       /\ row.behavioural = signals.behavioural
  BY <1>12
<1> QED BY <1>13, <1>14, <1>15, <1>16 DEF row, career, skill, signals

\* What the arithmetic of a ranking reads of a feature row.
Amounts(row) == {row.id, row.fit, row.retrievalSkills, row.llmSkills, row.matched, row.assessed,
                 row.productRatio, row.bonus, row.behavioural, row.availability, row.engagement,
                 row.location}

Sound(row) ==
    /\ Amounts(row) \subseteq Nat
    /\ {row.honeypot, row.passed, row.production} \subseteq BOOLEAN
    /\ \A jd \in {"default", "custom"} :
          row.texts[jd].bm25 \in Int /\ row.texts[jd].cosine \in Int /\ row.texts[jd].deep \in Nat

\* Whatever a candidate within the schema says, no amount of its row is negative.
THEOREM RowsAreSound == ASSUME NEW c \in Candidate PROVE Sound(FeatureRow(c)) /\ FeatureRow(c).id = c.id
<1> DEFINE career == CareerFeatures(c)
           skill == SkillFeatures(c, career)
           signals == SignalFeatures(c)
           row == FeatureRow(c)
<1>1. SoundCareer(career) /\ SoundSkills(skill)
  BY CareersAreSound, SkillsAreSound
<1>2. signals.availability \in Nat /\ signals.engagement \in Nat /\ signals.behavioural \in Nat
  BY SignalsAreSound
<1>3. JdFit(c, career, skill) \in Nat
  <2> HIDE DEF career, skill
  <2>1. /\ FitBase(career, skill) <= FitBase(career, skill)
        /\ WrongSpecialisation(c, skill) <= WrongSpecialisation(c, skill)
    BY <1>1, FitBaseIsNat, WrongIsAFraction, FractionIsNat
  <2>2. JdFit(c, career, skill) \in 0..Unit
    BY <1>1, <2>1, FitIsMonotone
  <2> QED BY <2>2, FractionIsNat
<1>4. LocationFit(c) \in Nat /\ Honeypot(c) \in BOOLEAN /\ c.id \in Nat
  BY CandidateFacts DEF LocationFit, Honeypot, Unit
<1>5. \A jd \in {"default", "custom"} :
         c.texts[jd].bm25 \in Int /\ c.texts[jd].cosine \in Int /\ c.texts[jd].deep \in Nat
  <2>1. c.texts \in [default : Match, custom : Match]
    BY CandidateFacts
  <2>2. c.texts["default"] \in Match /\ c.texts["custom"] \in Match
    BY <2>1
  <2>3. \A m \in Match : m.bm25 \in Int /\ m.cosine \in Int /\ m.deep \in Nat
    BY DEF Match
  <2> QED BY <2>2, <2>3
<1>6. /\ row.passed \in BOOLEAN /\ row.honeypot = Honeypot(c) /\ row.production = career.production
      /\ row.id = c.id /\ row.texts = c.texts /\ row.bonus = 0 /\ row.fit = JdFit(c, career, skill)
      /\ row.location = LocationFit(c) /\ row.productRatio = career.productRatio
  BY RowOfACandidate
<1>7. /\ row.retrievalSkills = skill.retrievalSkills /\ row.llmSkills = skill.llmSkills
      /\ row.matched = skill.matched /\ row.assessed = skill.assessed
      /\ row.availability = signals.availability /\ row.engagement = signals.engagement
      /\ row.behavioural = signals.behavioural
  BY RowOfACandidate
<1> HIDE DEF career, skill, signals, row
<1>8. Amounts(row) \subseteq Nat
  <2>1. /\ row.id \in Nat /\ row.fit \in Nat /\ row.bonus \in Nat /\ row.location \in Nat
        /\ row.productRatio \in Nat
    BY <1>1, <1>3, <1>4, <1>6 DEF SoundCareer
  <2>2. /\ row.retrievalSkills \in Nat /\ row.llmSkills \in Nat /\ row.matched \in Nat
        /\ row.assessed \in Nat
    BY <1>1, <1>7 DEF SoundSkills
  <2>3. row.availability \in Nat /\ row.engagement \in Nat /\ row.behavioural \in Nat
    BY <1>2, <1>7
  <2> QED BY <2>1, <2>2, <2>3 DEF Amounts
<1>9. {row.honeypot, row.passed, row.production} \subseteq BOOLEAN
  BY <1>1, <1>4, <1>6 DEF SoundCareer
<1> QED BY <1>5, <1>6, <1>8, <1>9 DEF Sound, row


(* One more skill *)

Lesson(kind) == [kind |-> kind, weight |-> 500, endorsements |-> 0, months |-> 1]

LEMMA LearnsFacts ==
    ASSUME NEW c \in Candidate, NEW kind \in Kinds
    PROVE  LET d == Learns(c, kind)
           IN  /\ d \in Candidate /\ d.skills = Append(c.skills, Lesson(kind)) /\ Lesson(kind) \in Skill
               /\ d.roles = c.roles /\ d.title = c.title /\ d.assessments = c.assessments
<1> DEFINE d == Learns(c, kind)
           skills == Append(c.skills, Lesson(kind))
<1>1. Lesson(kind) \in Skill
  BY DEF Lesson, Skill, Unit
<1>2. d = [c EXCEPT !.skills = skills]
  BY DEF Learns, Lesson
<1>3. skills \in Seq(Skill)
  BY <1>1, CandidateFacts
<1> HIDE DEF d, skills
<1>4. d \in Candidate
  BY <1>2, <1>3 DEF Candidate
<1>5. d.skills = skills /\ d.roles = c.roles /\ d.title = c.title /\ d.assessments = c.assessments
  BY <1>2 DEF Candidate
<1> QED BY <1>1, <1>4, <1>5 DEF d, skills

\* The new skill stands behind the others.
LEMMA LessonsAreBehind ==
    ASSUME NEW skills \in Seq(Skill), NEW s \in Skill
    PROVE  LET more == Append(skills, s)
           IN  /\ more \in Seq(Skill) /\ DOMAIN more = DOMAIN skills \cup {Len(skills) + 1}
               /\ \A i \in DOMAIN skills : more[i] = skills[i]
               /\ more[Len(skills) + 1] = s /\ Len(skills) + 1 \notin DOMAIN skills
OBVIOUS

\* Learning loses no skill, adds one of the kind learned, and none of another.
LEMMA LearningCounts ==
    ASSUME NEW c \in Candidate, NEW kind \in Kinds, NEW kinds
    PROVE  LET d == Learns(c, kind)
           IN  /\ SkillCount(d, kinds) \in Nat /\ SkillCount(c, kinds) \in Nat
               /\ SkillCount(c, kinds) <= SkillCount(d, kinds)
               /\ kind \notin kinds => SkillCount(d, kinds) = SkillCount(c, kinds)
<1> DEFINE d == Learns(c, kind)
           some == Knowing(c.skills, kinds)
           more == Knowing(d.skills, kinds)
           last == Len(c.skills) + 1
<1>1. /\ d \in Candidate /\ c.skills \in Seq(Skill) /\ d.skills \in Seq(Skill)
      /\ d.skills = Append(c.skills, Lesson(kind)) /\ Lesson(kind) \in Skill
  BY LearnsFacts, CandidateFacts
<1> HIDE DEF d
<1>2. /\ DOMAIN d.skills = DOMAIN c.skills \cup {last} /\ last \notin DOMAIN c.skills
      /\ \A i \in DOMAIN c.skills : d.skills[i] = c.skills[i]
      /\ d.skills[last] = Lesson(kind)
  BY <1>1, LessonsAreBehind
<1> HIDE DEF last
<1>3. some \in SUBSET more
  BY <1>2 DEF Knowing
<1>4. kind \notin kinds => more = some
  <2>1. Lesson(kind).kind = kind
    BY DEF Lesson
  <2> QED BY <1>2, <2>1 DEF Knowing
<1>5. IsFiniteSet(more)
  BY <1>1, KnowingIsFinite
<1>6. Cardinality(some) <= Cardinality(more)
  <2> HIDE DEF some, more
  <2> QED BY <1>3, <1>5, FS_Subset
<1>7. SkillCount(c, kinds) = Cardinality(some) /\ SkillCount(d, kinds) = Cardinality(more)
  BY SkillCountIsACardinality
<1>8. SkillCount(c, kinds) \in Nat /\ SkillCount(d, kinds) \in Nat
  BY <1>1, SkillCountIsNat
<1> QED BY <1>4, <1>6, <1>7, <1>8 DEF d

\* Nobody has endorsed the new skill: it adds no trust and takes none.
LEMMA LearningKeepsTrust ==
    ASSUME NEW c \in Candidate, NEW kind \in Kinds
    PROVE  SkillTrust(c) <= SkillTrust(Learns(c, kind))
<1> DEFINE d == Learns(c, kind)
           last == Len(c.skills) + 1
           f == TrustOf(c.skills)
           g == TrustOf(d.skills)
<1>1. /\ d \in Candidate /\ c.skills \in Seq(Skill) /\ d.skills \in Seq(Skill)
      /\ d.skills = Append(c.skills, Lesson(kind)) /\ Lesson(kind) \in Skill
  BY LearnsFacts, CandidateFacts
<1> HIDE DEF d
<1>2. /\ DOMAIN d.skills = DOMAIN c.skills \cup {last}
      /\ \A i \in DOMAIN c.skills : d.skills[i] = c.skills[i]
  BY <1>1, LessonsAreBehind
<1> HIDE DEF last
<1>3. Numbers(f) /\ Numbers(g)
  BY <1>1, TrustIsNumbers
<1>4. DOMAIN f = Knowing(c.skills, JdCore) /\ DOMAIN g = Knowing(d.skills, JdCore)
  BY DEF TrustOf
<1>5. DOMAIN f \subseteq DOMAIN g
  BY <1>2, <1>4 DEF Knowing
<1>6. \A i \in DOMAIN f : f[i] = g[i]
  BY <1>2, <1>5 DEF TrustOf, Knowing
<1>7. \A i \in DOMAIN f : f[i] <= g[i]
  BY <1>3, <1>6 DEF Numbers
<1>8. SkillTrust(c) = Total(f) /\ SkillTrust(d) = Total(g)
  BY <1>1, SkillTrustIsNat
<1> HIDE DEF f, g
<1>9. Total(f) <= Total(g)
  BY <1>3, <1>5, <1>7, TotalIsMonotone
<1> QED BY <1>8, <1>9 DEF d

\* A larger whole makes no larger share.
LEMMA ShareIsAntitone ==
    ASSUME NEW part \in Nat, NEW whole \in Nat, NEW more \in Nat, whole <= more
    PROVE  Share(part, more) <= Share(part, whole)
<1> DEFINE d == Max({whole, 1})
           e == Max({more, 1})
<1>1. d \in Nat \ {0} /\ e \in Nat \ {0} /\ d <= e
  BY GreaterOfTwo
<1>2. Unit * part \in Nat
  BY DEF Unit
<1> HIDE DEF d, e
<1>3. (Unit * part) \div e <= (Unit * part) \div d
  BY <1>1, <1>2, QuotientIsAntitone
<1> QED BY <1>3 DEF Share, d, e

\* One more skill on the topic leaves nobody further off it.
LEMMA LearningStaysOnTopic ==
    ASSUME NEW c \in Candidate, NEW kind \in Kinds, kind \notin CvSpeech, NEW career
    PROVE  WrongSpecialisation(Learns(c, kind), SkillFeatures(Learns(c, kind), career))
              <= WrongSpecialisation(c, SkillFeatures(c, career))
<1> DEFINE d == Learns(c, kind)
           skill == SkillFeatures(c, career)
           other == SkillFeatures(d, career)
<1>1. d \in Candidate
  BY LearnsFacts
<1>2. SoundSkills(skill) /\ SoundSkills(other)
  BY <1>1, SkillsAreSound
<1>3. /\ skill.retrievalSkills = SkillCount(c, {"retrieval"})
      /\ skill.llmSkills = SkillCount(c, {"llm"})
      /\ skill.cvDominance = Share(SkillCount(c, CvSpeech), SkillCount(c, Specialised))
      /\ other.retrievalSkills = SkillCount(d, {"retrieval"})
      /\ other.llmSkills = SkillCount(d, {"llm"})
      /\ other.cvDominance = Share(SkillCount(d, CvSpeech), SkillCount(d, Specialised))
  BY DEF SkillFeatures, Specialised
<1>4. \A kinds : /\ SkillCount(d, kinds) \in Nat /\ SkillCount(c, kinds) \in Nat
                 /\ SkillCount(c, kinds) <= SkillCount(d, kinds)
                 /\ kind \notin kinds => SkillCount(d, kinds) = SkillCount(c, kinds)
  BY LearningCounts
<1> HIDE DEF d, skill, other
<1>5. other.cvDominance <= skill.cvDominance
  <2>1. SkillCount(d, CvSpeech) = SkillCount(c, CvSpeech)
    BY <1>4
  <2>2. Share(SkillCount(c, CvSpeech), SkillCount(d, Specialised))
           <= Share(SkillCount(c, CvSpeech), SkillCount(c, Specialised))
    BY <1>4, ShareIsAntitone
  <2> QED BY <1>3, <2>1, <2>2
<1>6. /\ skill.retrievalSkills > 0 => other.retrievalSkills > 0
      /\ skill.llmSkills > 0 => other.llmSkills > 0
      /\ SkillCount(c, {"nlp"}) > 0 => SkillCount(d, {"nlp"}) > 0
  <2>1. /\ SkillCount(c, {"retrieval"}) <= SkillCount(d, {"retrieval"})
        /\ SkillCount(c, {"llm"}) <= SkillCount(d, {"llm"})
        /\ SkillCount(c, {"nlp"}) <= SkillCount(d, {"nlp"})
        /\ SkillCount(c, {"retrieval"}) \in Nat /\ SkillCount(d, {"retrieval"}) \in Nat
        /\ SkillCount(c, {"llm"}) \in Nat /\ SkillCount(d, {"llm"}) \in Nat
        /\ SkillCount(c, {"nlp"}) \in Nat /\ SkillCount(d, {"nlp"}) \in Nat
    BY <1>4
  <2> QED BY <1>3, <2>1
<1>7. skill.cvDominance \in Nat /\ other.cvDominance \in Nat
  BY <1>2, FractionIsNat DEF SoundSkills
<1>8. WrongSpecialisation(d, other) <= WrongSpecialisation(c, skill)
  BY <1>5, <1>6, <1>7 DEF WrongSpecialisation
<1> QED BY <1>8 DEF d, skill, other

\* One more skill leaves no part of the base smaller.
LEMMA LearningKeepsTheBase ==
    ASSUME NEW c \in Candidate, NEW kind \in Kinds, NEW career, SoundCareer(career)
    PROVE  FitBase(career, SkillFeatures(c, career))
              <= FitBase(career, SkillFeatures(Learns(c, kind), career))
<1> DEFINE d == Learns(c, kind)
           skill == SkillFeatures(c, career)
           other == SkillFeatures(d, career)
<1>1. d \in Candidate /\ d.assessments = c.assessments
  BY LearnsFacts
<1>2. SoundSkills(skill) /\ SoundSkills(other)
  BY <1>1, SkillsAreSound
<1>3. /\ skill.retrievalSkills <= other.retrievalSkills /\ skill.llmSkills <= other.llmSkills
      /\ skill.matched <= other.matched
  <2>1. \A kinds : SkillCount(c, kinds) <= SkillCount(d, kinds)
    BY LearningCounts
  <2> HIDE DEF d
  <2> QED BY <2>1 DEF SkillFeatures
<1>4. skill.skillTrust <= other.skillTrust
  <2>1. SkillTrust(c) <= SkillTrust(d)
    BY LearningKeepsTrust
  <2> HIDE DEF d
  <2> QED BY <2>1 DEF SkillFeatures
<1>5. skill.jdAssessed = other.jdAssessed
  <2> HIDE DEF d
  <2> QED BY <1>1 DEF SkillFeatures, Positions
<1> HIDE DEF d, skill, other
<1>6. /\ skill.retrievalSkills \in Nat /\ other.retrievalSkills \in Nat
      /\ skill.matched \in Nat /\ other.matched \in Nat
      /\ skill.llmSkills \in Nat /\ other.llmSkills \in Nat
      /\ skill.skillTrust \in Nat /\ other.skillTrust \in Nat /\ skill.jdAssessed \in Nat
      /\ career.productRatio \in Nat /\ career.scope \in Nat
  BY <1>2 DEF SoundSkills, SoundCareer
<1> DEFINE a == Min({skill.retrievalSkills, 3})
           a1 == Min({other.retrievalSkills, 3})
           b == Min({skill.matched, 6})
           b1 == Min({other.matched, 6})
           t == Times(120, Tanh(skill.skillTrust \div 4))
           t1 == Times(120, Tanh(other.skillTrust \div 4))
           l == (50 * Min({skill.llmSkills, 3})) \div 3
           l1 == (50 * Min({other.llmSkills, 3})) \div 3
           j == Times(120, skill.jdAssessed)
           p == Times(100, career.productRatio)
           k == IF career.production THEN 80 ELSE 0
           s == Times(80, career.scope)
<1>7. a \in Nat /\ a1 \in Nat /\ a <= a1 /\ b \in Nat /\ b1 \in Nat /\ b <= b1
  BY <1>3, <1>6, LesserOfTwo
<1>8. l \in Nat /\ l1 \in Nat /\ l <= l1
  <2> DEFINE m == Min({skill.llmSkills, 3})
             m1 == Min({other.llmSkills, 3})
  <2>1. m \in Nat /\ m1 \in Nat /\ m <= m1
    BY <1>3, <1>6, LesserOfTwo
  <2> HIDE DEF m, m1
  <2>2. 50 * m \in Nat /\ 50 * m1 \in Nat /\ 50 * m <= 50 * m1
    BY <2>1
  <2>3. (50 * m) \div 3 \in Nat /\ (50 * m1) \div 3 \in Nat /\ (50 * m) \div 3 <= (50 * m1) \div 3
    BY <2>2, QuotientIsNat, QuotientIsMonotone
  <2> QED BY <2>3 DEF m, m1
<1>9. t \in Nat /\ t1 \in Nat /\ t <= t1
  <2> DEFINE x == skill.skillTrust \div 4
             y == other.skillTrust \div 4
  <2>1. x \in Nat /\ y \in Nat /\ x <= y
    BY <1>4, <1>6, QuotientIsNat, QuotientIsMonotone
  <2> HIDE DEF x, y
  <2>2. Tanh(x) \in Nat /\ Tanh(y) \in Nat /\ Tanh(x) <= Tanh(y)
    BY <2>1, TanhIsAFraction, TanhIsMonotone, FractionIsNat
  <2>3. 120 \in Nat
    OBVIOUS
  <2>4. Times(120, Tanh(x)) \in Nat /\ Times(120, Tanh(y)) \in Nat
    BY <2>2 DEF Times, Unit
  <2>5. Times(120, Tanh(x)) <= Times(120, Tanh(y))
    BY <2>2, <2>3, TimesIsAntitone
  <2> QED BY <2>4, <2>5 DEF x, y
<1>10. j \in Nat /\ p \in Nat /\ k \in Nat /\ s \in Nat
  BY <1>6 DEF Times, Unit
<1>11. /\ FitBase(career, skill) = 100 * a + 25 * b + t + j + p + k + s + l
       /\ FitBase(career, other) = 100 * a1 + 25 * b1 + t1 + j + p + k + s + l1
  BY <1>5 DEF FitBase
<1> HIDE DEF a, a1, b, b1, t, t1, l, l1, j, p, k, s
<1>12. FitBase(career, skill) <= FitBase(career, other)
  BY <1>7, <1>8, <1>9, <1>10, <1>11
<1> QED BY <1>12 DEF d, skill, other

\* For a career with a technical role, one more skill on the topic leaves no smaller a fit.
LEMMA LearningNeverHurts ==
    ASSUME NEW c \in Candidate, NEW kind \in Kinds, kind \notin CvSpeech,
           FeatureRow(c).technicalRoles > 0
    PROVE  FeatureRow(Learns(c, kind)).fit >= FeatureRow(c).fit
<1> DEFINE d == Learns(c, kind)
           career == CareerFeatures(c)
           skill == SkillFeatures(c, career)
           other == SkillFeatures(d, career)
<1>1. d \in Candidate /\ d.title = c.title /\ d.roles = c.roles
  BY LearnsFacts
<1>2. CareerFeatures(d) = career
  <2> HIDE DEF d
  <2> QED BY <1>1 DEF CareerFeatures
<1>3. career.technicalRoles \in Nat /\ career.technicalRoles > 0
  <2>1. FeatureRow(c).technicalRoles = career.technicalRoles
    BY RowOfACandidate
  <2> QED BY <2>1, CareersAreSound DEF SoundCareer
<1>4. SoundCareer(career) /\ SoundSkills(skill) /\ SoundSkills(other)
  BY <1>1, CareersAreSound, SkillsAreSound
<1>5. FeatureRow(c).fit = JdFit(c, career, skill) /\ FeatureRow(d).fit = JdFit(d, career, other)
  BY <1>1, <1>2, RowOfACandidate
<1>6. /\ FitBase(career, skill) <= FitBase(career, other)
      /\ WrongSpecialisation(d, other) <= WrongSpecialisation(c, skill)
  BY <1>4, LearningKeepsTheBase, LearningStaysOnTopic
<1>7. skill.stuffer = FALSE /\ other.stuffer = FALSE
  <2>1. skill.stuffer = KeywordStuffer(c, career) /\ other.stuffer = KeywordStuffer(d, career)
    BY DEF SkillFeatures
  <2> HIDE DEF career, d
  <2>2. ~KeywordStuffer(c, career) /\ ~KeywordStuffer(d, career)
    BY <1>3 DEF KeywordStuffer
  <2>3. KeywordStuffer(c, career) \in BOOLEAN /\ KeywordStuffer(d, career) \in BOOLEAN
    BY DEF KeywordStuffer
  <2> QED BY <2>1, <2>2, <2>3
<1> HIDE DEF d, career, skill, other
<1>8. /\ JdFit(c, career, skill) \in 0..Unit /\ JdFit(d, career, other) \in 0..Unit
      /\ JdFit(c, career, skill) <= JdFit(d, career, other)
  BY <1>1, <1>4, <1>6, <1>7, FitIsMonotone
<1>9. FeatureRow(d).fit >= FeatureRow(c).fit
  BY <1>5, <1>8, FractionIsNat
<1> QED BY <1>9 DEF d
=============================================================================
