--------------------------- MODULE RankingProofs ---------------------------
(***************************************************************************)
(* Proofs about Ranking, for every candidates file, every head size and any *)
(* number of failures. They rest on Sorted, the only order the ranking       *)
(* uses, and on one inductive invariant, Ordered.                            *)
(***************************************************************************)
EXTENDS Ranking, FeaturesProofs, SequenceTheorems

(* Columns *)

LEMMA ExtremesOfAColumn ==
    ASSUME NEW D, IsFiniteSet(D), D # {}, NEW col \in [D -> Int]
    PROVE  /\ MaxOf(col) \in Int /\ MinOf(col) \in Int /\ \E i \in D : col[i] = MinOf(col)
           /\ \A i \in D : MinOf(col) <= col[i] /\ col[i] <= MaxOf(col)
<1>1. Range(col) \in SUBSET Int /\ Range(col) # {} /\ \A i \in D : col[i] \in Range(col)
  BY DEF Range
<1>2. IsFiniteSet(Range(col))
  <2>1. col \in Surjection(D, Range(col))
    BY DEF Surjection, Range
  <2> QED BY <2>1, FS_Surjection
<1>3. \A x \in Range(col) : \E i \in D : col[i] = x
  BY DEF Range
<1> QED BY <1>1, <1>2, <1>3, MaxIsThere, MinIsThere DEF MaxOf, MinOf

\* Normalising a column keeps its order, and its zeros when nothing is below them.
LEMMA MinMaxOfIntegers ==
    ASSUME NEW D, IsFiniteSet(D), NEW col \in [D -> Int]
    PROVE  /\ MinMax(col) \in [D -> Nat]
           /\ \A i, j \in D : col[i] >= col[j] => MinMax(col)[i] >= MinMax(col)[j]
           /\ \A i \in D : col[i] = 0 /\ (\A j \in D : col[j] >= 0) => MinMax(col)[i] = 0
<1> DEFINE low == MinOf(col)
           high == MaxOf(col)
           scaled(i) == (Unit * (col[i] - low)) \div (high - low)
<1>1. MinMax(col) = [i \in D |-> IF high = low THEN 0 ELSE scaled(i)]
  BY DEF MinMax
<1>2. D # {} => /\ low \in Int /\ high \in Int /\ \E i \in D : col[i] = low
                /\ \A i \in D : low <= col[i] /\ col[i] <= high
  BY ExtremesOfAColumn
<1> HIDE DEF low, high
<1>3. ASSUME NEW i \in D, high # low
      PROVE  /\ high - low \in Nat \ {0} /\ Unit * (col[i] - low) \in Nat /\ scaled(i) \in Nat
             /\ col[i] = low => scaled(i) = 0
  <2>1. high - low \in Nat \ {0} /\ Unit * (col[i] - low) \in Nat
    BY <1>2, <1>3 DEF Unit
  <2>2. col[i] = low => Unit * (col[i] - low) = 0
    BY <1>2 DEF Unit
  <2>3. \A d \in Nat \ {0} : 0 \div d = 0
    OBVIOUS
  <2> QED BY <2>1, <2>2, <2>3, QuotientIsNat
<1>4. ASSUME NEW i \in D, NEW j \in D, high # low, col[i] >= col[j] PROVE scaled(i) >= scaled(j)
  <2>1. Unit * (col[j] - low) <= Unit * (col[i] - low)
    BY <1>2, <1>4 DEF Unit
  <2>2. scaled(j) <= scaled(i)
    BY <1>3, <1>4, <2>1, QuotientIsMonotone
  <2> QED BY <1>3, <1>4, <2>2
<1> HIDE DEF scaled
<1>5. ASSUME NEW i \in D
      PROVE  MinMax(col)[i] \in Nat /\ (col[i] = low => MinMax(col)[i] = 0)
  BY <1>1, <1>3
<1>6. ASSUME NEW i \in D, col[i] = 0, \A j \in D : col[j] >= 0 PROVE col[i] = low
  BY <1>2, <1>6
<1>7. ASSUME NEW i \in D, NEW j \in D, col[i] >= col[j] PROVE MinMax(col)[i] >= MinMax(col)[j]
  BY <1>1, <1>4, <1>7
<1> QED BY <1>1, <1>5, <1>6, <1>7

\* A column without negative values keeps all its zeros.
LEMMA MinMaxKeepsOrder ==
    ASSUME NEW D, IsFiniteSet(D), NEW col \in [D -> Nat]
    PROVE  /\ MinMax(col) \in [D -> Nat]
           /\ \A i, j \in D : col[i] >= col[j] => MinMax(col)[i] >= MinMax(col)[j]
           /\ \A i \in D : col[i] = 0 => MinMax(col)[i] = 0
<1>1. col \in [D -> Int] /\ \A j \in D : col[j] >= 0
  OBVIOUS
<1> QED BY <1>1, MinMaxOfIntegers

\* Rows of a column of scores, which may be negative: positions, and integers in them.
ColumnOf(D, col) == D \in SUBSET Nat /\ IsFiniteSet(D) /\ col \in [D -> Int]

LEMMA RankOfKeepsOrder ==
    ASSUME NEW D, NEW col, ColumnOf(D, col)
    PROVE  \A i, j \in D : /\ RankOf(col, i) \in Nat
                           /\ col[i] > col[j] => RankOf(col, i) <= RankOf(col, j)
<1> DEFINE ahead(i) == {j \in D : col[j] > col[i] \/ (col[j] = col[i] /\ j < i)}
<1>1. \A i \in D : RankOf(col, i) = Cardinality(ahead(i)) /\ ahead(i) \in SUBSET D
  BY DEF RankOf, ColumnOf
<1>2. \A i \in D : IsFiniteSet(ahead(i)) /\ Cardinality(ahead(i)) \in Nat
  BY <1>1, FS_Subset, FS_CardinalityType DEF ColumnOf
<1>3. ASSUME NEW i \in D, NEW j \in D, col[i] > col[j], NEW m \in ahead(i) PROVE m \in ahead(j)
  <2>1. m \in D /\ col[m] >= col[i] /\ col[m] \in Int /\ col[i] \in Int /\ col[j] \in Int
    BY DEF ColumnOf
  <2> QED BY <1>3, <2>1
<1>4. ASSUME NEW i \in D, NEW j \in D, col[i] > col[j] PROVE ahead(i) \in SUBSET ahead(j)
  <2> HIDE DEF ahead
  <2> QED BY <1>3, <1>4
<1> HIDE DEF ahead
<1> QED BY <1>1, <1>2, <1>4, FS_Subset

\* The better of two rows of a modality gets no less credit, and a row that does not match none.
LEMMA CreditKeepsOrder ==
    ASSUME NEW D, NEW col, ColumnOf(D, col)
    PROVE  \A i, j \in D : /\ Credit(col, i) \in Nat
                           /\ col[i] <= 0 => Credit(col, i) = 0
                           /\ col[i] > col[j] => Credit(col, i) >= Credit(col, j)
<1> SUFFICES ASSUME NEW i \in D, NEW j \in D
             PROVE  /\ Credit(col, i) \in Nat
                    /\ col[i] <= 0 => Credit(col, i) = 0
                    /\ col[i] > col[j] => Credit(col, i) >= Credit(col, j)
  OBVIOUS
<1>1. /\ col[i] \in Int /\ col[j] \in Int
      /\ 61 + RankOf(col, i) \in Nat \ {0} /\ 61 + RankOf(col, j) \in Nat \ {0}
  <2>1. RankOf(col, i) \in Nat /\ RankOf(col, j) \in Nat
    BY RankOfKeepsOrder
  <2> QED BY <2>1 DEF ColumnOf
<1> DEFINE p == ScoreUnit \div (61 + RankOf(col, i))
           q == ScoreUnit \div (61 + RankOf(col, j))
<1>0. ScoreUnit \in Nat
  BY DEF ScoreUnit
<1>2. p \in Nat /\ q \in Nat
  BY <1>0, <1>1, QuotientIsNat
<1>3. ASSUME col[i] > col[j] PROVE p >= q
  <2>1. 61 + RankOf(col, i) <= 61 + RankOf(col, j)
    BY <1>3, RankOfKeepsOrder
  <2>2. q <= p
    BY <1>0, <1>1, <2>1, QuotientIsAntitone
  <2> QED BY <1>2, <2>2
<1>4. Credit(col, i) = (IF col[i] > 0 THEN p ELSE 0) /\ Credit(col, j) = IF col[j] > 0 THEN q ELSE 0
  BY DEF Credit
<1> HIDE DEF p, q
<1> QED BY <1>1, <1>2, <1>3, <1>4

\* Fusion: what no modality matches gets nothing, what both score higher is not fused lower.
LEMMA FusionKeepsDominance ==
    ASSUME NEW D, D # {}, NEW bm25, NEW cosine, ColumnOf(D, bm25), ColumnOf(D, cosine)
    PROVE  /\ FuseRrf(bm25, cosine) \in [D -> Nat]
           /\ \A i \in D : bm25[i] <= 0 /\ cosine[i] <= 0 => FuseRrf(bm25, cosine)[i] = 0
           /\ \A i, j \in D : bm25[i] > bm25[j] /\ cosine[i] > cosine[j]
                              => FuseRrf(bm25, cosine)[i] >= FuseRrf(bm25, cosine)[j]
<1> DEFINE credit == [i \in D |-> Credit(bm25, i) + Credit(cosine, i)]
<1>1. DOMAIN bm25 = D /\ IsFiniteSet(D)
  BY DEF ColumnOf
<1>2. bm25 # <<>>
  BY <1>1
<1>3. FuseRrf(bm25, cosine) = MinMax(credit)
  BY <1>1, <1>2 DEF FuseRrf
<1>4. credit \in [D -> Nat]
  BY CreditKeepsOrder
<1>5. ASSUME NEW i \in D, bm25[i] <= 0, cosine[i] <= 0 PROVE credit[i] = 0
  BY <1>5, CreditKeepsOrder
<1>6. ASSUME NEW i \in D, NEW j \in D, bm25[i] > bm25[j], cosine[i] > cosine[j]
      PROVE  credit[i] >= credit[j]
  <2>1. Credit(bm25, i) >= Credit(bm25, j) /\ Credit(cosine, i) >= Credit(cosine, j)
    BY <1>6, CreditKeepsOrder
  <2>2. /\ Credit(bm25, i) \in Nat /\ Credit(bm25, j) \in Nat
        /\ Credit(cosine, i) \in Nat /\ Credit(cosine, j) \in Nat
    BY CreditKeepsOrder
  <2> QED BY <2>1, <2>2
<1> HIDE DEF credit
<1> QED BY <1>1, <1>3, <1>4, <1>5, <1>6, MinMaxKeepsOrder

(* Rows *)

LEMMA SoundAmounts ==
    ASSUME NEW row, Sound(row)
    PROVE  /\ row.id \in Nat /\ row.fit \in Nat /\ row.retrievalSkills \in Nat
           /\ row.matched \in Nat /\ row.productRatio \in Nat /\ row.bonus \in Nat
           /\ row.behavioural \in Nat /\ row.availability \in Nat /\ row.engagement \in Nat
           /\ row.location \in Nat /\ row.honeypot \in BOOLEAN /\ row.passed \in BOOLEAN
<1>1. {row.honeypot, row.passed} \subseteq BOOLEAN
  BY DEF Sound
<1> QED BY <1>1 DEF Sound, Amounts

\* Feature rows, at naturals as positions.
RowsOf(D, rs) ==
    D \in SUBSET Nat /\ IsFiniteSet(D) /\ DOMAIN rs = D /\ \A i \in D : Sound(rs[i])

LEMMA ProxyLabelsAreNats ==
    ASSUME NEW D, NEW rs, RowsOf(D, rs) PROVE ProxyLabels(rs) \in [D -> Nat]
<1> DEFINE skills == [i \in D |-> rs[i].retrievalSkills]
           matched == [i \in D |-> rs[i].matched]
           label(i) == Times(450, rs[i].fit) + Times(200, MinMax(skills)[i])
                       + Times(150, MinMax(matched)[i]) + Times(100, rs[i].productRatio)
                       + Times(100, Clip(rs[i].behavioural))
<1>1. skills \in [D -> Nat] /\ matched \in [D -> Nat]
  BY SoundAmounts DEF RowsOf
<1>2. MinMax(skills) \in [D -> Nat] /\ MinMax(matched) \in [D -> Nat]
  <2> HIDE DEF skills, matched
  <2> QED BY <1>1, MinMaxKeepsOrder DEF RowsOf
<1>3. ProxyLabels(rs) = [i \in D |-> IF rs[i].honeypot \/ ~rs[i].passed THEN 0 ELSE label(i)]
  BY DEF ProxyLabels, Column, RowsOf
<1> HIDE DEF skills, matched
<1>4. ASSUME NEW i \in D PROVE label(i) \in Nat
  <2>0. rs[i].fit \in Nat /\ MinMax(skills)[i] \in Nat /\ MinMax(matched)[i] \in Nat
    BY <1>2, SoundAmounts DEF RowsOf
  <2> HIDE DEF label
  <2>1. /\ Times(450, rs[i].fit) \in Nat /\ Times(200, MinMax(skills)[i]) \in Nat
        /\ Times(150, MinMax(matched)[i]) \in Nat
    BY <2>0 DEF Times, Unit
  <2>2. Times(100, rs[i].productRatio) \in Nat /\ Times(100, Clip(rs[i].behavioural)) \in Nat
    BY ClipIsNat, TimesIsNat, SoundAmounts DEF RowsOf
  <2> QED BY <2>1, <2>2 DEF label
<1> HIDE DEF label
<1> QED BY <1>3, <1>4

\* Higher values first, and the later of equal ones first.
LEMMA DescendingRanks ==
    ASSUME NEW P \in SUBSET Nat, NEW col, \A i \in P : col[i] \in Nat, NEW ahead, DOMAIN ahead = P,
           \A i \in P : ahead[i] = {j \in P : col[j] > col[i] \/ (col[j] = col[i] /\ j > i)}
    PROVE  Ranks(ahead)
<1>1. \A i \in P : col[i] \in Nat /\ i \in Nat
  OBVIOUS
<1>2. \A i \in P : ahead[i] \subseteq P /\ i \notin ahead[i]
  BY <1>1
<1>3. ASSUME NEW i \in P, NEW j \in P, i \in ahead[j], NEW m \in ahead[i] PROVE m \in ahead[j]
  <2>1. m \in P /\ (col[m] > col[i] \/ (col[m] = col[i] /\ m > i))
    BY <1>3
  <2>2. col[i] > col[j] \/ (col[i] = col[j] /\ i > j)
    BY <1>3
  <2>3. col[m] > col[j] \/ (col[m] = col[j] /\ m > j)
    BY <1>1, <2>1, <2>2
  <2> QED BY <2>1, <2>3
<1>4. ASSUME NEW i \in P, NEW j \in P, i # j PROVE i \in ahead[j] \/ j \in ahead[i]
  <2>1. i > j \/ j > i
    BY <1>1, <1>4
  <2>2. col[i] > col[j] \/ col[j] > col[i] \/ (col[i] = col[j] /\ col[j] = col[i])
    BY <1>1
  <2> QED BY <2>1, <2>2
<1>5. \A i, j \in P : i \in ahead[j] => ahead[i] \subseteq ahead[j]
  BY <1>3
<1> QED BY <1>2, <1>4, <1>5 DEF Ranks

Passing(D, rs) == {i \in D : ~Masked(rs[i])}

\* The provisional order holds passing rows only.
LEMMA ProvisionalOrderIsPassing ==
    ASSUME NEW D, NEW rs, RowsOf(D, rs), NEW retr \in [D -> Nat]
    PROVE  /\ ProvisionalOrder(rs, retr) \in Seq(Passing(D, rs))
           /\ IsInjective(ProvisionalOrder(rs, retr))
           /\ IsFiniteSet(Passing(D, rs))
<1> DEFINE P == Passing(D, rs)
           score == Provisional(rs, retr)
           ahead == [i \in P |-> {j \in P : score[j] > score[i] \/ (score[j] = score[i] /\ j > i)}]
<1>1. P \in SUBSET D /\ P \in SUBSET Nat /\ IsFiniteSet(P)
  BY FS_Subset DEF Passing, RowsOf
<1>2. score \in [D -> Nat]
  <2>1. ASSUME NEW i \in D
        PROVE  Times(600, ProxyLabels(rs)[i]) \in Nat /\ Times(400, retr[i]) \in Nat
    <3>1. ProxyLabels(rs)[i] \in Nat /\ retr[i] \in Nat
      BY ProxyLabelsAreNats
    <3> QED BY <3>1 DEF Times, Unit
  <2> QED BY <2>1 DEF Provisional, RowsOf
<1>3. ProvisionalOrder(rs, retr) = Sorted(ahead)
  BY DEF ProvisionalOrder, Descending, Passing, RowsOf
<1> HIDE DEF P, score
<1>4. Ranks(ahead) /\ DOMAIN ahead = P
  <2>1. /\ \A i \in P : ahead[i] = {j \in P : score[j] > score[i] \/ (score[j] = score[i] /\ j > i)}
        /\ \A i \in P : score[i] \in Nat
    BY <1>1, <1>2
  <2>2. DOMAIN ahead = P
    OBVIOUS
  <2> HIDE DEF ahead
  <2> QED BY <1>1, <2>1, <2>2, DescendingRanks
<1> HIDE DEF ahead
<1>5. /\ Cardinality(P) \in Nat /\ Sorted(ahead) \in [1..Cardinality(P) -> P]
      /\ \A j, k \in 1..Cardinality(P) : Sorted(ahead)[j] = Sorted(ahead)[k] => j = k
  BY <1>1, <1>4, SortedIsInOrder
<1>6. Sorted(ahead) \in Seq(P)
  BY <1>5
<1>7. IsInjective(Sorted(ahead))
  BY <1>5 DEF IsInjective
<1> QED BY <1>1, <1>3, <1>6, <1>7 DEF P

\* The head: passing rows, each once, and no more of them than it has places.
LEMMA HeadIsSmall ==
    ASSUME NEW D, NEW rs, RowsOf(D, rs), NEW retr \in [D -> Nat], NEW size \in Nat
    PROVE  /\ HeadOf(rs, retr, size) \in Seq(Passing(D, rs))
           /\ Len(HeadOf(rs, retr, size)) <= size
           /\ IsInjective(HeadOf(rs, retr, size))
<1> DEFINE order == ProvisionalOrder(rs, retr)
           m == Min({size, Len(order)})
<1>1. order \in Seq(Passing(D, rs)) /\ IsInjective(order)
  BY ProvisionalOrderIsPassing
<1>2. HeadOf(rs, retr, size) = SubSeq(order, 1, m)
  BY DEF HeadOf
<1> HIDE DEF order
<1>3. m \in Nat /\ m <= size /\ m <= Len(order)
  BY <1>1, LesserOfTwo
<1> HIDE DEF m
<1>4. \A i \in 1..m : order[i] \in Passing(D, rs)
  BY <1>1, <1>3
<1> DEFINE top == SubSeq(order, 1, m)
<1>5. /\ top \in Seq(Passing(D, rs)) /\ Len(top) = IF 1 <= m THEN m - 1 + 1 ELSE 0
      /\ \A i \in 1..(m - 1 + 1) : top[i] = order[1 + i - 1]
  BY <1>3, <1>4, SubSeqProperties
<1> HIDE DEF top
<1>6. Len(top) = m /\ DOMAIN top = 1..m
  BY <1>3, <1>5
<1>7. \A i \in 1..m : top[i] = order[i] /\ i \in DOMAIN order
  <2> TAKE i \in 1..m
  <2>1. i \in 1..(m - 1 + 1) /\ 1 + i - 1 = i /\ i \in 1..Len(order)
    BY <1>1, <1>3
  <2> QED BY <1>1, <1>5, <2>1
<1>8. IsInjective(top)
  BY <1>1, <1>6, <1>7 DEF IsInjective
<1> QED BY <1>2, <1>3, <1>5, <1>6, <1>8 DEF top

(* The head *)

\* A column of the head: scores for passing rows only, for no more rows than the head has.
HeadColumn(D, rs, col, size) ==
    /\ col \in [D -> Nat]
    /\ \A i \in D : col[i] > 0 => ~Masked(rs[i])
    /\ Cardinality({i \in D : col[i] > 0}) <= size

LEMMA ZerosAreAHeadColumn ==
    ASSUME NEW D, NEW rs, NEW size \in Nat PROVE HeadColumn(D, rs, [i \in D |-> 0], size)
<1>1. {i \in D : [x \in D |-> 0][i] > 0} = {}
  OBVIOUS
<1>2. Cardinality({}) = 0
  BY FS_EmptySet
<1> QED BY <1>1, <1>2 DEF HeadColumn

\* Spreading the scores of a head of passing rows over the matrix.
LEMMA SpreadIsAHeadColumn ==
    ASSUME NEW D, NEW rs, RowsOf(D, rs), NEW top \in Seq(Passing(D, rs)), NEW size \in Nat,
           Len(top) <= size, NEW scores \in [DOMAIN top -> Nat]
    PROVE  HeadColumn(D, rs, Spread(rs, top, scores), size)
<1> DEFINE col == Spread(rs, top, scores)
           places(i) == {m \in DOMAIN top : top[m] = i}
           scored == {i \in D : col[i] > 0}
           n == Len(top)
<1>1. col = [i \in D |-> IF places(i) = {} THEN 0 ELSE scores[CHOOSE m \in places(i) : TRUE]]
  BY DEF Spread, RowsOf
<1>2. DOMAIN top = 1..n /\ n \in Nat /\ \A m \in 1..n : top[m] \in Passing(D, rs)
  OBVIOUS
<1>3. ASSUME NEW i \in D PROVE col[i] \in Nat /\ (col[i] > 0 => \E m \in 1..n : top[m] = i)
  <2>1. CASE places(i) = {}
    BY <1>1, <2>1
  <2>2. CASE places(i) # {}
    <3>1. PICK m \in places(i) : m = CHOOSE x \in places(i) : TRUE
      BY <2>2
    <3>2. col[i] = scores[m] /\ m \in DOMAIN top /\ top[m] = i
      BY <1>1, <2>2, <3>1
    <3> QED BY <1>2, <3>2
  <2> QED BY <2>1, <2>2
<1>4. col \in [D -> Nat]
  <2> HIDE DEF places
  <2> QED BY <1>1, <1>3
<1> HIDE DEF col, places
<1>5. \A i \in D : col[i] > 0 => ~Masked(rs[i])
  BY <1>2, <1>3 DEF Passing
<1>6. Cardinality(scored) <= n
  <2> DEFINE T == {top[m] : m \in 1..n}
  <2>1. top \in Surjection(1..n, T)
    BY <1>2 DEF Surjection
  <2>2. IsFiniteSet(1..n) /\ Cardinality(1..n) = n
    <3> HIDE DEF n
    <3>1. IsFiniteSet(1..n) /\ Cardinality(1..n) = IF 1 > n THEN 0 ELSE n - 1 + 1
      BY <1>2, FS_Interval
    <3> QED BY <1>2, <3>1
  <2>3. IsFiniteSet(T) /\ Cardinality(T) <= n
    <3> HIDE DEF T
    <3> QED BY <2>1, <2>2, FS_Surjection
  <2>4. scored \in SUBSET T
    BY <1>3
  <2> HIDE DEF T, scored
  <2> QED BY <1>2, <2>3, <2>4, FS_Subset, FS_CardinalityType
<1>7. IsFiniteSet(scored) /\ Cardinality(scored) \in Nat
  <2>1. scored \in SUBSET D
    OBVIOUS
  <2> HIDE DEF scored
  <2> QED BY <2>1, FS_Subset, FS_CardinalityType DEF RowsOf
<1>8. Cardinality(scored) <= size
  <2> HIDE DEF scored
  <2> QED BY <1>2, <1>6, <1>7
<1> QED BY <1>4, <1>5, <1>8 DEF HeadColumn, col

LEMMA WonIsFinite ==
    ASSUME NEW card, NEW top, IsFiniteSet(DOMAIN top), NEW k
    PROVE  IsFiniteSet(Won(card, top, k)) /\ Cardinality(Won(card, top, k)) \in Nat
<1> DEFINE all == (DOMAIN top) \X ((1..9) \X (1..52))
<1>1. IsFiniteSet(all)
  <2>1. IsFiniteSet(1..9) /\ IsFiniteSet(1..52)
    <3>1. 1 \in Int /\ 9 \in Int /\ 52 \in Int
      OBVIOUS
    <3> QED BY <3>1, FS_Interval, Zenon
  <2>2. IsFiniteSet((1..9) \X (1..52))
    BY <2>1, FS_Product
  <2> QED BY <2>2, FS_Product
<1>2. Won(card, top, k) \in SUBSET all
  BY DEF Won, Beats
<1> HIDE DEF all
<1> QED BY <1>1, <1>2, FS_Subset, FS_CardinalityType

LEMMA TournamentScoresAreNats ==
    ASSUME NEW rs, NEW rerank, NEW top, DOMAIN top = 1..Len(top), Len(top) \in Nat
    PROVE  RunTournament(rs, rerank, top) \in [DOMAIN top -> Nat]
<1> DEFINE card == [i \in DOMAIN rs |-> Criteria(rs[i], rerank[i])]
           wins == [k \in DOMAIN top |-> Cardinality(Won(card, top, k))]
<1>1. RunTournament(rs, rerank, top) = IF Len(top) < 2 THEN Zeros(top) ELSE MinMax(wins)
  BY DEF RunTournament
<1>2. IsFiniteSet(DOMAIN top)
  BY FS_Interval
<1>3. wins \in [DOMAIN top -> Nat]
  <2> HIDE DEF card
  <2> QED BY <1>2, WonIsFinite
<1> HIDE DEF wins
<1>4. MinMax(wins) \in [DOMAIN top -> Nat]
  BY <1>2, <1>3, MinMaxKeepsOrder
<1>5. Zeros(top) \in [DOMAIN top -> Nat]
  BY DEF Zeros
<1> QED BY <1>1, <1>4, <1>5

(* The final score *)

Names == {"rerank", "tournament", "llm"}

\* The columns of the head that exist, for the positions of D.
HeadFor(D, h) == DOMAIN h \subseteq Names /\ \A c \in DOMAIN h : h[c] \in [D -> Nat]

LEMMA BlendIsNat ==
    ASSUME NEW D, NEW h, HeadFor(D, h), NEW core \in Nat, NEW i \in D
    PROVE  Blend(core, h, i) \in Nat
<1> DEFINE weight(c) == IF c \in DOMAIN h THEN HeadWeight[c] ELSE 0
           part(c) == IF c \in DOMAIN h THEN HeadWeight[c] * Clip(h[c][i]) ELSE 0
           rest == Unit - (weight("rerank") + weight("tournament") + weight("llm"))
<1>1. Blend(core, h, i) = Times(rest, core) + part("rerank") + part("tournament") + part("llm")
  BY DEF Blend
<1>2. ASSUME NEW c \in Names PROVE weight(c) \in 0..150 /\ part(c) \in Nat
  <2>1. HeadWeight[c] \in 0..150
    BY DEF HeadWeight, Names
  <2>2. CASE c \in DOMAIN h
    <3> DEFINE x == Clip(h[c][i])
    <3>1. h[c][i] \in Nat
      BY <2>2 DEF HeadFor
    <3>2. x \in Nat
      BY <3>1, ClipIsNat
    <3>3. HeadWeight[c] \in Nat
      BY <2>1
    <3> HIDE DEF x
    <3>4. HeadWeight[c] * x \in Nat
      BY <3>2, <3>3, ProductIsNat
    <3> QED BY <2>1, <2>2, <3>4 DEF x
  <2>3. CASE c \notin DOMAIN h
    BY <2>3
  <2> QED BY <2>2, <2>3
<1>3. /\ weight("rerank") \in 0..150 /\ weight("tournament") \in 0..150 /\ weight("llm") \in 0..150
      /\ part("rerank") \in Nat /\ part("tournament") \in Nat /\ part("llm") \in Nat
  <2> HIDE DEF weight, part
  <2>1. "rerank" \in Names /\ "tournament" \in Names /\ "llm" \in Names
    BY DEF Names
  <2> QED BY <1>2, <2>1
<1> HIDE DEF weight, part
<1>4. rest \in Nat
  <2> DEFINE a == weight("rerank")
             b == weight("tournament")
             c == weight("llm")
  <2>1. a \in 0..150 /\ b \in 0..150 /\ c \in 0..150
    BY <1>3
  <2>2. rest = Unit - (a + b + c)
    OBVIOUS
  <2> HIDE DEF a, b, c, rest
  <2> QED BY <2>1, <2>2 DEF Unit
<1> HIDE DEF rest
<1>5. Times(rest, core) \in Nat
  BY <1>4, TimesIsNat
<1> QED BY <1>1, <1>3, <1>5

LEMMA SignalModifierIsNat ==
    ASSUME NEW row, Sound(row) PROVE SignalModifier(row) \in Nat
<1> DEFINE a == Clip(row.availability)
           e == Clip(row.engagement)
           x == Clip(450 + Times(550, a))
           y == Clip(600 + Times(400, e))
           m == Max({300, Times(x, y)})
<1>1. a \in Nat /\ e \in Nat
  BY SoundAmounts, ClipIsNat
<1>2. SignalModifier(row) = Clip(m)
  BY DEF SignalModifier
<1> HIDE DEF a, e
<1>3. 450 + Times(550, a) \in Nat /\ 600 + Times(400, e) \in Nat
  BY <1>1 DEF Times, Unit
<1>4. x \in Nat /\ y \in Nat
  BY <1>3, ClipIsNat
<1> HIDE DEF x, y
<1> DEFINE t == Times(x, y)
<1>5. t \in Nat
  BY <1>4, TimesIsNat
<1> HIDE DEF t
<1>6. Max({300, t}) \in Nat
  BY <1>5, GreaterOfTwo
<1>7. m \in Nat
  BY <1>6 DEF t
<1> HIDE DEF m
<1> QED BY <1>2, <1>7, ClipIsNat

\* Final scores are between 0 and 1, and a masked row has none.
LEMMA FinalScores ==
    ASSUME NEW D, NEW rs, RowsOf(D, rs), NEW fit \in [D -> Nat], NEW retr \in [D -> Nat],
           NEW h, HeadFor(D, h)
    PROVE  /\ MergeFinalScores(rs, fit, retr, h) \in [D -> 0..ScoreUnit]
           /\ \A i \in D : Masked(rs[i]) => MergeFinalScores(rs, fit, retr, h)[i] = 0
<1> DEFINE merged == Merged(rs, fit, retr, h)
<1>1. MergeFinalScores(rs, fit, retr, h)
        = [i \in D |-> IF Masked(rs[i]) THEN 0 ELSE Min({ScoreUnit, merged[i]})]
  BY DEF MergeFinalScores, RowsOf
<1>2. ASSUME NEW i \in D PROVE merged[i] \in Nat
  <2> DEFINE core == 400 * Clip(fit[i]) + 350 * Clip(retr[i]) + 250 * Clip(rs[i].behavioural)
             near == 850 + Times(150, Clip(rs[i].location))
             mixed == Blend(core, h, i)
             placed == Times(mixed, near)
             signal == SignalModifier(rs[i])
             scaled == Times(placed, signal)
  <2>1. merged[i] = scaled + 1000 * rs[i].bonus
    BY DEF Merged, RowsOf
  <2>2. Sound(rs[i]) /\ fit[i] \in Nat /\ retr[i] \in Nat
    BY DEF RowsOf
  <2>3. rs[i].bonus \in Nat /\ Clip(rs[i].behavioural) \in Nat /\ Clip(rs[i].location) \in Nat
    BY <2>2, SoundAmounts, ClipIsNat
  <2>4. Clip(fit[i]) \in Nat /\ Clip(retr[i]) \in Nat
    BY <2>2, ClipIsNat
  <2>5. core \in Nat
    BY <2>3, <2>4
  <2>6. near \in Nat
    BY <2>3 DEF Times, Unit
  <2> HIDE DEF core, near
  <2>7. mixed \in Nat
    BY <2>5, BlendIsNat
  <2>8. signal \in Nat
    BY <2>2, SignalModifierIsNat
  <2> HIDE DEF mixed, signal
  <2>9. placed \in Nat
    BY <2>6, <2>7, TimesIsNat
  <2> HIDE DEF placed
  <2>10. scaled \in Nat
    BY <2>8, <2>9, TimesIsNat
  <2> HIDE DEF scaled
  <2> QED BY <2>1, <2>3, <2>10
<1> HIDE DEF merged
<1>3. ASSUME NEW i \in D PROVE Min({ScoreUnit, merged[i]}) \in 0..ScoreUnit
  <2> DEFINE x == merged[i]
  <2>1. x \in Nat
    BY <1>2
  <2> HIDE DEF x
  <2>2. ScoreUnit \in Nat
    BY DEF ScoreUnit
  <2>3. Min({ScoreUnit, x}) = IF ScoreUnit <= x THEN ScoreUnit ELSE x
    BY <2>1, <2>2, LesserOfTwo
  <2>4. Min({ScoreUnit, x}) \in 0..ScoreUnit
    BY <2>1, <2>2, <2>3
  <2> QED BY <2>4 DEF x
<1>4. ScoreUnit \in Nat
  BY DEF ScoreUnit
<1> QED BY <1>1, <1>3, <1>4

(* The listing *)

\* Best score first, the smaller id first among equal scores: a strict total order when ids differ.
LEMMA ScoresThenIdsRank ==
    ASSUME NEW I, NEW ahead, DOMAIN ahead = I, NEW score \in [I -> Nat], NEW id \in [I -> Nat],
           \A x, y \in I : id[x] = id[y] => x = y,
           \A x \in I : ahead[x] = {y \in I : score[y] > score[x]
                                              \/ (score[y] = score[x] /\ id[y] < id[x])}
    PROVE  Ranks(ahead)
<1>1. \A x \in I : score[x] \in Nat /\ id[x] \in Nat
  OBVIOUS
<1>2. \A x \in I : ahead[x] \subseteq I /\ x \notin ahead[x]
  BY <1>1
<1>3. ASSUME NEW x \in I, NEW y \in I, x \in ahead[y], NEW z \in ahead[x] PROVE z \in ahead[y]
  <2>1. z \in I /\ (score[z] > score[x] \/ (score[z] = score[x] /\ id[z] < id[x]))
    BY <1>3
  <2>2. score[x] > score[y] \/ (score[x] = score[y] /\ id[x] < id[y])
    BY <1>3
  <2>3. score[z] > score[y] \/ (score[z] = score[y] /\ id[z] < id[y])
    BY <1>1, <2>1, <2>2
  <2> QED BY <2>1, <2>3
<1>4. ASSUME NEW x \in I, NEW y \in I, x # y PROVE x \in ahead[y] \/ y \in ahead[x]
  <2>1. id[x] # id[y]
    BY <1>4
  <2> QED BY <1>1, <2>1
<1>5. \A x, y \in I : x \in ahead[y] => ahead[x] \subseteq ahead[y]
  BY <1>3
<1> QED BY <1>2, <1>4, <1>5 DEF Ranks

Real(D, rs) == {i \in D : ~rs[i].honeypot}
Distinct(D, rs) == \A i, j \in D : rs[i].id = rs[j].id => i = j

\* The pick holds no honeypot, and with a row every other real row of a higher score.
LEMMA PickIsTheBest ==
    ASSUME NEW D, NEW rs, RowsOf(D, rs), Distinct(D, rs), NEW totals \in [D -> Nat], NEW size \in Nat
    PROVE  /\ Range(Pick(rs, totals, size)) \in SUBSET Real(D, rs)
           /\ \A a \in Range(Pick(rs, totals, size)), b \in Real(D, rs) :
                 totals[b] > totals[a] => b \in Range(Pick(rs, totals, size))
<1> DEFINE I == Real(D, rs)
           entry == [i \in {p \in DOMAIN rs : ~rs[p].honeypot} |-> [id |-> rs[i].id, score |-> totals[i]]]
           ahead == [i \in DOMAIN entry |-> {j \in DOMAIN entry : Before(entry[j], entry[i])}]
           order == Sorted(ahead)
           m == Min({size, Len(order)})
           n == Cardinality(I)
<1>1. Pick(rs, totals, size) = SubSeq(order, 1, m)
  BY DEF Pick
<1>2. DOMAIN entry = I /\ DOMAIN ahead = I
  BY DEF Real, RowsOf
<1>3. IsFiniteSet(I) /\ I \in SUBSET D
  BY FS_Subset DEF RowsOf, Real
<1>4. \A x \in I : ahead[x] = {y \in I : totals[y] > totals[x]
                                         \/ (totals[y] = totals[x] /\ rs[y].id < rs[x].id)}
  <2>1. \A x \in I : entry[x].score = totals[x] /\ entry[x].id = rs[x].id
    BY <1>2
  <2>2. \A x \in I : ahead[x] = {y \in I : Before(entry[y], entry[x])}
    BY <1>2
  <2>3. \A x, y \in I : Before(entry[y], entry[x])
                          <=> totals[y] > totals[x] \/ (totals[y] = totals[x] /\ rs[y].id < rs[x].id)
    <3> HIDE DEF entry
    <3> QED BY <2>1 DEF Before
  <2> HIDE DEF entry, ahead
  <2> QED BY <2>2, <2>3
<1> HIDE DEF I, entry, ahead
<1>5. Ranks(ahead)
  <2> DEFINE score == [i \in I |-> totals[i]]
             id == [i \in I |-> rs[i].id]
  <2>1. score \in [I -> Nat]
    BY <1>3
  <2>2. id \in [I -> Nat]
    BY <1>3, SoundAmounts DEF RowsOf
  <2>3. \A x, y \in I : id[x] = id[y] => x = y
    BY <1>3 DEF Distinct
  <2>4. \A x \in I : ahead[x] = {y \in I : score[y] > score[x]
                                           \/ (score[y] = score[x] /\ id[y] < id[x])}
    BY <1>4
  <2> HIDE DEF score, id
  <2> QED BY <1>2, <2>1, <2>2, <2>3, <2>4, ScoresThenIdsRank
<1>6. /\ n \in Nat /\ order \in [1..n -> I]
      /\ \A x \in I : \E k \in 1..n : order[k] = x
      /\ \A j, k \in 1..n : order[j] \in ahead[order[k]] <=> j < k
  BY <1>2, <1>3, <1>5, SortedIsInOrder
<1> HIDE DEF order, n
<1>7. order \in Seq(I) /\ Len(order) = n
  BY <1>6
<1>8. m \in Nat /\ m <= n
  <2>1. Min({size, n}) = IF size <= n THEN size ELSE n
    BY <1>6, LesserOfTwo
  <2> QED BY <1>6, <1>7, <2>1
<1> HIDE DEF m
<1> DEFINE picked == SubSeq(order, 1, m)
<1>9. DOMAIN picked = 1..m /\ \A k \in 1..m : picked[k] = order[k] /\ k \in 1..n
  <2>1. \A k \in 1..m : order[k] \in I
    BY <1>6, <1>8
  <2>2. /\ picked \in Seq(I) /\ Len(picked) = IF 1 <= m THEN m - 1 + 1 ELSE 0
        /\ \A k \in 1..(m - 1 + 1) : picked[k] = order[1 + k - 1]
    BY <1>8, <2>1, SubSeqProperties
  <2>3. Len(picked) = m /\ DOMAIN picked = 1..Len(picked)
    BY <1>8, <2>2
  <2>4. ASSUME NEW k \in 1..m PROVE picked[k] = order[k] /\ k \in 1..n
    <3>1. k \in 1..(m - 1 + 1) /\ 1 + k - 1 = k /\ k \in 1..n
      BY <1>6, <1>8
    <3> HIDE DEF picked
    <3> QED BY <2>2, <3>1
  <2> HIDE DEF picked
  <2> QED BY <2>3, <2>4
<1> HIDE DEF picked
<1>10. Range(picked) = {order[k] : k \in 1..m}
  BY <1>9 DEF Range
<1>11. Range(picked) \in SUBSET I
  BY <1>6, <1>9, <1>10
<1>12. ASSUME NEW a \in Range(picked), NEW b \in I, totals[b] > totals[a] PROVE b \in Range(picked)
  <2>1. PICK k \in 1..m : a = order[k]
    BY <1>10
  <2>2. PICK j \in 1..n : b = order[j]
    BY <1>6
  <2>3. a \in I /\ b \in ahead[a]
    BY <1>4, <1>11, <1>12
  <2>4. j < k
    BY <1>6, <1>9, <2>1, <2>2, <2>3
  <2>5. j \in 1..m
    BY <1>6, <1>8, <2>4
  <2> QED BY <1>10, <2>2, <2>5
<1> QED BY <1>1, <1>11, <1>12 DEF I, picked

Rounded(score) == (score + 50) \div 100

\* L is a listing of n places: the rows of P once each, by rounded score and then by id.
Lists(L, n, P, rs, totals) ==
    /\ DOMAIN L = 1..n /\ Len(L) = n
    /\ \A k \in 1..n : /\ L[k].rank = k
                       /\ \E i \in P : L[k].id = rs[i].id /\ L[k].score = Rounded(totals[i])
    /\ \A i \in P : \E k \in 1..n : L[k].id = rs[i].id
    /\ \A j, k \in 1..n : j < k => Before(L[j], L[k])
    /\ \A j, k \in 1..n : L[j].id = L[k].id => j = k

LEMMA ListingOfThePick ==
    ASSUME NEW D, NEW rs, RowsOf(D, rs), Distinct(D, rs), NEW totals \in [D -> Nat], NEW size \in Nat
    PROVE  \E n \in Nat : Lists(BuildSubmission(rs, totals, size), n, Range(Pick(rs, totals, size)), rs, totals)
<1> DEFINE L == BuildSubmission(rs, totals, size)
           P == Range(Pick(rs, totals, size))
           row(i) == [id |-> rs[i].id, score |-> (totals[i] + 50) \div 100]
           rounded == {row(i) : i \in P}
           ahead == [r \in rounded |-> {other \in rounded : Before(other, r)}]
           sorted == Sorted(ahead)
           n == Cardinality(rounded)
<1>1. L = [k \in DOMAIN sorted |-> [id |-> sorted[k].id, rank |-> k, score |-> sorted[k].score]]
  BY DEF BuildSubmission
<1>2. P \in SUBSET D /\ IsFiniteSet(P)
  <2>1. P \in SUBSET D
    BY PickIsTheBest DEF Real
  <2> HIDE DEF P
  <2> QED BY <2>1, FS_Subset DEF RowsOf
<1> HIDE DEF P
<1>3. \A r \in rounded : \E i \in P : r = row(i)
  OBVIOUS
<1>4. \A i \in P : row(i) \in rounded /\ row(i).id = rs[i].id /\ row(i).score = Rounded(totals[i])
  BY DEF Rounded
<1>5. \A i \in P : rs[i].id \in Nat /\ Rounded(totals[i]) \in Nat
  BY <1>2, SoundAmounts DEF RowsOf, Rounded
<1>6. IsFiniteSet(rounded)
  <2> DEFINE f == [i \in P |-> row(i)]
  <2>1. f \in Surjection(P, rounded)
    BY DEF Surjection
  <2> HIDE DEF rounded, f
  <2> QED BY <1>2, <2>1, FS_Surjection
<1> HIDE DEF row, rounded
<1>7. \A r \in rounded : r.id \in Nat /\ r.score \in Nat
  BY <1>3, <1>4, <1>5
<1>8. \A r, q \in rounded : r.id = q.id => r = q
  <2> SUFFICES ASSUME NEW r \in rounded, NEW q \in rounded, r.id = q.id PROVE r = q
    OBVIOUS
  <2>1. PICK i \in P : r = row(i)
    BY <1>3
  <2>2. PICK j \in P : q = row(j)
    BY <1>3
  <2>3. i = j
    BY <1>2, <1>4, <2>1, <2>2 DEF Distinct
  <2> QED BY <2>1, <2>2, <2>3
<1>9. Ranks(ahead) /\ DOMAIN ahead = rounded
  <2> DEFINE score == [r \in rounded |-> r.score]
             id == [r \in rounded |-> r.id]
  <2>1. score \in [rounded -> Nat] /\ id \in [rounded -> Nat]
    BY <1>7
  <2>2. \A x, y \in rounded : id[x] = id[y] => x = y
    BY <1>8
  <2>3. \A x \in rounded : ahead[x] = {y \in rounded : score[y] > score[x]
                                           \/ (score[y] = score[x] /\ id[y] < id[x])}
    BY DEF Before
  <2>4. DOMAIN ahead = rounded
    OBVIOUS
  <2> HIDE DEF score, id, ahead
  <2> QED BY <2>1, <2>2, <2>3, <2>4, ScoresThenIdsRank
<1>10. \A r, q \in rounded : r \in ahead[q] => Before(r, q)
  OBVIOUS
<1> HIDE DEF ahead
<1>11. /\ n \in Nat /\ sorted \in [1..n -> rounded]
       /\ \A r \in rounded : \E k \in 1..n : sorted[k] = r
       /\ \A j, k \in 1..n : sorted[j] \in ahead[sorted[k]] <=> j < k
       /\ \A j, k \in 1..n : sorted[j] = sorted[k] => j = k
  BY <1>6, <1>9, SortedIsInOrder
<1> HIDE DEF sorted, n
<1>12. DOMAIN L = 1..n
  BY <1>1, <1>11
<1>13. \A k \in 1..n : L[k].id = sorted[k].id /\ L[k].score = sorted[k].score /\ L[k].rank = k
  BY <1>1, <1>11
<1>14. Len(L) = n
  <2>1. L \in [1..n -> {L[k] : k \in 1..n}]
    BY <1>1, <1>11
  <2> QED BY <1>11, <2>1
<1> HIDE DEF L
<1>15. ASSUME NEW k \in 1..n
       PROVE  \E i \in P : L[k].id = rs[i].id /\ L[k].score = Rounded(totals[i])
  <2>1. PICK i \in P : sorted[k] = row(i)
    BY <1>3, <1>11
  <2> QED BY <1>4, <1>13, <2>1
<1>16. ASSUME NEW i \in P PROVE \E k \in 1..n : L[k].id = rs[i].id
  <2>1. PICK k \in 1..n : sorted[k] = row(i)
    BY <1>4, <1>11
  <2> QED BY <1>4, <1>13, <2>1
<1>17. ASSUME NEW j \in 1..n, NEW k \in 1..n, j < k PROVE Before(L[j], L[k])
  <2>1. Before(sorted[j], sorted[k])
    BY <1>10, <1>11, <1>17
  <2> QED BY <1>13, <2>1 DEF Before
<1>18. ASSUME NEW j \in 1..n, NEW k \in 1..n, L[j].id = L[k].id PROVE j = k
  BY <1>8, <1>11, <1>13, <1>18
<1>19. \A k \in 1..n : /\ L[k].rank = k
                       /\ \E i \in P : L[k].id = rs[i].id /\ L[k].score = Rounded(totals[i])
  BY <1>13, <1>15
<1>20. Lists(L, n, P, rs, totals)
  BY <1>12, <1>14, <1>16, <1>17, <1>18, <1>19 DEF Lists
<1> QED BY <1>11, <1>20 DEF L, P

LEMMA BeforeKeepsOrder ==
    ASSUME NEW a, NEW b, {a.score, b.score, a.id, b.id} \subseteq Nat, Before(a, b)
    PROVE  ~ (a.score < b.score) /\ ~ (a.score = b.score /\ a.id > b.id)
<1> DEFINE p == a.score
           q == b.score
           i == a.id
           j == b.id
<1>1. p \in Nat /\ q \in Nat /\ i \in Nat /\ j \in Nat
  OBVIOUS
<1>2. p > q \/ (p = q /\ i < j)
  BY DEF Before
<1> HIDE DEF p, q, i, j
<1>3. ~ (p < q) /\ ~ (p = q /\ i > j)
  BY <1>1, <1>2
<1> QED BY <1>3 DEF p, q, i, j

\* The validator has nothing to say of such a listing but its length.
LEMMA ListingIsValid ==
    ASSUME NEW D, NEW rs, RowsOf(D, rs), Distinct(D, rs), NEW totals \in [D -> Nat], NEW size \in Nat
    PROVE  LET L == BuildSubmission(rs, totals, size)
           IN  /\ ValidateSubmission(L) \subseteq {"rows", "ranks"}
               /\ ValidateSubmission(L) = {} <=> Len(L) = ExpectedRows
<1> DEFINE L == BuildSubmission(rs, totals, size)
           P == Range(Pick(rs, totals, size))
           V == ValidateSubmission(L)
<1>0. PICK n \in Nat : Lists(L, n, P, rs, totals)
  BY ListingOfThePick
<1>1. /\ DOMAIN L = 1..n /\ Len(L) = n
      /\ \A k \in 1..n : /\ L[k].rank = k
                         /\ \E i \in P : L[k].id = rs[i].id /\ L[k].score = Rounded(totals[i])
      /\ \A j, k \in 1..n : j < k => Before(L[j], L[k])
      /\ \A j, k \in 1..n : L[j].id = L[k].id => j = k
  <2> HIDE DEF L, P
  <2> QED BY <1>0 DEF Lists
<1>2. \A k \in 1..n : L[k].id \in Nat /\ L[k].score \in Nat
  <2>1. P \in SUBSET D
    BY PickIsTheBest DEF Real
  <2>2. \A i \in P : rs[i].id \in Nat /\ Rounded(totals[i]) \in Nat
    <3> HIDE DEF P
    <3>1. \A i \in P : rs[i].id \in Nat /\ totals[i] \in Nat
      BY <2>1, SoundAmounts DEF RowsOf
    <3>2. \A x \in Nat : Rounded(x) \in Nat
      BY DEF Rounded
    <3> QED BY <3>1, <3>2
  <2> HIDE DEF L, P
  <2> QED BY <1>1, <2>2
<1> HIDE DEF L
<1>3. "ids" \notin V
  BY <1>1 DEF ValidateSubmission, IsInjective
<1>4. \A k \in 1..n : k + 1 \in 1..n => Before(L[k], L[k + 1])
  BY <1>1
<1>5. ASSUME NEW k \in 1..n, k + 1 \in 1..n
      PROVE  /\ ~ (L[k].score < L[k + 1].score)
             /\ ~ (L[k].score = L[k + 1].score /\ L[k].id > L[k + 1].id)
  <2>1. Before(L[k], L[k + 1])
    BY <1>4, <1>5
  <2>2. {L[k].score, L[k + 1].score, L[k].id, L[k + 1].id} \subseteq Nat
    BY <1>2, <1>5
  <2> QED BY <2>1, <2>2, BeforeKeepsOrder
<1>6. "order" \notin V
  <2>1. \A k \in 1..n : k + 1 \in 1..n => ~ (L[k].score < L[k + 1].score)
    BY <1>5
  <2> QED BY <1>1, <2>1 DEF ValidateSubmission
<1>7. "ties" \notin V
  <2>1. \A k \in 1..n : k + 1 \in 1..n =>
            ~ (L[k].score = L[k + 1].score /\ L[k].id > L[k + 1].id)
    BY <1>5
  <2> QED BY <1>1, <2>1 DEF ValidateSubmission
<1>8. V \subseteq {"rows", "ids", "ranks", "order", "ties"}
  BY DEF ValidateSubmission
<1>9. "rows" \in V <=> n # ExpectedRows
  BY <1>1 DEF ValidateSubmission
<1>10. n = ExpectedRows => "ranks" \notin V
  <2>1. {L[k].rank : k \in DOMAIN L} = 1..n
    BY <1>1
  <2> QED BY <2>1 DEF ValidateSubmission
<1> HIDE DEF V
<1>11. V \subseteq {"rows", "ranks"} /\ (V = {} <=> n = ExpectedRows)
  BY <1>3, <1>6, <1>7, <1>8, <1>9, <1>10
<1> QED BY <1>1, <1>11 DEF L, V

IdsOf(L) == {L[k].id : k \in DOMAIN L}
PlaceIn(L, id) == CHOOSE k \in DOMAIN L : L[k].id = id

\* In such a listing whoever a gate masks comes after whoever has a score.
LEMMA ListingIsGated ==
    ASSUME NEW D, NEW rs, RowsOf(D, rs), Distinct(D, rs), NEW totals \in [D -> Nat], NEW size \in Nat,
           \A i \in D : Masked(rs[i]) => totals[i] = 0,
           NEW L, L = BuildSubmission(rs, totals, size),
           NEW a \in D, Masked(rs[a]), rs[a].id \in IdsOf(L)
    PROVE  /\ ~rs[a].honeypot
           /\ \A b \in D : totals[b] >= 50 =>
                 /\ rs[b].id \in IdsOf(L)
                 /\ PlaceIn(L, rs[b].id) < PlaceIn(L, rs[a].id)
<1> DEFINE P == Range(Pick(rs, totals, size))
<1>0. PICK n \in Nat : Lists(L, n, P, rs, totals)
  BY ListingOfThePick
<1>1. /\ DOMAIN L = 1..n
      /\ \A k \in 1..n : \E i \in P : L[k].id = rs[i].id /\ L[k].score = Rounded(totals[i])
      /\ \A i \in P : \E k \in 1..n : L[k].id = rs[i].id
      /\ \A j, k \in 1..n : j < k => Before(L[j], L[k])
      /\ \A j, k \in 1..n : L[j].id = L[k].id => j = k
  <2> HIDE DEF P
  <2> QED BY <1>0 DEF Lists
<1>2. P \in SUBSET Real(D, rs) /\ \A i \in P, b \in Real(D, rs) : totals[b] > totals[i] => b \in P
  BY PickIsTheBest
<1> HIDE DEF P
<1>3. Real(D, rs) \in SUBSET D
  BY DEF Real
<1>4. ASSUME NEW k \in 1..n, NEW i \in D, L[k].id = rs[i].id
      PROVE  i \in P /\ L[k].score = Rounded(totals[i])
  BY <1>1, <1>2, <1>3, <1>4 DEF Distinct
<1>5. PICK x \in 1..n : L[x].id = rs[a].id
  BY <1>1 DEF IdsOf
<1>6. a \in P /\ L[x].score = 0
  <2>1. Rounded(0) = 0
    BY DEF Rounded
  <2> QED BY <1>4, <1>5, <2>1
<1>7. ~rs[a].honeypot
  BY <1>2, <1>6 DEF Real
<1>8. PlaceIn(L, rs[a].id) = x
  BY <1>1, <1>5 DEF PlaceIn
<1>9. ASSUME NEW b \in D, totals[b] >= 50
      PROVE  \E y \in 1..n : /\ L[y].id = rs[b].id /\ y < x
                             /\ PlaceIn(L, rs[b].id) = y
  <2>1. totals[b] # 0 /\ totals[b] \in Nat /\ totals[a] = 0
    BY <1>9
  <2>2. b \in Real(D, rs)
    BY <2>1 DEF Real, Masked
  <2>3. b \in P
    BY <1>2, <1>6, <2>1, <2>2
  <2>4. PICK y \in 1..n : L[y].id = rs[b].id
    BY <1>1, <2>3
  <2>5. L[y].score = Rounded(totals[b]) /\ Rounded(totals[b]) \in Nat \ {0}
    <3>1. Rounded(totals[b]) \in Nat \ {0}
      BY <1>9, <2>1 DEF Rounded
    <3> QED BY <1>4, <2>4, <3>1
  <2>6. ~ (x < y) /\ x # y
    <3>1. ~ Before(L[x], L[y])
      BY <1>6, <2>5 DEF Before
    <3> QED BY <1>1, <1>6, <2>5, <3>1
  <2>7. y < x
    BY <1>1, <2>6
  <2>8. PlaceIn(L, rs[b].id) = y
    BY <1>1, <2>4 DEF PlaceIn
  <2> QED BY <2>4, <2>7, <2>8
<1>10. \A y \in 1..n : L[y].id \in IdsOf(L)
  BY <1>1 DEF IdsOf
<1> QED BY <1>7, <1>8, <1>9, <1>10

(* The request *)

\* A part of the pool, in the order of the file.
LEMMA InOrderListsEveryone ==
    ASSUME NEW n \in Nat, NEW S \in SUBSET (1..n)
    PROVE  /\ \E m \in Nat : DOMAIN InOrder(S) = 1..m /\ Len(InOrder(S)) = m /\ (S # {} => m # 0)
           /\ Range(InOrder(S)) \subseteq S
           /\ \A j, k \in DOMAIN InOrder(S) : InOrder(S)[j] = InOrder(S)[k] => j = k
<1> DEFINE ahead == [i \in S |-> {j \in S : j < i}]
           m == Cardinality(S)
<1>1. S \in SUBSET Int /\ IsFiniteSet(S)
  <2>1. IsFiniteSet(1..n)
    BY UpToIsFinite
  <2>2. IsFiniteSet(S)
    BY <2>1, FS_Subset
  <2> QED BY <2>2
<1>2. Ranks(ahead) /\ DOMAIN ahead = S
  <2>1. \A x \in S : ahead[x] = {y \in S : y < x} /\ x \in Int
    BY <1>1
  <2>2. DOMAIN ahead = S
    OBVIOUS
  <2> HIDE DEF ahead
  <2>3. \A x \in S : ahead[x] \subseteq S /\ x \notin ahead[x]
    BY <2>1
  <2>4. ASSUME NEW x \in S, NEW y \in S, x \in ahead[y], NEW z \in ahead[x] PROVE z \in ahead[y]
    <3>1. x < y /\ z < x /\ z \in S
      BY <2>1, <2>4
    <3>2. z < y
      BY <2>1, <3>1
    <3> QED BY <2>1, <3>1, <3>2
  <2>5. \A x, y \in S : x # y => x \in ahead[y] \/ y \in ahead[x]
    BY <2>1
  <2>6. \A x, y \in S : x \in ahead[y] => ahead[x] \subseteq ahead[y]
    BY <2>4
  <2> QED BY <2>2, <2>3, <2>5, <2>6 DEF Ranks
<1>3. InOrder(S) = Sorted(ahead)
  BY DEF InOrder
<1> HIDE DEF ahead
<1>4. /\ m \in Nat /\ InOrder(S) \in [1..m -> S]
      /\ \A j, k \in 1..m : InOrder(S)[j] = InOrder(S)[k] => j = k
  BY <1>1, <1>2, <1>3, SortedIsInOrder
<1>5. S # {} => m # 0
  BY <1>1, FS_EmptySet
<1> HIDE DEF m
<1>6. Len(InOrder(S)) = m
  BY <1>4
<1> QED BY <1>4, <1>5, <1>6 DEF Range

(* The inductive invariant *)

Asked   == {"fetch", "score", "loop", "widen", "done"}
Fetched == Asked \ {"fetch"}
Finally == Fetched \ {"score"}
HeadSize == Max({RerankTopK, TournamentTopN, LlmTopK})

\* The rows are those of a candidates file, and the matrix has a first part of them.
PoolIsSound ==
    /\ file \in Pools /\ rows = [i \in DOMAIN file |-> FeatureRow(file[i])]
    /\ known \in 1..Len(file)

StagesAreInOrder ==
    /\ stage \in {"retrieve", "train", "rerank", "tournament", "llm", "ask"} \cup Asked
    /\ faults \in 0..MaxFaults /\ model \in {"none", "trees", "formula"} /\ live \in BOOLEAN

\* The matrix holds the fusion of its own rows, and a head of passing rows.
ColumnsAreOwn ==
    stage # "retrieve" =>
        /\ retrieval = FuseRrf(Text("default", "bm25"), Text("default", "cosine"))
        /\ {"rerank", "tournament"} \subseteq DOMAIN head /\ DOMAIN head \subseteq Names
        /\ \A c \in DOMAIN head : HeadColumn(1..known, rows, head[c], HeadSize)

\* A request is for part of the pool, nobody twice, and for known rows only when it is fast.
RequestIsAPart ==
    IF stage \in Asked
    THEN /\ \E m \in Nat \ {0} : DOMAIN frame = 1..m
         /\ Range(frame) \subseteq DOMAIN rows /\ (~live => Range(frame) \subseteq 1..known)
         /\ \A j, k \in DOMAIN frame : frame[j] = frame[k] => j = k
         /\ ask.by \in {"cli", "service"} /\ ask.jd \in {"default", "custom"} /\ ask.size \in Nat
    ELSE frame = <<>>

ScoresAreFractions ==
    /\ stage \in Fetched => fetched \in [DOMAIN frame -> Nat]
    /\ stage \in Finally =>
          /\ final \in [DOMAIN frame -> 0..ScoreUnit]
          /\ \A k \in DOMAIN frame : Masked(Frame[k]) => final[k] = 0

\* The loop goes on while it has passes left, and what it gives up with is its last pool.
LoopIsBounded ==
    /\ loop.iteration \in 0..MaxIterations
    /\ loop.exit = "" => loop.iteration < MaxIterations \/ stage # "widen"
    /\ loop.exit = "max_iterations" =>
          stage \in Finally /\ loop.iteration = MaxIterations /\ loop.pool = Retrieved(loop.iteration)

ListingIsBuilt == stage = "done" => listing = BuildSubmission(Frame, final, ask.size)

Ordered ==
    /\ PoolIsSound /\ StagesAreInOrder /\ ColumnsAreOwn /\ RequestIsAPart
    /\ ScoresAreFractions /\ LoopIsBounded /\ ListingIsBuilt /\ SubsetKeepsRetrieval

(* What the invariant gives *)

LEMMA PoolsOfCandidates ==
    ASSUME NEW pool \in Pools
    PROVE  Len(pool) \in Nat \ {0} /\ DOMAIN pool = 1..Len(pool) /\ \A i \in DOMAIN pool : pool[i] \in Candidate
<1>1. pool \in Seq(Candidate) /\ pool # <<>>
  BY PoolsAssumption
<1> QED BY <1>1

LEMMA PoolFacts ==
    ASSUME PoolIsSound
    PROVE  /\ Len(file) \in Nat \ {0} /\ DOMAIN file = 1..Len(file) /\ DOMAIN rows = 1..Len(file)
           /\ known \in Nat \ {0} /\ 1..known \subseteq DOMAIN rows
           /\ RowsOf(DOMAIN rows, rows) /\ Distinct(DOMAIN rows, rows)
<1>1. Len(file) \in Nat \ {0} /\ DOMAIN file = 1..Len(file) /\ DOMAIN rows = 1..Len(file)
  BY PoolsOfCandidates DEF PoolIsSound
<1>2. IsFiniteSet(1..Len(file)) /\ 1..Len(file) \in SUBSET Nat
  BY <1>1, FS_Interval
<1>3. ASSUME NEW i \in DOMAIN rows PROVE Sound(rows[i]) /\ rows[i].id = file[i].id
  <2>1. file[i] \in Candidate /\ rows[i] = FeatureRow(file[i])
    BY <1>1, PoolsOfCandidates DEF PoolIsSound
  <2> QED BY <2>1, RowsAreSound
<1>4. Distinct(DOMAIN rows, rows)
  <2>1. \A i, j \in DOMAIN file : file[i].id = file[j].id => i = j
    BY PoolsAssumption DEF PoolIsSound
  <2> QED BY <1>1, <1>3, <2>1 DEF Distinct
<1>5. known \in Nat \ {0} /\ 1..known \subseteq 1..Len(file)
  BY <1>1 DEF PoolIsSound
<1> QED BY <1>1, <1>2, <1>3, <1>4, <1>5 DEF RowsOf

LEMMA MatrixFacts ==
    ASSUME PoolIsSound
    PROVE  /\ RowsOf(1..known, Matrix) /\ \A i \in 1..known : Matrix[i] = rows[i]
           /\ \A jd \in {"default", "custom"}, kind \in {"bm25", "cosine", "deep"} :
                 ColumnOf(1..known, Text(jd, kind))
           /\ ColumnOf(1..known, Zeros(Matrix)) /\ 1 \in 1..known
<1>1. known \in Nat \ {0} /\ 1..known \subseteq DOMAIN rows /\ RowsOf(DOMAIN rows, rows)
  BY PoolFacts
<1>2. IsFiniteSet(1..known) /\ 1..known \in SUBSET Nat /\ 1 \in 1..known
  BY <1>1, FS_Interval
<1>3. Matrix = [i \in 1..known |-> rows[i]]
  BY DEF Matrix
<1>4. \A i \in 1..known : Sound(rows[i])
  BY <1>1 DEF RowsOf
<1>5. RowsOf(1..known, Matrix)
  BY <1>2, <1>3, <1>4 DEF RowsOf
<1>6. ASSUME NEW jd \in {"default", "custom"}, NEW kind \in {"bm25", "cosine", "deep"}
      PROVE  ColumnOf(1..known, Text(jd, kind))
  <2>1. \A i \in 1..known : rows[i].texts[jd][kind] \in Int
    BY <1>4 DEF Sound
  <2> QED BY <1>2, <2>1 DEF ColumnOf, Text
<1>7. ColumnOf(1..known, Zeros(Matrix))
  BY <1>2, <1>3 DEF ColumnOf, Zeros
<1> QED BY <1>2, <1>3, <1>5, <1>6, <1>7

LEMMA RetrievalFacts ==
    ASSUME PoolIsSound, ColumnsAreOwn, stage # "retrieve"
    PROVE  retrieval \in [1..known -> Nat]
<1> DEFINE bm25 == Text("default", "bm25")
           cosine == Text("default", "cosine")
<1>1. ColumnOf(1..known, bm25) /\ ColumnOf(1..known, cosine)
  BY MatrixFacts
<1>2. 1..known # {}
  BY MatrixFacts
<1>3. retrieval = FuseRrf(bm25, cosine)
  BY DEF ColumnsAreOwn
<1> HIDE DEF bm25, cosine
<1> QED BY <1>1, <1>2, <1>3, FusionKeepsDominance

LEMMA FrameFacts ==
    ASSUME PoolIsSound, RequestIsAPart, stage \in Asked
    PROVE  /\ RowsOf(DOMAIN frame, Frame) /\ Distinct(DOMAIN frame, Frame)
           /\ DOMAIN Frame = DOMAIN frame /\ DOMAIN frame # {}
           /\ \A k \in DOMAIN frame : frame[k] \in DOMAIN rows /\ Frame[k] = rows[frame[k]]
           /\ \A k \in DOMAIN frame : ~live => frame[k] \in 1..known
<1>1. PICK m \in Nat \ {0} : DOMAIN frame = 1..m
  BY DEF RequestIsAPart
<1>2. IsFiniteSet(DOMAIN frame) /\ DOMAIN frame \in SUBSET Nat /\ DOMAIN frame # {}
  <2>1. m \in Nat /\ 1 \in 1..m
    OBVIOUS
  <2>2. IsFiniteSet(1..m) /\ 1..m \in SUBSET Nat
    BY <2>1, UpToIsFinite
  <2> QED BY <1>1, <2>1, <2>2
<1>3. \A k \in DOMAIN frame : frame[k] \in DOMAIN rows /\ (~live => frame[k] \in 1..known)
  BY DEF RequestIsAPart, Range
<1>4. Frame = [k \in DOMAIN frame |-> rows[frame[k]]]
  BY DEF Frame
<1>5. RowsOf(DOMAIN rows, rows) /\ Distinct(DOMAIN rows, rows)
  BY PoolFacts
<1>6. RowsOf(DOMAIN frame, Frame)
  BY <1>2, <1>3, <1>4, <1>5 DEF RowsOf
<1>7. \A j, k \in DOMAIN frame : frame[j] = frame[k] => j = k
  BY DEF RequestIsAPart
<1>8. Distinct(DOMAIN frame, Frame)
  BY <1>3, <1>4, <1>5, <1>7 DEF Distinct
<1> QED BY <1>2, <1>3, <1>4, <1>6, <1>8

(* What a step leaves alone *)

LEMMA PoolStays == ASSUME PoolIsSound, UNCHANGED matrix PROVE PoolIsSound'
BY DEF PoolIsSound, matrix

LEMMA ColumnsStay ==
    ASSUME ColumnsAreOwn, stage # "retrieve", UNCHANGED <<matrix, retrieval, head>>
    PROVE  ColumnsAreOwn'
<1>1. UNCHANGED <<rows, known, retrieval, head>>
  BY DEF matrix
<1>2. Text("default", "bm25")' = Text("default", "bm25") /\ Text("default", "cosine")' = Text("default", "cosine")
  BY <1>1 DEF Text
<1>3. (1..known)' = 1..known
  BY <1>1
<1> QED BY <1>1, <1>2, <1>3 DEF ColumnsAreOwn, HeadColumn, HeadSize, Masked, FuseRrf

LEMMA RequestStays ==
    ASSUME RequestIsAPart, UNCHANGED <<matrix, request>>, stage' \in Asked <=> stage \in Asked
    PROVE  RequestIsAPart'
BY DEF RequestIsAPart, matrix, request, Asked, Range

LEMMA FrameStays == ASSUME UNCHANGED <<matrix, request>> PROVE Frame' = Frame
BY DEF Frame, matrix, request

LEMMA ScoresStay ==
    ASSUME ScoresAreFractions, UNCHANGED <<matrix, request, fetched, final>>,
           stage' \in Fetched => stage \in Fetched, stage' \in Finally => stage \in Finally
    PROVE  ScoresAreFractions'
<1>1. Frame' = Frame
  BY FrameStays
<1> QED BY <1>1 DEF ScoresAreFractions, request, Fetched, Finally, Asked, Masked

LEMMA SubsetStays ==
    ASSUME SubsetKeepsRetrieval, UNCHANGED <<request, retrieval, fetched, faults>>,
           stage' \in Fetched => stage \in Fetched
    PROVE  SubsetKeepsRetrieval'
BY DEF SubsetKeepsRetrieval, request, Fetched, Asked

\* Before a request is made only the matrix is written.
LEMMA BeforeARequest ==
    ASSUME Ordered, stage \notin Asked, stage' \notin Asked,
           UNCHANGED <<matrix, request, fetched, final, loop, listing>>
    PROVE  /\ PoolIsSound' /\ RequestIsAPart' /\ ScoresAreFractions' /\ LoopIsBounded'
           /\ ListingIsBuilt' /\ SubsetKeepsRetrieval'
<1>1. PoolIsSound' /\ RequestIsAPart'
  BY PoolStays, RequestStays DEF Ordered
<1>2. ScoresAreFractions' /\ ListingIsBuilt' /\ SubsetKeepsRetrieval'
  BY DEF ScoresAreFractions, ListingIsBuilt, SubsetKeepsRetrieval, Asked, Fetched, Finally
<1>3. LoopIsBounded'
  BY DEF Ordered, LoopIsBounded, Asked, Fetched, Finally
<1> QED BY <1>1, <1>2, <1>3

(* Precompute *)

LEMMA HeadSizes ==
    /\ HeadSize \in Nat /\ RerankTopK \in Nat /\ TournamentTopN \in Nat /\ LlmTopK \in Nat
    /\ RerankTopK <= HeadSize /\ TournamentTopN <= HeadSize /\ LlmTopK <= HeadSize
<1> DEFINE S == {RerankTopK, TournamentTopN, LlmTopK}
<1>1. S \in SUBSET Nat /\ S \in SUBSET Int /\ S # {}
  BY RankingAssumption
<1>2. IsFiniteSet(S)
  <2>1. IsFiniteSet({RerankTopK})
    BY FS_Singleton
  <2>2. IsFiniteSet({RerankTopK} \cup {TournamentTopN})
    BY <2>1, FS_AddElement
  <2>3. IsFiniteSet(({RerankTopK} \cup {TournamentTopN}) \cup {LlmTopK})
    BY <2>2, FS_AddElement
  <2>4. S = ({RerankTopK} \cup {TournamentTopN}) \cup {LlmTopK}
    OBVIOUS
  <2> QED BY <2>3, <2>4
<1>3. Max(S) \in S /\ \A x \in S : Max(S) >= x
  <2> HIDE DEF S
  <2> QED BY <1>1, <1>2, MaxIsThere
<1> QED BY <1>1, <1>3 DEF HeadSize

LEMMA OrderedInit == ASSUME Init PROVE Ordered
<1>1. file \in Pools /\ rows = [i \in DOMAIN file |-> FeatureRow(file[i])]
  BY DEF Init
<1>2. Len(file) \in Nat \ {0}
  BY <1>1, PoolsOfCandidates
<1>3. Max({1, Len(file) - 1}) \in 1..Len(file)
  <2> DEFINE n == Len(file) - 1
  <2>1. n \in Int /\ n < Len(file)
    BY <1>2
  <2>2. Max({1, n}) = IF 1 >= n THEN 1 ELSE n
    <3> HIDE DEF n
    <3> QED BY <2>1, GreaterOfTwo
  <2> QED BY <1>2, <2>1, <2>2
<1>4. PoolIsSound
  BY <1>1, <1>2, <1>3 DEF Init, PoolIsSound
<1>5. StagesAreInOrder
  <2>1. stage = "retrieve" /\ faults = 0 /\ model = "none" /\ live = FALSE
    BY DEF Init
  <2>2. 0 \in 0..MaxFaults
    BY RankingAssumption
  <2> QED BY <2>1, <2>2 DEF StagesAreInOrder
<1>6. ColumnsAreOwn /\ RequestIsAPart /\ ScoresAreFractions /\ ListingIsBuilt /\ SubsetKeepsRetrieval
  BY DEF Init, ColumnsAreOwn, RequestIsAPart, ScoresAreFractions, ListingIsBuilt,
         SubsetKeepsRetrieval, Asked, Fetched, Finally
<1>7. LoopIsBounded
  <2>1. stage = "retrieve" /\ loop.iteration = 0 /\ loop.exit = ""
    BY DEF Init, NoLoop
  <2>2. 0 \in 0..MaxIterations
    BY RankingAssumption
  <2> QED BY <2>1, <2>2 DEF LoopIsBounded
<1> QED BY <1>4, <1>5, <1>6, <1>7 DEF Ordered

LEMMA OrderedCacheRetrieval == ASSUME Ordered, CacheRetrieval PROVE Ordered'
<1>1. stage = "retrieve" /\ stage' = "train" /\ UNCHANGED <<matrix, model, request, faults>>
  BY DEF CacheRetrieval, At, Working
<1>2. UNCHANGED <<matrix, request, fetched, final, loop, listing>>
  BY DEF CacheRetrieval
<1>3. StagesAreInOrder'
  BY <1>1 DEF Ordered, StagesAreInOrder, request
<1>4. ColumnsAreOwn'
  <2>1. retrieval' = FuseRrf(Text("default", "bm25"), Text("default", "cosine"))
    BY DEF CacheRetrieval
  <2>2. Text("default", "bm25")' = Text("default", "bm25") /\ Text("default", "cosine")' = Text("default", "cosine")
    BY <1>1 DEF Text, matrix
  <2>3. head' = [c \in {"rerank", "tournament"} |-> [i \in 1..known |-> 0]]
    BY DEF CacheRetrieval, Zeros, Matrix
  <2>4. \A c \in DOMAIN head' : HeadColumn(1..known, rows, head'[c], HeadSize)
    <3>1. HeadColumn(1..known, rows, [i \in 1..known |-> 0], HeadSize)
      BY HeadSizes, ZerosAreAHeadColumn
    <3> QED BY <2>3, <3>1
  <2>5. known' = known /\ rows' = rows
    BY <1>1 DEF matrix
  <2>6. DOMAIN head' = {"rerank", "tournament"}
    BY <2>3
  <2> HIDE DEF Text
  <2>7. retrieval' = FuseRrf(Text("default", "bm25"), Text("default", "cosine"))'
    BY <2>1, <2>2 DEF FuseRrf
  <2>8. \A c \in DOMAIN head' : HeadColumn(1..known, rows, head[c], HeadSize)'
    BY <2>4, <2>5 DEF HeadColumn, HeadSize, Masked
  <2> QED BY <2>6, <2>7, <2>8 DEF ColumnsAreOwn, Names
<1>5. stage \notin Asked /\ stage' \notin Asked
  BY <1>1 DEF Asked
<1> QED BY <1>2, <1>3, <1>4, <1>5, BeforeARequest DEF Ordered

LEMMA OrderedTrain == ASSUME Ordered, Train PROVE Ordered'
<1>1. stage = "train" /\ stage' = "rerank"
  BY DEF Train, At
<1>2. UNCHANGED <<matrix, retrieval, head, request, fetched, final, loop, listing>>
  BY DEF Train
<1>3. StagesAreInOrder'
  BY <1>1, <1>2, RankingAssumption
     DEF Ordered, StagesAreInOrder, request, Train, Working, Failing, Rankers, Regressors
<1>4. ColumnsAreOwn'
  BY <1>1, <1>2, ColumnsStay DEF Ordered
<1>5. stage \notin Asked /\ stage' \notin Asked
  BY <1>1 DEF Asked
<1> QED BY <1>2, <1>3, <1>4, <1>5, BeforeARequest DEF Ordered

Top(size) == HeadOf(Matrix, retrieval, size)

LEMMA TopFacts ==
    ASSUME PoolIsSound, ColumnsAreOwn, stage # "retrieve", NEW size \in Nat
    PROVE  /\ Top(size) \in Seq(Passing(1..known, Matrix)) /\ Len(Top(size)) <= size
           /\ DOMAIN Top(size) = 1..Len(Top(size)) /\ Len(Top(size)) \in Nat
           /\ IsFiniteSet(DOMAIN Top(size))
           /\ \A k \in DOMAIN Top(size) : Top(size)[k] \in 1..known
           /\ IsInjective(Top(size))
<1>1. /\ Top(size) \in Seq(Passing(1..known, Matrix)) /\ Len(Top(size)) <= size
      /\ IsInjective(Top(size))
  BY MatrixFacts, RetrievalFacts, HeadIsSmall DEF Top
<1> HIDE DEF Top
<1>2. DOMAIN Top(size) = 1..Len(Top(size)) /\ Len(Top(size)) \in Nat
  BY <1>1
<1>3. IsFiniteSet(DOMAIN Top(size))
  BY <1>2, FS_Interval
<1>4. \A k \in DOMAIN Top(size) : Top(size)[k] \in Passing(1..known, Matrix)
  BY <1>1
<1> QED BY <1>1, <1>2, <1>3, <1>4 DEF Passing

LEMMA SpreadFits ==
    ASSUME PoolIsSound, ColumnsAreOwn, stage # "retrieve", NEW size \in Nat, size <= HeadSize,
           NEW scores \in [DOMAIN Top(size) -> Nat]
    PROVE  HeadColumn(1..known, rows, Spread(Matrix, Top(size), scores), HeadSize)
<1> DEFINE col == Spread(Matrix, Top(size), scores)
           scored == {i \in 1..known : col[i] > 0}
<1>1. HeadColumn(1..known, Matrix, col, size)
  BY TopFacts, MatrixFacts, SpreadIsAHeadColumn
<1> HIDE DEF col
<1>2. \A i \in 1..known : Masked(Matrix[i]) <=> Masked(rows[i])
  BY MatrixFacts
<1>3. IsFiniteSet(1..known) /\ scored \in SUBSET (1..known)
  BY MatrixFacts DEF RowsOf
<1>4. Cardinality(scored) \in Nat
  <2> HIDE DEF scored
  <2> QED BY <1>3, FS_Subset, FS_CardinalityType
<1>5. Cardinality(scored) <= HeadSize
  <2>1. Cardinality(scored) <= size
    BY <1>1 DEF HeadColumn
  <2> HIDE DEF scored
  <2> QED BY <1>4, <2>1, HeadSizes
<1>6. col \in [1..known -> Nat] /\ \A i \in 1..known : col[i] > 0 => ~Masked(rows[i])
  BY <1>1, <1>2 DEF HeadColumn
<1> QED BY <1>5, <1>6 DEF HeadColumn, col

\* A step that writes at most one column of the head, and a good one.
LEMMA OneColumnIsWritten ==
    ASSUME ColumnsAreOwn, stage # "retrieve", UNCHANGED <<matrix, retrieval>>,
           NEW col, HeadColumn(1..known, rows, col, HeadSize),
           DOMAIN head \subseteq DOMAIN head', DOMAIN head' \subseteq Names,
           \A c \in DOMAIN head' : head'[c] = col \/ (c \in DOMAIN head /\ head'[c] = head[c])
    PROVE  ColumnsAreOwn'
<1>1. UNCHANGED <<rows, known, retrieval>>
  BY DEF matrix
<1>2. Text("default", "bm25")' = Text("default", "bm25") /\ Text("default", "cosine")' = Text("default", "cosine")
  BY <1>1 DEF Text
<1>3. ASSUME NEW c \in DOMAIN head' PROVE HeadColumn(1..known, rows, head'[c], HeadSize)
  BY DEF ColumnsAreOwn
<1>4. \A c \in DOMAIN head' : HeadColumn(1..known, rows, head[c], HeadSize)'
  BY <1>1, <1>3 DEF HeadColumn, HeadSize, Masked
<1>5. retrieval' = FuseRrf(Text("default", "bm25"), Text("default", "cosine"))'
  BY <1>1, <1>2 DEF ColumnsAreOwn, FuseRrf
<1> QED BY <1>1, <1>4, <1>5 DEF ColumnsAreOwn

LEMMA OrderedRerankHead == ASSUME Ordered, RerankHead PROVE Ordered'
<1> DEFINE top == Top(RerankTopK)
<1>1. stage = "rerank" /\ stage' = "tournament"
  BY DEF RerankHead, At
<1>2. UNCHANGED <<matrix, retrieval, model, request, fetched, final, loop, listing>>
  BY DEF RerankHead
<1>3. StagesAreInOrder'
  BY <1>1, <1>2, RankingAssumption DEF Ordered, StagesAreInOrder, request, RerankHead, Working, Failing
<1>4. PoolIsSound /\ ColumnsAreOwn /\ stage # "retrieve" /\ RerankTopK \in Nat /\ RerankTopK <= HeadSize
  BY <1>1, HeadSizes DEF Ordered
<1>5. ColumnsAreOwn'
  <2>1. CASE UNCHANGED head
    BY <1>2, <1>4, <2>1, ColumnsStay
  <2>2. ASSUME NEW scores \in Reranked(top), head' = [head EXCEPT !.rerank = Spread(Matrix, top, scores)]
        PROVE  ColumnsAreOwn'
    <3>1. PICK kind \in {"deep", "bm25"} :
             scores = MinMax([k \in DOMAIN top |-> rows[top[k]].texts.default[kind]])
      BY DEF Reranked
    <3> DEFINE raw == [k \in DOMAIN top |-> rows[top[k]].texts.default[kind]]
    <3>2. raw \in [DOMAIN top -> Int]
      <4>1. \A k \in DOMAIN top : top[k] \in 1..known
        BY <1>4, TopFacts
      <4>2. \A i \in 1..known : Sound(rows[i])
        BY <1>4, MatrixFacts DEF RowsOf
      <4>3. \A i \in 1..known : rows[i].texts.default[kind] \in Int
        BY <4>2 DEF Sound
      <4> HIDE DEF top
      <4> QED BY <4>1, <4>3
    <3>3. IsFiniteSet(DOMAIN top)
      BY <1>4, TopFacts
    <3>4. scores \in [DOMAIN top -> Nat]
      <4> HIDE DEF raw, top
      <4>1. MinMax(raw) \in [DOMAIN top -> Nat]
        BY <3>2, <3>3, MinMaxOfIntegers
      <4> QED BY <3>1, <4>1 DEF raw
    <3> DEFINE col == Spread(Matrix, top, scores)
    <3>5. HeadColumn(1..known, rows, col, HeadSize)
      BY <1>4, <3>4, SpreadFits
    <3> HIDE DEF col
    <3>6. head' = [head EXCEPT !["rerank"] = col]
      BY <2>2 DEF col
    <3>7. DOMAIN head' = DOMAIN head /\ \A c \in DOMAIN head : head'[c] = col \/ head'[c] = head[c]
      BY <3>6
    <3>8. DOMAIN head \subseteq Names
      BY <1>4 DEF ColumnsAreOwn
    <3> QED BY <1>2, <1>4, <3>5, <3>7, <3>8, OneColumnIsWritten
  <2> QED BY <2>1, <2>2 DEF RerankHead, Top
<1>6. stage \notin Asked /\ stage' \notin Asked
  BY <1>1 DEF Asked
<1> QED BY <1>2, <1>3, <1>5, <1>6, BeforeARequest DEF Ordered

LEMMA OrderedPlayTournament == ASSUME Ordered, PlayTournament PROVE Ordered'
<1> DEFINE top == Top(TournamentTopN)
           scores == RunTournament(Matrix, head.rerank, top)
           col == Spread(Matrix, top, scores)
<1>1. stage = "tournament" /\ stage' = "llm"
  BY DEF PlayTournament, At
<1>2. UNCHANGED <<matrix, retrieval, model, request, fetched, final, loop, listing>>
  BY DEF PlayTournament
<1>3. StagesAreInOrder'
  BY <1>1, <1>2, RankingAssumption
     DEF Ordered, StagesAreInOrder, request, PlayTournament, Working, Failing
<1>4. /\ PoolIsSound /\ ColumnsAreOwn /\ stage # "retrieve"
      /\ TournamentTopN \in Nat /\ TournamentTopN <= HeadSize
  BY <1>1, HeadSizes DEF Ordered
<1>5. HeadColumn(1..known, rows, col, HeadSize)
  <2>1. DOMAIN top = 1..Len(top) /\ Len(top) \in Nat
    BY <1>4, TopFacts
  <2>2. scores \in [DOMAIN top -> Nat]
    <3> HIDE DEF top
    <3> QED BY <2>1, TournamentScoresAreNats
  <2> HIDE DEF scores
  <2> QED BY <1>4, <2>2, SpreadFits
<1>6. head' = head \/ head' = [head EXCEPT !["tournament"] = col]
  BY DEF PlayTournament, Top
<1> HIDE DEF col
<1>7. DOMAIN head' = DOMAIN head /\ \A c \in DOMAIN head : head'[c] = col \/ head'[c] = head[c]
  BY <1>6
<1>8. DOMAIN head \subseteq Names
  BY <1>4 DEF ColumnsAreOwn
<1>9. ColumnsAreOwn'
  BY <1>2, <1>4, <1>5, <1>7, <1>8, OneColumnIsWritten
<1>10. stage \notin Asked /\ stage' \notin Asked
  BY <1>1 DEF Asked
<1> QED BY <1>2, <1>3, <1>9, <1>10, BeforeARequest DEF Ordered

LEMMA OrderedScoreByLlm == ASSUME Ordered, ScoreByLlm PROVE Ordered'
<1> DEFINE top == Top(LlmTopK)
           batches == (Len(top) + LlmBatch - 1) \div LlmBatch
           col(n) == Spread(Matrix, top, LlmScored(top, n))
<1>1. stage = "llm" /\ stage' = "ask"
  BY DEF ScoreByLlm, At
<1>2. UNCHANGED <<matrix, retrieval, model, request, fetched, final, loop, listing>>
  BY DEF ScoreByLlm
<1>3. StagesAreInOrder'
  BY <1>1, <1>2, RankingAssumption DEF Ordered, StagesAreInOrder, request, ScoreByLlm, Working, Failing
<1>4. PoolIsSound /\ ColumnsAreOwn /\ stage # "retrieve" /\ LlmTopK \in Nat /\ LlmTopK <= HeadSize
  BY <1>1, HeadSizes DEF Ordered
<1>5. PICK n \in 0..batches : head' = head \/ head' = WithColumn("llm", col(n))
  BY DEF ScoreByLlm, Top
<1>6. LlmScored(top, n) \in [DOMAIN top -> Nat]
  <2>1. \A k \in DOMAIN top : top[k] \in 1..known
    BY <1>4, TopFacts
  <2>2. \A i \in 1..known : Sound(rows[i])
    BY <1>4, MatrixFacts DEF RowsOf
  <2>3. \A i \in 1..known : rows[i].texts.default.deep \in Nat
    BY <2>2 DEF Sound
  <2> HIDE DEF top
  <2>4. ASSUME NEW k \in DOMAIN top
        PROVE  Min({Unit, 400 * rows[top[k]].texts.default.deep}) \in Nat
    <3> DEFINE x == 400 * rows[top[k]].texts.default.deep
    <3>1. x \in Nat
      BY <2>1, <2>3
    <3> HIDE DEF x
    <3>2. Unit \in Nat /\ Unit \in Int
      BY DEF Unit
    <3>3. Min({Unit, x}) = IF Unit <= x THEN Unit ELSE x
      BY <3>1, <3>2, LesserOfTwo
    <3>4. Min({Unit, x}) \in Nat
      BY <3>1, <3>2, <3>3
    <3> QED BY <3>4 DEF x
  <2> QED BY <2>4 DEF LlmScored
<1>7. HeadColumn(1..known, rows, col(n), HeadSize)
  BY <1>4, <1>6, SpreadFits
<1> DEFINE new == col(n)
<1> HIDE DEF col
<1>8. head' = head \/ head' = [c \in DOMAIN head \cup {"llm"} |-> IF c = "llm" THEN new ELSE head[c]]
  BY <1>5 DEF WithColumn
<1> HIDE DEF new
<1>9. /\ DOMAIN head \subseteq DOMAIN head' /\ DOMAIN head' \subseteq DOMAIN head \cup {"llm"}
      /\ \A c \in DOMAIN head' : head'[c] = new \/ (c \in DOMAIN head /\ head'[c] = head[c])
  BY <1>8
<1>10. DOMAIN head' \subseteq Names
  BY <1>4, <1>9 DEF ColumnsAreOwn, Names
<1>11. ColumnsAreOwn'
  <2>1. HeadColumn(1..known, rows, new, HeadSize)
    BY <1>7 DEF new
  <2> QED BY <1>2, <1>4, <1>9, <1>10, <2>1, OneColumnIsWritten
<1>12. stage \notin Asked /\ stage' \notin Asked
  BY <1>1 DEF Asked
<1> QED BY <1>2, <1>3, <1>11, <1>12, BeforeARequest DEF Ordered

(* A request *)

LEMMA PartOfThePool ==
    ASSUME PoolIsSound, NEW S \in SUBSET DOMAIN rows, S # {}
    PROVE  /\ \E m \in Nat \ {0} : DOMAIN InOrder(S) = 1..m
           /\ Range(InOrder(S)) \subseteq S
           /\ \A j, k \in DOMAIN InOrder(S) : InOrder(S)[j] = InOrder(S)[k] => j = k
<1>1. Len(file) \in Nat /\ S \in SUBSET (1..Len(file))
  BY PoolFacts
<1>2. /\ \E m \in Nat : DOMAIN InOrder(S) = 1..m /\ Len(InOrder(S)) = m /\ (S # {} => m # 0)
      /\ Range(InOrder(S)) \subseteq S
      /\ \A j, k \in DOMAIN InOrder(S) : InOrder(S)[j] = InOrder(S)[k] => j = k
  BY <1>1, InOrderListsEveryone
<1> QED BY <1>2

LEMMA OrderedAsk == ASSUME Ordered, Ask PROVE Ordered'
<1>1. stage = "ask" /\ stage' = "fetch" /\ faults' = faults
  BY DEF Ask, At, Working
<1>2. UNCHANGED <<matrix, columns, fetched, final, loop, listing>>
  BY DEF Ask
<1>3. UNCHANGED <<file, rows, known, retrieval, head, model>>
  BY <1>2 DEF matrix, columns
<1>4. PoolIsSound /\ PoolIsSound'
  BY <1>2, PoolStays DEF Ordered
<1>5. /\ ask'.by \in {"cli", "service"} /\ ask'.jd \in {"default", "custom"} /\ ask'.size \in Nat
      /\ live' \in BOOLEAN
      /\ \E S \in SUBSET DOMAIN rows : /\ S # {} /\ frame' = InOrder(S)
                                       /\ ~live' => S \subseteq 1..known
  <2>1. CASE AskCli
    <3>1. PICK who \in (SUBSET Everyone) \ {{}}, size \in Sizes :
             /\ ask' = [by |-> "cli", jd |-> "default", size |-> size]
             /\ frame' = InOrder(who) /\ live' = ~(who \subseteq 1..known)
      BY <2>1 DEF AskCli
    <3>2. ask'.by = "cli" /\ ask'.jd = "default" /\ ask'.size = size /\ size \in Nat
      BY <3>1, RankingAssumption
    <3>3. who \in SUBSET DOMAIN rows /\ who # {} /\ (~live' => who \subseteq 1..known)
      BY <3>1 DEF Everyone
    <3> QED BY <3>1, <3>2, <3>3
  <2>2. CASE AskService
    <3>1. PICK who \in (SUBSET Everyone) \ {{}}, size \in Sizes, jd \in {"default", "custom"} :
             /\ ask' = [by |-> "service", jd |-> jd, size |-> size]
             /\ \/ who \cap 1..known # {} /\ frame' = InOrder(who \cap 1..known) /\ live' = FALSE
                \/ frame' = InOrder(who) /\ live' = TRUE
      BY <2>2 DEF AskService
    <3>2. ask'.by = "service" /\ ask'.jd \in {"default", "custom"} /\ ask'.size = size /\ size \in Nat
      BY <3>1, RankingAssumption
    <3>3. who \in SUBSET DOMAIN rows /\ who # {} /\ who \cap 1..known \in SUBSET DOMAIN rows
      BY DEF Everyone
    <3> QED BY <3>1, <3>2, <3>3
  <2> QED BY <2>1, <2>2 DEF Ask
<1>6. RequestIsAPart'
  <2>1. PICK S \in SUBSET DOMAIN rows : /\ S # {} /\ frame' = InOrder(S)
                                        /\ ~live' => S \subseteq 1..known
    BY <1>5
  <2>2. /\ \E m \in Nat \ {0} : DOMAIN frame' = 1..m
        /\ Range(frame') \subseteq S
        /\ \A j, k \in DOMAIN frame' : frame'[j] = frame'[k] => j = k
    BY <1>4, <2>1, PartOfThePool
  <2>3. stage' \in Asked
    BY <1>1 DEF Asked
  <2>4. Range(frame)' = Range(frame')
    BY DEF Range
  <2> QED BY <1>3, <1>5, <2>1, <2>2, <2>3, <2>4 DEF RequestIsAPart, Asked
<1>7. StagesAreInOrder'
  BY <1>1, <1>3, <1>5 DEF Ordered, StagesAreInOrder, Asked
<1>8. ColumnsAreOwn'
  BY <1>1, <1>2, <1>3, ColumnsStay DEF Ordered
<1>9. ScoresAreFractions' /\ ListingIsBuilt' /\ SubsetKeepsRetrieval'
  BY <1>1 DEF ScoresAreFractions, ListingIsBuilt, SubsetKeepsRetrieval, Asked, Fetched, Finally
<1>10. LoopIsBounded'
  BY <1>1, <1>2 DEF Ordered, LoopIsBounded, Asked, Fetched, Finally
<1> QED BY <1>4, <1>6, <1>7, <1>8, <1>9, <1>10 DEF Ordered

\* Retrieval from whatever artifacts load; with both, what is cached.
LEMMA ArtifactsFit ==
    ASSUME PoolIsSound, ColumnsAreOwn, RequestIsAPart, stage \in Asked, ~live,
           NEW embeddings \in BOOLEAN, NEW index \in BOOLEAN
    PROVE  /\ FromArtifacts(embeddings, index) \in [DOMAIN frame -> Nat]
           /\ Mapped(retrieval) \in [DOMAIN frame -> Nat]
           /\ embeddings /\ index /\ ask.jd = "default"
                 => FromArtifacts(embeddings, index) = Mapped(retrieval)
<1> DEFINE bm25 == IF index THEN Text(ask.jd, "bm25") ELSE Zeros(Matrix)
           cosine == IF embeddings THEN Text(ask.jd, "cosine") ELSE Zeros(Matrix)
<1>1. stage # "retrieve" /\ ask.jd \in {"default", "custom"}
  BY DEF Asked, RequestIsAPart
<1>2. retrieval \in [1..known -> Nat] /\ 1..known # {}
  BY <1>1, RetrievalFacts, MatrixFacts
<1>3. \A k \in DOMAIN frame : frame[k] \in 1..known
  BY FrameFacts
<1>4. ASSUME NEW col \in [1..known -> Nat] PROVE Mapped(col) \in [DOMAIN frame -> Nat]
  BY <1>3 DEF Mapped
<1>5. ColumnOf(1..known, bm25) /\ ColumnOf(1..known, cosine)
  BY <1>1, MatrixFacts
<1>6. FromArtifacts(embeddings, index)
        = IF ~embeddings /\ ~index THEN Mapped(retrieval) ELSE Mapped(FuseRrf(bm25, cosine))
  BY DEF FromArtifacts
<1>7. embeddings /\ index /\ ask.jd = "default" => FuseRrf(bm25, cosine) = retrieval
  BY <1>1 DEF ColumnsAreOwn
<1> HIDE DEF bm25, cosine
<1>8. FuseRrf(bm25, cosine) \in [1..known -> Nat]
  BY <1>2, <1>5, FusionKeepsDominance
<1> QED BY <1>2, <1>4, <1>6, <1>7, <1>8

LEMMA LiveRetrievalFits ==
    ASSUME PoolIsSound, RequestIsAPart, stage \in Asked
    PROVE  /\ FuseRrf([k \in DOMAIN frame |-> rows[frame[k]].texts[ask.jd]["bm25"]],
                      [k \in DOMAIN frame |-> rows[frame[k]].texts[ask.jd]["cosine"]])
                 \in [DOMAIN frame -> Nat]
           /\ Zeros(frame) \in [DOMAIN frame -> Nat]
<1> DEFINE D == DOMAIN frame
           texts(kind) == [k \in D |-> rows[frame[k]].texts[ask.jd][kind]]
<1>1. /\ RowsOf(D, Frame) /\ D # {} /\ ask.jd \in {"default", "custom"}
      /\ \A k \in D : Frame[k] = rows[frame[k]]
  BY FrameFacts DEF RequestIsAPart
<1>2. ASSUME NEW kind \in {"bm25", "cosine", "deep"} PROVE ColumnOf(D, texts(kind))
  <2>1. \A k \in D : rows[frame[k]].texts[ask.jd][kind] \in Int
    BY <1>1 DEF RowsOf, Sound
  <2> QED BY <1>1, <2>1 DEF ColumnOf, RowsOf
<1>3. ColumnOf(D, texts("bm25")) /\ ColumnOf(D, texts("cosine"))
  BY <1>2
<1>4. FuseRrf(texts("bm25"), texts("cosine")) \in [D -> Nat]
  <2> HIDE DEF texts
  <2> QED BY <1>1, <1>3, FusionKeepsDominance
<1>5. Zeros(frame) \in [D -> Nat]
  BY DEF Zeros
<1> QED BY <1>4, <1>5

LEMMA OrderedFetch == ASSUME Ordered, Fetch PROVE Ordered'
<1>1. stage = "fetch" /\ stage' = "score"
  BY DEF Fetch, At
<1>2. UNCHANGED <<matrix, columns, request, final, loop, listing>>
  BY DEF Fetch
<1>3. UNCHANGED <<file, rows, known, retrieval, head, model, ask, frame, live>>
  BY <1>2 DEF matrix, columns, request
<1>4. PoolIsSound /\ ColumnsAreOwn /\ RequestIsAPart /\ stage \in Asked /\ faults \in 0..MaxFaults
  BY <1>1 DEF Ordered, StagesAreInOrder, Asked
<1>5. /\ fetched' \in [DOMAIN frame -> Nat] /\ faults' \in 0..MaxFaults
      /\ ~live /\ ask.jd = "default" /\ faults' = 0 => fetched' = Mapped(retrieval)
  <2>0. ASSUME Working \/ Failing
        PROVE  faults' \in 0..MaxFaults /\ (Failing => faults' # 0)
    BY <1>4, <2>0, RankingAssumption DEF Working, Failing
  <2>1. CASE FetchFast
    <3>1. ~live
      BY <2>1 DEF FetchFast
    <3>2. CASE Working /\ fetched' = Mapped(retrieval)
      BY <1>4, <2>0, <3>1, <3>2, ArtifactsFit
    <3>3. ASSUME NEW embeddings \in BOOLEAN, NEW index \in BOOLEAN,
                 IF embeddings /\ index THEN Working ELSE Failing,
                 fetched' = FromArtifacts(embeddings, index)
          PROVE  /\ fetched' \in [DOMAIN frame -> Nat] /\ faults' \in 0..MaxFaults
                 /\ ~live /\ ask.jd = "default" /\ faults' = 0 => fetched' = Mapped(retrieval)
      BY <1>4, <2>0, <3>1, <3>3, ArtifactsFit
    <3> QED BY <2>1, <3>2, <3>3 DEF FetchFast
  <2>2. CASE FetchLive
    <3>1. live /\ (Working \/ Failing)
      BY <2>2 DEF FetchLive
    <3>2. fetched' \in [DOMAIN frame -> Nat]
      BY <1>4, <2>2, LiveRetrievalFits DEF FetchLive
    <3> QED BY <2>0, <3>1, <3>2
  <2> QED BY <2>1, <2>2 DEF Fetch
<1>6. PoolIsSound' /\ ColumnsAreOwn'
  BY <1>1, <1>2, <1>3, <1>4, PoolStays, ColumnsStay
<1>7. RequestIsAPart'
  BY <1>1, <1>2, <1>4, RequestStays DEF Asked
<1>8. StagesAreInOrder'
  BY <1>1, <1>3, <1>5 DEF Ordered, StagesAreInOrder, Asked
<1>9. ScoresAreFractions'
  BY <1>1, <1>3, <1>5 DEF ScoresAreFractions, Finally, Fetched, Asked
<1>10. SubsetKeepsRetrieval'
  BY <1>3, <1>5 DEF SubsetKeepsRetrieval, Mapped
<1>11. ListingIsBuilt'
  BY <1>1 DEF ListingIsBuilt
<1>12. LoopIsBounded'
  BY <1>1, <1>2 DEF Ordered, LoopIsBounded, Asked, Fetched, Finally
<1> QED BY <1>6, <1>7, <1>8, <1>9, <1>10, <1>11, <1>12 DEF Ordered

LEMMA PredictionFits ==
    ASSUME NEW D, NEW rs, RowsOf(D, rs), NEW works \in BOOLEAN
    PROVE  PredictFit(rs, works) \in [D -> Nat]
<1> DEFINE trees == [i \in D |-> rs[i].fit \div 100]
           raw == IF works /\ model = "trees" THEN trees ELSE ProxyLabels(rs)
<1>1. ProxyLabels(rs) \in [D -> Nat]
  BY ProxyLabelsAreNats
<1>2. trees \in [D -> Nat]
  <2>1. \A i \in D : rs[i].fit \in Nat
    BY SoundAmounts DEF RowsOf
  <2>2. ASSUME NEW i \in D PROVE rs[i].fit \div 100 \in Nat
    <3>1. 100 \in Nat \ {0}
      OBVIOUS
    <3> QED BY <2>1, <3>1, QuotientIsNat
  <2> QED BY <2>2
<1>3. Column(rs, Trees) = trees
  BY DEF Column, Trees, RowsOf
<1>4. PredictFit(rs, works) = MinMax(raw)
  BY <1>3 DEF PredictFit
<1> HIDE DEF trees
<1>5. raw \in [D -> Nat]
  BY <1>1, <1>2
<1> HIDE DEF raw
<1>6. IsFiniteSet(D)
  BY DEF RowsOf
<1>7. MinMax(raw) \in [D -> Nat]
  BY <1>5, <1>6, MinMaxKeepsOrder
<1> QED BY <1>4, <1>7

LEMMA HeadAskedFits ==
    ASSUME PoolIsSound, ColumnsAreOwn, RequestIsAPart, stage \in Asked
    PROVE  HeadFor(DOMAIN frame, HeadAsked)
<1>1. CASE live
  <2>1. HeadAsked = <<>> /\ DOMAIN <<>> = {}
    BY <1>1 DEF HeadAsked
  <2> QED BY <2>1 DEF HeadFor
<1>2. CASE ~live
  <2>1. HeadAsked = [c \in DOMAIN head |-> [k \in DOMAIN frame |-> head[c][frame[k]]]]
    BY <1>2 DEF HeadAsked
  <2>2. DOMAIN head \subseteq Names /\ \A c \in DOMAIN head : head[c] \in [1..known -> Nat]
    BY DEF ColumnsAreOwn, HeadColumn, Asked
  <2>3. \A k \in DOMAIN frame : frame[k] \in 1..known
    BY <1>2, FrameFacts
  <2>4. ASSUME NEW c \in DOMAIN head PROVE HeadAsked[c] \in [DOMAIN frame -> Nat]
    BY <2>1, <2>2, <2>3
  <2> QED BY <2>1, <2>2, <2>4 DEF HeadFor
<1> QED BY <1>1, <1>2

LEMMA OrderedScore == ASSUME Ordered, Score PROVE Ordered'
<1>1. stage = "score" /\ stage' = "loop"
  BY DEF Score, At
<1>2. UNCHANGED <<matrix, columns, request, fetched, loop, listing>>
  BY DEF Score
<1>3. UNCHANGED <<file, rows, known, retrieval, head, model, ask, frame, live, fetched>> /\ Frame' = Frame
  BY <1>2, FrameStays DEF matrix, columns, request
<1>4. /\ PoolIsSound /\ ColumnsAreOwn /\ RequestIsAPart /\ ScoresAreFractions
      /\ stage \in Asked /\ faults \in 0..MaxFaults
  BY <1>1 DEF Ordered, StagesAreInOrder, Asked
<1>5. PICK works \in BOOLEAN :
         /\ IF works THEN Working ELSE model = "trees" /\ Failing
         /\ final' = MergeFinalScores(Frame, PredictFit(Frame, works), fetched, HeadAsked)
  BY DEF Score
<1>6. faults' \in 0..MaxFaults /\ (faults' = 0 => faults = 0)
  BY <1>4, <1>5, RankingAssumption DEF Working, Failing
<1>7. /\ final' \in [DOMAIN frame -> 0..ScoreUnit]
      /\ \A k \in DOMAIN frame : Masked(Frame[k]) => final'[k] = 0
  <2>1. RowsOf(DOMAIN frame, Frame)
    BY <1>4, FrameFacts
  <2>2. PredictFit(Frame, works) \in [DOMAIN frame -> Nat]
    BY <2>1, PredictionFits
  <2>3. fetched \in [DOMAIN frame -> Nat]
    BY <1>1, <1>4 DEF ScoresAreFractions, Fetched, Asked
  <2>4. HeadFor(DOMAIN frame, HeadAsked)
    BY <1>4, HeadAskedFits
  <2> QED BY <1>5, <2>1, <2>2, <2>3, <2>4, FinalScores
<1>8. PoolIsSound' /\ ColumnsAreOwn'
  BY <1>1, <1>2, <1>3, <1>4, PoolStays, ColumnsStay
<1>9. RequestIsAPart'
  BY <1>1, <1>2, <1>4, RequestStays DEF Asked
<1>10. StagesAreInOrder'
  BY <1>1, <1>3, <1>6 DEF Ordered, StagesAreInOrder, Asked
<1>11. ScoresAreFractions'
  <2>1. fetched \in [DOMAIN frame -> Nat]
    BY <1>1, <1>4 DEF ScoresAreFractions, Fetched, Asked
  <2> QED BY <1>3, <1>7, <2>1 DEF ScoresAreFractions, Masked
<1>12. SubsetKeepsRetrieval'
  BY <1>1, <1>3, <1>6 DEF Ordered, SubsetKeepsRetrieval
<1>13. ListingIsBuilt'
  BY <1>1 DEF ListingIsBuilt
<1>14. LoopIsBounded'
  BY <1>1, <1>2 DEF Ordered, LoopIsBounded, Asked, Fetched, Finally
<1> QED BY <1>8, <1>9, <1>10, <1>11, <1>12, <1>13, <1>14 DEF Ordered

(* The loop and the listing *)

\* A pass of the loop stays within its bound, and gives up only at it.
LEMMA ReflectIsBounded ==
    ASSUME NEW n \in 0..MaxIterations, Reflect(n), UNCHANGED <<matrix, request>>, stage' = "widen"
    PROVE  LoopIsBounded'
<1>1. /\ loop'.iteration = n /\ loop'.pool = Retrieved(n) /\ loop'.exit = Exit(n, Retrieved(n))
  BY DEF Reflect
<1>2. Frame' = Frame /\ frame' = frame
  BY FrameStays DEF request
<1>3. Retrieved(loop.iteration)' = Retrieved(n)
  BY <1>1, <1>2 DEF Retrieved, MinFit
<1>4. n >= MaxIterations => n = MaxIterations
  BY RankingAssumption
<1>5. n >= MaxIterations => Exit(n, Retrieved(n)) = "max_iterations"
  BY DEF Exit
<1>6. ~(n >= MaxIterations) => Exit(n, Retrieved(n)) \in {"", "confident"}
  BY DEF Exit
<1>7. ~(n >= MaxIterations) => n < MaxIterations
  BY RankingAssumption
<1>8. loop'.exit = "" => loop'.iteration < MaxIterations
  BY <1>1, <1>5, <1>7
<1>9. loop'.exit = "max_iterations" =>
         loop'.iteration = MaxIterations /\ loop'.pool = Retrieved(loop.iteration)'
  BY <1>1, <1>3, <1>4, <1>6
<1> QED BY <1>1, <1>8, <1>9 DEF LoopIsBounded, Finally, Fetched, Asked

LEMMA OrderedReflect ==
    ASSUME Ordered, NEW n \in 0..MaxIterations, Reflect(n), stage \in {"loop", "widen"},
           stage' = "widen", Working,
           UNCHANGED <<matrix, columns, request, fetched, final, listing>>
    PROVE  Ordered'
<1>1. UNCHANGED <<matrix, retrieval, head, model, request, live, fetched, final, faults>>
  BY DEF columns, request, Working
<1>2. PoolIsSound' /\ ColumnsAreOwn'
  BY <1>1, PoolStays, ColumnsStay DEF Ordered
<1>3. RequestIsAPart'
  BY <1>1, RequestStays DEF Ordered, Asked
<1>4. StagesAreInOrder'
  BY <1>1 DEF Ordered, StagesAreInOrder, Asked
<1>5. ScoresAreFractions'
  BY <1>1, ScoresStay DEF Ordered, Finally, Fetched, Asked
<1>6. SubsetKeepsRetrieval'
  BY <1>1, SubsetStays DEF Ordered, Fetched, Asked
<1>7. ListingIsBuilt'
  BY DEF ListingIsBuilt
<1>8. LoopIsBounded'
  BY <1>1, ReflectIsBounded
<1> QED BY <1>2, <1>3, <1>4, <1>5, <1>6, <1>7, <1>8 DEF Ordered

LEMMA OrderedStartLoop == ASSUME Ordered, StartLoop PROVE Ordered'
<1>1. 0 \in 0..MaxIterations
  BY RankingAssumption
<1> QED BY <1>1, OrderedReflect DEF StartLoop, At

LEMMA OrderedWiden == ASSUME Ordered, Widen PROVE Ordered'
<1>1. stage = "widen" /\ stage' = "widen" /\ loop.exit = ""
  BY DEF Widen
<1>2. loop.iteration + 1 \in 0..MaxIterations
  <2> DEFINE n == loop.iteration
  <2>1. n \in 0..MaxIterations /\ (n < MaxIterations \/ stage # "widen")
    BY <1>1 DEF Ordered, LoopIsBounded
  <2>2. n < MaxIterations
    BY <1>1, <2>1
  <2> HIDE DEF n
  <2>3. n + 1 \in 0..MaxIterations
    BY <2>1, <2>2, RankingAssumption
  <2> QED BY <2>3 DEF n
<1> QED BY <1>1, <1>2, OrderedReflect DEF Widen

LEMMA OrderedList == ASSUME Ordered, List PROVE Ordered'
<1>1. stage = "widen" /\ stage' = "done"
  BY DEF List, At
<1>2. UNCHANGED <<matrix, retrieval, head, model, request, ask, frame, live, fetched, final, loop, faults>>
  BY DEF List, Working, columns, request
<1>3. PoolIsSound' /\ ColumnsAreOwn'
  BY <1>1, <1>2, PoolStays, ColumnsStay DEF Ordered
<1>4. RequestIsAPart'
  BY <1>1, <1>2, RequestStays DEF Ordered, Asked
<1>5. StagesAreInOrder'
  BY <1>1, <1>2 DEF Ordered, StagesAreInOrder, Asked
<1>6. ScoresAreFractions'
  BY <1>1, <1>2, ScoresStay DEF Ordered, Finally, Fetched, Asked
<1>7. SubsetKeepsRetrieval'
  BY <1>1, <1>2, SubsetStays DEF Ordered, Fetched, Asked
<1>8. Frame' = Frame
  BY <1>2, FrameStays
<1>9. ListingIsBuilt'
  BY <1>2, <1>8 DEF List, ListingIsBuilt
<1>10. LoopIsBounded'
  <2>1. Retrieved(loop.iteration)' = Retrieved(loop.iteration)
    BY <1>2, <1>8 DEF Retrieved, MinFit
  <2> QED BY <1>1, <1>2, <2>1 DEF Ordered, LoopIsBounded, Finally, Fetched, Asked
<1> QED BY <1>3, <1>4, <1>5, <1>6, <1>7, <1>9, <1>10 DEF Ordered

LEMMA OrderedStays == ASSUME Ordered, UNCHANGED vars PROVE Ordered'
<1>1. /\ UNCHANGED <<matrix, columns, request, stage, retrieval, head, model, ask, frame, live>>
      /\ UNCHANGED <<fetched, final, loop, listing, faults>>
  BY DEF vars, columns, request
<1>2. PoolIsSound' /\ RequestIsAPart' /\ StagesAreInOrder' /\ ScoresAreFractions' /\ SubsetKeepsRetrieval'
  BY <1>1, PoolStays, RequestStays, ScoresStay, SubsetStays DEF Ordered, StagesAreInOrder
<1>3. ColumnsAreOwn'
  <2>1. CASE stage = "retrieve"
    BY <1>1, <2>1 DEF ColumnsAreOwn
  <2>2. CASE stage # "retrieve"
    BY <1>1, <2>2, ColumnsStay DEF Ordered
  <2> QED BY <2>1, <2>2
<1>4. Frame' = Frame
  BY <1>1, FrameStays
<1>5. LoopIsBounded'
  <2>1. Retrieved(loop.iteration)' = Retrieved(loop.iteration)
    BY <1>1, <1>4 DEF Retrieved, MinFit
  <2> QED BY <1>1, <2>1 DEF Ordered, LoopIsBounded
<1>6. ListingIsBuilt'
  BY <1>1, <1>4 DEF Ordered, ListingIsBuilt
<1> QED BY <1>2, <1>3, <1>5, <1>6 DEF Ordered

(* The theorems *)

\* Every state of a ranking satisfies the invariant: it is inductive, whatever fails on the way.
THEOREM RankingIsOrdered == Spec => []Ordered
<1>1. Init => Ordered
  BY OrderedInit
<1>2. Ordered /\ [Next]_vars => Ordered'
  BY OrderedCacheRetrieval, OrderedTrain, OrderedRerankHead, OrderedPlayTournament, OrderedScoreByLlm,
     OrderedAsk, OrderedFetch, OrderedScore, OrderedStartLoop, OrderedWiden, OrderedList, OrderedStays
     DEF Next
<1> QED BY <1>1, <1>2, PTL DEF Spec

\* The types of a ranking: the final scores are fractions, the loop ends within its bound.
THEOREM RankingTypes == Spec => []TypeOK
<1>1. ASSUME Ordered PROVE TypeOK
  <2>1. known \in 1..Len(file) /\ DOMAIN rows = DOMAIN file /\ faults \in 0..MaxFaults
    BY <1>1 DEF Ordered, PoolIsSound, StagesAreInOrder
  <2>2. Cached => DOMAIN retrieval = 1..known /\ \A c \in DOMAIN head : DOMAIN head[c] = 1..known
    BY <1>1, RetrievalFacts DEF Ordered, Cached, ColumnsAreOwn, HeadColumn
  <2>3. model \in {"none", "trees", "formula"} /\ live \in BOOLEAN
    BY <1>1 DEF Ordered, StagesAreInOrder
  <2>4. Range(frame) \subseteq DOMAIN rows
    <3>1. stage \notin Asked => Range(frame) = {}
      BY <1>1 DEF Ordered, RequestIsAPart, Range
    <3> QED BY <1>1, <3>1 DEF Ordered, RequestIsAPart
  <2>5. /\ stage \in {"score", "loop", "widen", "done"} => DOMAIN fetched = DOMAIN frame
        /\ stage \in {"loop", "widen", "done"} => final \in [DOMAIN frame -> 0..ScoreUnit]
    BY <1>1 DEF Ordered, ScoresAreFractions, Finally, Fetched, Asked
  <2>6. loop.iteration \in 0..MaxIterations
    BY <1>1 DEF Ordered, LoopIsBounded
  <2> QED BY <2>1, <2>2, <2>3, <2>4, <2>5, <2>6 DEF TypeOK
<1> QED BY <1>1, RankingIsOrdered, PTL

\* What the scores of a finished ranking are like.
LEMMA FinishedFacts ==
    ASSUME Ordered, stage = "done"
    PROVE  /\ RowsOf(DOMAIN frame, Frame) /\ Distinct(DOMAIN frame, Frame)
           /\ final \in [DOMAIN frame -> Nat] /\ ask.size \in Nat
           /\ \A k \in DOMAIN frame : Masked(Frame[k]) => final[k] = 0
           /\ listing = BuildSubmission(Frame, final, ask.size)
<1>1. stage \in Asked /\ stage \in Finally
  BY DEF Asked, Fetched, Finally
<1>2. RowsOf(DOMAIN frame, Frame) /\ Distinct(DOMAIN frame, Frame) /\ ask.size \in Nat
  BY <1>1, FrameFacts DEF Ordered, RequestIsAPart
<1>3. /\ final \in [DOMAIN frame -> 0..ScoreUnit]
      /\ \A k \in DOMAIN frame : Masked(Frame[k]) => final[k] = 0
  BY <1>1 DEF Ordered, ScoresAreFractions
<1>4. 0..ScoreUnit \subseteq Nat
  OBVIOUS
<1> QED BY <1>2, <1>3, <1>4 DEF Ordered, ListingIsBuilt

\* Whatever failed on the way, the validator finds the submission in order: only the number of its
\* rows may be wrong, and the command exits 0 exactly when it is right.
THEOREM SubmissionsAreValid == Spec => []SubmissionIsValid
<1>1. ASSUME Ordered PROVE SubmissionIsValid
  <2> SUFFICES ASSUME stage = "done"
               PROVE  /\ ValidateSubmission(listing) \subseteq {"rows", "ranks"}
                      /\ (ExitCode = 0) = (Len(listing) = ExpectedRows)
    BY DEF SubmissionIsValid
  <2>1. /\ ValidateSubmission(listing) \subseteq {"rows", "ranks"}
        /\ ValidateSubmission(listing) = {} <=> Len(listing) = ExpectedRows
    BY <1>1, FinishedFacts, ListingIsValid
  <2> QED BY <2>1 DEF ExitCode
<1> QED BY <1>1, RankingIsOrdered, PTL

\* Nobody whom a gate or the honeypot rules mask is listed before anybody with a score.
THEOREM GatedAlwaysAtBottom == Spec => []GatedAtBottom
<1>1. ASSUME Ordered PROVE GatedAtBottom
  <2> SUFFICES ASSUME stage = "done", NEW a \in DOMAIN frame, Frame[a].id \in Listed, Masked(Frame[a])
               PROVE  /\ ~Frame[a].honeypot
                      /\ \A b \in DOMAIN frame : final[b] >= 50 =>
                            /\ Frame[b].id \in Listed
                            /\ Place(Frame[b].id) < Place(Frame[a].id)
    BY DEF GatedAtBottom
  <2>1. /\ RowsOf(DOMAIN frame, Frame) /\ Distinct(DOMAIN frame, Frame)
        /\ final \in [DOMAIN frame -> Nat] /\ ask.size \in Nat
        /\ \A k \in DOMAIN frame : Masked(Frame[k]) => final[k] = 0
        /\ listing = BuildSubmission(Frame, final, ask.size)
    BY <1>1, FinishedFacts
  <2>2. Frame[a].id \in IdsOf(listing)
    BY DEF Listed, IdsOf
  <2>3. /\ ~Frame[a].honeypot
        /\ \A b \in DOMAIN frame : final[b] >= 50 =>
              /\ Frame[b].id \in IdsOf(listing)
              /\ PlaceIn(listing, Frame[b].id) < PlaceIn(listing, Frame[a].id)
    BY <2>1, <2>2, ListingIsGated
  <2> QED BY <2>3 DEF Listed, Place, IdsOf, PlaceIn
<1> QED BY <1>1, RankingIsOrdered, PTL

\* No head signal is spent on a masked candidate, nor on more candidates than the head has.
THEOREM HeadAlwaysPassing == Spec => []HeadIsPassing
<1>1. ASSUME Ordered PROVE HeadIsPassing
  <2> SUFFICES ASSUME stage = "ask", NEW c \in DOMAIN head
               PROVE  LET scored == {i \in DOMAIN head[c] : head[c][i] > 0}
                      IN  /\ \A i \in scored : ~Masked(rows[i])
                          /\ Cardinality(scored) <= HeadSize
    BY DEF HeadIsPassing, HeadSize
  <2>1. HeadColumn(1..known, rows, head[c], HeadSize)
    BY <1>1 DEF Ordered, ColumnsAreOwn
  <2>2. DOMAIN head[c] = 1..known
    BY <2>1 DEF HeadColumn
  <2> QED BY <2>1, <2>2 DEF HeadColumn
<1> QED BY <1>1, RankingIsOrdered, PTL

\* Fusing the ranks of two modalities keeps dominance, for any pool.
THEOREM RetrievalAlwaysDominates == Spec => []RetrievalRespectsDominance
<1>1. ASSUME Ordered PROVE RetrievalRespectsDominance
  <2> DEFINE bm25 == Text("default", "bm25")
             cosine == Text("default", "cosine")
  <2> SUFFICES ASSUME stage = "train", NEW i \in 1..known, NEW j \in 1..known
               PROVE  /\ bm25[i] <= 0 /\ cosine[i] <= 0 => retrieval[i] = 0
                      /\ bm25[i] > bm25[j] /\ cosine[i] > cosine[j] => retrieval[i] >= retrieval[j]
    BY DEF RetrievalRespectsDominance
  <2>1. ColumnOf(1..known, bm25) /\ ColumnOf(1..known, cosine) /\ 1..known # {}
    BY <1>1, MatrixFacts DEF Ordered
  <2>2. retrieval = FuseRrf(bm25, cosine)
    BY <1>1 DEF Ordered, ColumnsAreOwn
  <2> HIDE DEF bm25, cosine
  <2> DEFINE fused == FuseRrf(bm25, cosine)
  <2>4. /\ \A x \in 1..known : bm25[x] <= 0 /\ cosine[x] <= 0 => fused[x] = 0
        /\ \A x, y \in 1..known : bm25[x] > bm25[y] /\ cosine[x] > cosine[y] => fused[x] >= fused[y]
    BY <2>1, FusionKeepsDominance
  <2> HIDE DEF fused
  <2>5. /\ bm25[i] <= 0 /\ cosine[i] <= 0 => retrieval[i] = 0
        /\ bm25[i] > bm25[j] /\ cosine[i] > cosine[j] => retrieval[i] >= retrieval[j]
    BY <2>2, <2>4 DEF fused
  <2> QED BY <2>5
<1> QED BY <1>1, RankingIsOrdered, PTL

\* While nothing fails, ranking a part of the pool uses the scores the whole pool has.
THEOREM SubsetsAlwaysKeepRetrieval == Spec => []SubsetKeepsRetrieval
BY RankingIsOrdered, PTL DEF Ordered

\* With at least the four widenings the default configuration allows, a loop that gives up has
\* looked at everybody who passes the gates.
THEOREM ExhaustedLoopsSeeEveryone ==
    ASSUME MaxIterations >= 4 PROVE Spec => []ExhaustedLoopSawEveryone
<1>1. ASSUME Ordered PROVE ExhaustedLoopSawEveryone
  <2> SUFFICES ASSUME loop.exit = "max_iterations"
               PROVE  loop.pool = {k \in DOMAIN frame : Frame[k].passed}
    BY DEF ExhaustedLoopSawEveryone
  <2>1. /\ stage \in Finally /\ loop.pool = Retrieved(MaxIterations)
    BY <1>1 DEF Ordered, LoopIsBounded
  <2>2. MinFit(MaxIterations) = 0
    <3> DEFINE x == 600 - 150 * MaxIterations
    <3>1. x \in Int /\ x <= 0
      BY RankingAssumption
    <3> HIDE DEF x
    <3>2. Max({x, 0}) = IF x >= 0 THEN x ELSE 0
      BY <3>1, GreaterOfTwo
    <3>3. Max({x, 0}) = 0
      BY <3>1, <3>2
    <3> QED BY <3>3 DEF MinFit, x
  <2>3. \A k \in DOMAIN frame : Frame[k].fit \in Nat
    <3>1. stage \in Asked
      BY <2>1 DEF Finally, Fetched
    <3> QED BY <1>1, <3>1, FrameFacts, SoundAmounts DEF Ordered, RowsOf
  <2>4. \A k \in DOMAIN frame : Frame[k].fit >= MinFit(MaxIterations)
    BY <2>2, <2>3
  <2> QED BY <2>1, <2>4 DEF Retrieved
<1> QED BY <1>1, RankingIsOrdered, PTL

(* The tournament *)

\* At least as good in every criterion of a match.
Dominates(a, b) == \A c \in 1..9 : a[c][2] >= b[c][2]

\* Players of one tournament: values in every criterion, and the same weights.
Comparable(a, b) ==
    \A c \in 1..9 : a[c][2] \in Nat /\ a[c][1] \in Nat /\ a[c][1] = b[c][1]

LEMMA CriteriaOfARow ==
    ASSUME NEW row, Sound(row), NEW x, x \in Nat, NEW other, Sound(other), NEW y, y \in Nat
    PROVE  DOMAIN Criteria(row, x) = 1..9 /\ Comparable(Criteria(row, x), Criteria(other, y))
<1>1. /\ row.fit \in Nat /\ row.retrievalSkills \in Nat /\ row.matched \in Nat /\ row.assessed \in Nat
      /\ row.bonus \in Nat /\ row.productRatio \in Nat /\ row.behavioural \in Nat
  BY DEF Sound, Amounts
<1>2. DOMAIN Criteria(row, x) = 1..9
  BY DEF Criteria
<1>3. ASSUME NEW c \in 1..9
      PROVE  /\ Criteria(row, x)[c][2] \in Nat /\ Criteria(row, x)[c][1] \in Nat
             /\ Criteria(row, x)[c][1] = Criteria(other, y)[c][1]
  <2>1. c \in {1, 2, 3, 4, 5, 6, 7, 8, 9}
    OBVIOUS
  <2> QED BY <1>1, <2>1 DEF Criteria
<1> QED BY <1>2, <1>3 DEF Comparable

\* Whoever dominates another wins at least as much against anybody.
LEMMA DominanceWins ==
    ASSUME NEW a, NEW b, NEW z, Dominates(a, b), NEW c \in 1..9,
           a[c][1] \in Nat, a[c][1] = b[c][1], a[c][1] = z[c][1],
           a[c][2] \in Nat, b[c][2] \in Nat, z[c][2] \in Nat
    PROVE  /\ Points(a, z, c) \in Nat /\ Points(b, z, c) \in Nat /\ Points(z, a, c) \in Nat
           /\ Points(b, z, c) <= Points(a, z, c)
           /\ Points(b, a, c) \in Nat /\ Points(a, b, c) \in Nat
           /\ Points(b, a, c) <= Points(a, b, c)
<1> DEFINE w == a[c][1]
           p == a[c][2]
           q == b[c][2]
           r == z[c][2]
<1>1. w \in Nat /\ p \in Nat /\ q \in Nat /\ r \in Nat /\ p >= q
  BY DEF Dominates
<1>2. /\ Points(a, z, c) = w * (IF p > r THEN 2 ELSE IF p = r THEN 1 ELSE 0)
      /\ Points(b, z, c) = w * (IF q > r THEN 2 ELSE IF q = r THEN 1 ELSE 0)
      /\ Points(z, a, c) = w * (IF r > p THEN 2 ELSE IF r = p THEN 1 ELSE 0)
      /\ Points(a, b, c) = w * (IF p > q THEN 2 ELSE IF p = q THEN 1 ELSE 0)
      /\ Points(b, a, c) = w * (IF q > p THEN 2 ELSE IF q = p THEN 1 ELSE 0)
  BY DEF Points
<1> HIDE DEF w, p, q, r
<1>3. w * 0 = 0 /\ w * 1 = w /\ w * 2 = w + w
  BY <1>1
<1> QED BY <1>1, <1>2, <1>3

\* A player that dominates another has at least as many points: whatever the other wins, it wins
\* too, the match between them included.
LEMMA DominanceCounts ==
    ASSUME NEW card, NEW top, IsFiniteSet(DOMAIN top), NEW k \in DOMAIN top, NEW l \in DOMAIN top,
           Dominates(card[top[k]], card[top[l]]),
           \A i, j \in DOMAIN top : Comparable(card[top[i]], card[top[j]])
    PROVE  Cardinality(Won(card, top, k)) >= Cardinality(Won(card, top, l))
<1>0. CASE k = l
  BY <1>0, WonIsFinite
<1>1. CASE k # l
  <2> DEFINE K == Won(card, top, k)
             L == Won(card, top, l)
             swap(m) == IF m = k THEN l ELSE m
             f == [e \in L |-> <<swap(e[1]), e[2]>>]
  <2>1. ASSUME NEW e \in L
        PROVE  /\ e = <<e[1], e[2]>> /\ e[1] \in DOMAIN top /\ e[1] # l
               /\ e[2] \in Beats(card[top[l]], card[top[e[1]]])
    BY DEF Won
  <2>2. ASSUME NEW m \in DOMAIN top, m # k, NEW p \in Beats(card[top[k]], card[top[m]])
        PROVE  <<m, p>> \in K
    BY <2>2 DEF Won
  <2>3. ASSUME NEW e \in L PROVE f[e] \in K
    <3> DEFINE m == e[1]
               p == e[2]
    <3>1. m \in DOMAIN top /\ m # l /\ p \in Beats(card[top[l]], card[top[m]])
      BY <2>1
    <3> HIDE DEF m, p
    <3>2. p \in (1..9) \X (1..52) /\ p[2] <= Points(card[top[l]], card[top[m]], p[1])
      BY <3>1 DEF Beats
    <3>3. p[1] \in 1..9 /\ p[2] \in Nat
      BY <3>2
    <3>4. /\ Points(card[top[k]], card[top[m]], p[1]) \in Nat
          /\ Points(card[top[l]], card[top[m]], p[1]) \in Nat
          /\ Points(card[top[l]], card[top[m]], p[1]) <= Points(card[top[k]], card[top[m]], p[1])
          /\ Points(card[top[l]], card[top[k]], p[1]) \in Nat
          /\ Points(card[top[k]], card[top[l]], p[1]) \in Nat
          /\ Points(card[top[l]], card[top[k]], p[1]) <= Points(card[top[k]], card[top[l]], p[1])
      <4> DEFINE a == card[top[k]]
                 b == card[top[l]]
                 z == card[top[m]]
                 c == p[1]
      <4>1. /\ c \in 1..9 /\ a[c][1] \in Nat /\ a[c][1] = b[c][1] /\ a[c][1] = z[c][1]
            /\ a[c][2] \in Nat /\ b[c][2] \in Nat /\ z[c][2] \in Nat /\ Dominates(a, b)
        BY <3>1, <3>3 DEF Comparable
      <4> HIDE DEF a, b, z, c
      <4>2. /\ Points(a, z, c) \in Nat /\ Points(b, z, c) \in Nat
            /\ Points(b, z, c) <= Points(a, z, c)
            /\ Points(b, a, c) \in Nat /\ Points(a, b, c) \in Nat
            /\ Points(b, a, c) <= Points(a, b, c)
        BY <4>1, DominanceWins
      <4> QED BY <4>2 DEF a, b, z, c
    <3>5. CASE m = k
      <4>1. p[2] <= Points(card[top[k]], card[top[l]], p[1])
        BY <3>2, <3>3, <3>4, <3>5
      <4>2. <<l, p>> \in K
        BY <1>1, <2>2, <3>2, <4>1 DEF Beats
      <4> QED BY <3>5, <4>2 DEF m, p
    <3>6. CASE m # k
      <4>1. p[2] <= Points(card[top[k]], card[top[m]], p[1])
        BY <3>2, <3>3, <3>4
      <4>2. <<m, p>> \in K
        BY <2>2, <3>1, <3>2, <3>6, <4>1 DEF Beats
      <4> QED BY <3>6, <4>2 DEF m, p
    <3> QED BY <3>5, <3>6
  <2>4. ASSUME NEW d \in L, NEW e \in L, f[d] = f[e] PROVE d = e
    <3>1. swap(d[1]) = swap(e[1]) /\ d[2] = e[2]
      BY <2>4
    <3>2. d[1] # l /\ e[1] # l /\ d = <<d[1], d[2]>> /\ e = <<e[1], e[2]>>
      BY <2>1
    <3>3. d[1] = e[1]
      BY <3>1, <3>2
    <3> QED BY <3>1, <3>2, <3>3
  <2> HIDE DEF K, L
  <2>5. f \in Injection(L, K)
    BY <2>3, <2>4 DEF Injection, IsInjective
  <2> HIDE DEF f
  <2>6. IsFiniteSet(K) /\ Cardinality(K) \in Nat /\ IsFiniteSet(L) /\ Cardinality(L) \in Nat
    BY WonIsFinite DEF K, L
  <2>7. Cardinality(L) <= Cardinality(K)
    BY <2>5, <2>6, FS_Injection
  <2>8. Cardinality(K) >= Cardinality(L)
    BY <2>6, <2>7
  <2> QED BY <2>8 DEF K, L
<1> QED BY <1>0, <1>1

\* In a head of naturals with everybody in it once, the spread strengths respect dominance.
LEMMA StrengthsRespectDominance ==
    ASSUME NEW D, NEW rs, RowsOf(D, rs), NEW rerank \in [D -> Nat],
           NEW top, IsFiniteSet(DOMAIN top), IsInjective(top), \A k \in DOMAIN top : top[k] \in D,
           DOMAIN top = 1..Len(top), Len(top) \in Nat,
           NEW i \in Range(top), NEW j \in Range(top),
           Dominates(Criteria(rs[i], rerank[i]), Criteria(rs[j], rerank[j]))
    PROVE  Spread(rs, top, RunTournament(rs, rerank, top))[i]
              >= Spread(rs, top, RunTournament(rs, rerank, top))[j]
<1> DEFINE card == [x \in D |-> Criteria(rs[x], rerank[x])]
           wins == [k \in DOMAIN top |-> Cardinality(Won(card, top, k))]
           scores == RunTournament(rs, rerank, top)
           col == Spread(rs, top, scores)
<1>1. PICK k \in DOMAIN top : top[k] = i
  BY DEF Range
<1>2. PICK l \in DOMAIN top : top[l] = j
  BY DEF Range
<1>3. ASSUME NEW m \in DOMAIN top PROVE col[top[m]] = scores[m]
  <2> DEFINE places == {x \in DOMAIN top : top[x] = top[m]}
  <2>1. places = {m}
    BY DEF IsInjective
  <2>2. top[m] \in D /\ DOMAIN rs = D
    BY DEF RowsOf
  <2>3. col[top[m]] = IF places = {} THEN 0 ELSE scores[CHOOSE x \in places : TRUE]
    <3> HIDE DEF scores
    <3> QED BY <2>2 DEF Spread
  <2> HIDE DEF places, scores, col
  <2>4. (CHOOSE x \in places : TRUE) = m
    BY <2>1
  <2> QED BY <2>1, <2>3, <2>4
<1>4. scores = IF Len(top) < 2 THEN Zeros(top) ELSE MinMax(wins)
  BY DEF RunTournament, RowsOf
<1>5. wins \in [DOMAIN top -> Nat]
  <2> HIDE DEF card
  <2> QED BY WonIsFinite
<1>6. wins[k] >= wins[l]
  <2>1. ASSUME NEW x \in DOMAIN top, NEW y \in DOMAIN top
        PROVE  Comparable(card[top[x]], card[top[y]])
    <3>1. top[x] \in D /\ top[y] \in D /\ Sound(rs[top[x]]) /\ Sound(rs[top[y]])
      BY DEF RowsOf
    <3>2. /\ card[top[x]] = Criteria(rs[top[x]], rerank[top[x]])
          /\ card[top[y]] = Criteria(rs[top[y]], rerank[top[y]])
      BY <3>1
    <3>3. rerank[top[x]] \in Nat /\ rerank[top[y]] \in Nat
      BY <3>1
    <3> HIDE DEF card
    <3>4. Comparable(Criteria(rs[top[x]], rerank[top[x]]), Criteria(rs[top[y]], rerank[top[y]]))
      BY <3>1, <3>3, CriteriaOfARow
    <3> QED BY <3>2, <3>4
  <2>2. Dominates(card[top[k]], card[top[l]])
    BY <1>1, <1>2
  <2> HIDE DEF card
  <2>3. Cardinality(Won(card, top, k)) >= Cardinality(Won(card, top, l))
    BY <2>1, <2>2, DominanceCounts
  <2> QED BY <2>3
<1> HIDE DEF wins, scores, col
<1>7. scores[k] >= scores[l]
  <2>1. MinMax(wins)[k] >= MinMax(wins)[l]
    BY <1>5, <1>6, MinMaxKeepsOrder
  <2>2. Zeros(top)[k] >= Zeros(top)[l]
    BY DEF Zeros
  <2> QED BY <1>4, <2>1, <2>2
<1>8. col[i] >= col[j]
  BY <1>1, <1>2, <1>3, <1>7
<1> QED BY <1>8 DEF col, scores

Dominance(rs, rerank, strength, top) ==
    \A i, j \in Range(top) :
        (\A c \in DOMAIN Criteria(rs[i], rerank[i]) :
            Criteria(rs[i], rerank[i])[c][2] >= Criteria(rs[j], rerank[j])[c][2])
        => strength[i] >= strength[j]

\* Before the tournament nobody has a strength; after it the strengths respect dominance.
Played ==
    /\ stage \in {"train", "rerank", "tournament"} => head.tournament = [i \in 1..known |-> 0]
    /\ stage = "llm" => Dominance(rows, head.rerank, head.tournament, Top(TournamentTopN))

LEMMA PlayTournamentRespectsDominance ==
    ASSUME Ordered, Played, PlayTournament PROVE Played'
<1> DEFINE top == Top(TournamentTopN)
           scores == RunTournament(Matrix, head.rerank, top)
           col == Spread(Matrix, top, scores)
<1>1. stage = "tournament" /\ stage' = "llm" /\ head.tournament = [i \in 1..known |-> 0]
  BY DEF PlayTournament, At, Played
<1>2. UNCHANGED <<file, rows, known, retrieval>>
  BY DEF PlayTournament, matrix
<1>3. /\ PoolIsSound /\ ColumnsAreOwn /\ stage # "retrieve" /\ TournamentTopN \in Nat
      /\ RowsOf(1..known, Matrix) /\ \A i \in 1..known : Matrix[i] = rows[i]
  BY <1>1, HeadSizes, MatrixFacts DEF Ordered
<1>4. /\ DOMAIN top = 1..Len(top) /\ Len(top) \in Nat /\ IsFiniteSet(DOMAIN top) /\ IsInjective(top)
      /\ \A k \in DOMAIN top : top[k] \in 1..known
  BY <1>3, TopFacts
<1>5. head.rerank \in [1..known -> Nat] /\ {"rerank", "tournament"} \subseteq DOMAIN head
  BY <1>3 DEF ColumnsAreOwn, HeadColumn
<1>6. Top(TournamentTopN)' = top
  <2>1. Matrix' = Matrix
    BY <1>2 DEF Matrix
  <2> QED BY <1>2, <2>1 DEF Top, HeadOf
<1>7. head' = head \/ head' = [head EXCEPT !["tournament"] = col]
  BY DEF PlayTournament, Top
<1>8. ASSUME NEW i \in Range(top), NEW j \in Range(top),
             Dominates(Criteria(rows[i], head.rerank[i]), Criteria(rows[j], head.rerank[j]))
      PROVE  head'["tournament"][i] >= head'["tournament"][j]
  <2>0. i \in 1..known /\ j \in 1..known
    BY <1>4 DEF Range
  <2>1. CASE head' = head
    <3>1. head'["tournament"] = [x \in 1..known |-> 0]
      BY <1>1, <2>1
    <3>2. head'["tournament"][i] = 0 /\ head'["tournament"][j] = 0
      BY <2>0, <3>1
    <3> QED BY <3>2
  <2>2. CASE head' = [head EXCEPT !["tournament"] = col]
    <3>1. Dominates(Criteria(Matrix[i], head.rerank[i]), Criteria(Matrix[j], head.rerank[j]))
      BY <1>3, <1>8, <2>0
    <3> HIDE DEF top
    <3>2. col[i] >= col[j]
      BY <1>3, <1>4, <1>5, <3>1, StrengthsRespectDominance
    <3> QED BY <1>5, <2>2, <3>2
  <2> QED BY <1>7, <2>1, <2>2
<1>9. head'["rerank"] = head["rerank"]
  BY <1>5, <1>7
<1>10. ASSUME NEW i \in Range(top), NEW j \in Range(top),
              \A c \in DOMAIN Criteria(rows[i], head.rerank[i]) :
                 Criteria(rows[i], head.rerank[i])[c][2] >= Criteria(rows[j], head.rerank[j])[c][2]
       PROVE  head'["tournament"][i] >= head'["tournament"][j]
  <2>1. i \in 1..known /\ Sound(rows[i]) /\ head.rerank[i] \in Nat
    BY <1>3, <1>4, <1>5 DEF Range, RowsOf
  <2>2. DOMAIN Criteria(rows[i], head.rerank[i]) = 1..9
    BY <2>1, CriteriaOfARow
  <2> QED BY <1>8, <1>10, <2>2 DEF Dominates
<1> HIDE DEF top
<1>11. Dominance(rows, head["rerank"], head'["tournament"], top)
  BY <1>10 DEF Dominance
<1>12. Dominance(rows', head'["rerank"], head'["tournament"], Top(TournamentTopN)')
  BY <1>2, <1>6, <1>9, <1>11
<1> QED BY <1>1, <1>12 DEF Played

\* Of two candidates of the head, one that is at least as good in every criterion of a match is at
\* least as strong after the tournament, for any head.
THEOREM TournamentsRespectDominance == Spec => []TournamentRespectsDominance
<1>1. Init => Played
  BY DEF Init, Played
<1>2. ASSUME Ordered, Played, [Next]_vars PROVE Played'
  <2>1. CASE CacheRetrieval
    <3>1. /\ stage' = "train" /\ known' = known
          /\ head' = [c \in {"rerank", "tournament"} |-> [i \in 1..known |-> 0]]
      BY <2>1 DEF CacheRetrieval, At, matrix, Zeros, Matrix
    <3> QED BY <3>1 DEF Played
  <2>2. CASE Train
    <3>1. stage = "train" /\ stage' = "rerank" /\ known' = known /\ head' = head
      BY <2>2 DEF Train, At, matrix
    <3> QED BY <1>2, <3>1 DEF Played
  <2>3. CASE RerankHead
    <3>1. stage = "rerank" /\ stage' = "tournament" /\ known' = known
      BY <2>3 DEF RerankHead, At, matrix
    <3>2. head' = head \/ \E col : head' = [head EXCEPT !["rerank"] = col]
      BY <2>3 DEF RerankHead
    <3>3. "tournament" \in DOMAIN head
      BY <1>2, <3>1 DEF Ordered, ColumnsAreOwn
    <3>4. head'["tournament"] = head["tournament"]
      BY <3>2, <3>3
    <3> QED BY <3>4, <1>2, <3>1 DEF Played
  <2>4. CASE PlayTournament
    BY <1>2, <2>4, PlayTournamentRespectsDominance
  <2>5. CASE ScoreByLlm \/ Ask \/ Fetch \/ Score \/ StartLoop \/ Widen \/ List
    <3>1. stage' \in {"ask"} \cup Asked
      BY <2>5 DEF ScoreByLlm, Ask, Fetch, Score, StartLoop, Widen, List, At, Asked
    <3> QED BY <3>1 DEF Played, Asked
  <2>6. CASE UNCHANGED vars
    <3>1. UNCHANGED <<stage, rows, known, retrieval, head>>
      BY <2>6 DEF vars, matrix, columns
    <3>2. Top(TournamentTopN)' = Top(TournamentTopN)
      <4>1. Matrix' = Matrix
        BY <3>1 DEF Matrix
      <4> QED BY <3>1, <4>1 DEF Top, HeadOf
    <3> QED BY <1>2, <3>1, <3>2 DEF Played, Dominance, Criteria, Range
  <2> QED BY <1>2, <2>1, <2>2, <2>3, <2>4, <2>5, <2>6 DEF Next
<1>3. Played => TournamentRespectsDominance
  BY DEF Played, Dominance, Top, TournamentRespectsDominance
<1> QED BY <1>1, <1>2, <1>3, RankingIsOrdered, PTL DEF Spec

(* The tiers *)

LEMMA ProductIsMonotone ==
    ASSUME NEW a \in Nat, NEW b \in Nat, NEW c \in Nat, a <= b PROVE c * a <= c * b
OBVIOUS

\* A position found at a share of n places, counted from the last one, is one of them.
LEMMA ShareIsAPlace ==
    ASSUME NEW share \in 0..100, NEW n \in Nat \ {0}
    PROVE  n - (share * (n - 1)) \div 100 \in 1..n /\ (share * (n - 1)) % 100 \in 0..99
<1> DEFINE m == n - 1
           at == share * m
           whole == 100 * m
<1>1. m \in Nat /\ share \in Nat /\ share <= 100
  OBVIOUS
<1>2. at \in Nat /\ whole \in Nat
  <2> HIDE DEF m
  <2> QED BY <1>1, ProductIsNat
<1>3. at <= whole
  <2> HIDE DEF m
  <2>1. m * share <= m * 100
    BY <1>1, ProductIsMonotone
  <2> QED BY <1>1, <2>1
<1>4. whole \div 100 = m
  <2> HIDE DEF m
  <2> QED BY <1>1
<1> HIDE DEF at, whole
<1>5. at \div 100 <= m
  BY <1>2, <1>3, <1>4, QuotientIsMonotone
<1>6. at \div 100 \in Nat
  BY <1>2, QuotientIsNat
<1>7. n - at \div 100 \in 1..n
  BY <1>5, <1>6
<1>8. at % 100 \in 0..99
  BY <1>2
<1> QED BY <1>7, <1>8 DEF at

\* A quantile of positive values is positive and not above the greatest of them.
LEMMA QuantileIsBetween ==
    ASSUME NEW P \in SUBSET Nat, IsFiniteSet(P), P # {}, NEW column,
           \A i \in P : column[i] \in Nat \ {0}, NEW top \in P, \A i \in P : column[i] <= column[top],
           NEW share \in 0..100
    PROVE  /\ Quantile(column, P, share) \in Nat \ {0}
           /\ Quantile(column, P, share) <= 100 * column[top]
<1> DEFINE ahead == [i \in P |-> {j \in P : column[j] > column[i] \/ (column[j] = column[i] /\ j > i)}]
           order == Sorted(ahead)
           n == Cardinality(P)
           down == (share * (n - 1)) \div 100
           rest == (share * (n - 1)) % 100
           at == n - down
           next == Max({at - 1, 1})
           low == column[order[at]]
           high == column[order[next]]
<1>1. n \in Nat \ {0}
  BY FS_CardinalityType, FS_EmptySet
<1>2. Ranks(ahead) /\ DOMAIN ahead = P
  <2>1. /\ \A i \in P : ahead[i] = {j \in P : column[j] > column[i] \/ (column[j] = column[i] /\ j > i)}
        /\ \A i \in P : column[i] \in Nat
    OBVIOUS
  <2>2. DOMAIN ahead = P
    OBVIOUS
  <2> HIDE DEF ahead
  <2> QED BY <2>1, <2>2, DescendingRanks
<1>3. \A i, j \in P : j \in ahead[i] => column[j] >= column[i]
  OBVIOUS
<1> HIDE DEF ahead
<1>4. order \in [1..n -> P] /\ \A j, k \in 1..n : order[j] \in ahead[order[k]] <=> j < k
  BY <1>2, SortedIsInOrder
<1>5. Len(order) = n
  BY <1>1, <1>4
<1>6. at \in 1..n /\ rest \in 0..99 /\ down \in Int
  <2> HIDE DEF n
  <2>1. n - (share * (n - 1)) \div 100 \in 1..n /\ (share * (n - 1)) % 100 \in 0..99
    BY <1>1, ShareIsAPlace
  <2> QED BY <1>1, <2>1
<1>7. Quantile(column, P, share) = 100 * low + (high - low) * rest
  <2>1. order = Descending(P, column)
    BY DEF Descending, ahead
  <2>2. Quantile(column, P, share)
          = LET o == order
                a == share * (Len(o) - 1)
                l == column[o[Len(o) - a \div 100]]
                h == column[o[Max({Len(o) - a \div 100 - 1, 1})]]
            IN  100 * l + (h - l) * (a % 100)
    BY <2>1 DEF Quantile
  <2> HIDE DEF order
  <2> QED BY <1>5, <2>2
<1> HIDE DEF order, rest, down
<1>8. next \in 1..n /\ (next < at \/ next = at)
  <2>1. next = IF at - 1 >= 1 THEN at - 1 ELSE 1
    <3> HIDE DEF at
    <3>1. at - 1 \in Int
      BY <1>6
    <3> QED BY <3>1, GreaterOfTwo
  <2> HIDE DEF next, at, n
  <2> QED BY <1>1, <1>6, <2>1
<1> HIDE DEF at, next, n
<1>9. order[at] \in P /\ order[next] \in P
  BY <1>4, <1>6, <1>8
<1>10. low \in Nat \ {0} /\ high \in Nat /\ high <= column[top] /\ column[top] \in Nat
  BY <1>9
<1>11. high >= low
  <2>1. CASE next = at
    BY <1>10, <2>1
  <2>2. CASE next < at
    <3>1. order[next] \in ahead[order[at]]
      BY <1>4, <1>6, <1>8, <2>2
    <3> QED BY <1>3, <1>9, <3>1
  <2> QED BY <1>8, <2>1, <2>2
<1> DEFINE t == column[top]
<1> HIDE DEF low, high, t
<1>12. (high - low) * rest \in Nat /\ (high - low) * rest <= 100 * (high - low)
  <2> DEFINE d == high - low
  <2>1. d \in Nat /\ rest \in Nat /\ rest <= 100
    BY <1>6, <1>10, <1>11
  <2> HIDE DEF d
  <2>2. d * rest \in Nat /\ d * rest <= d * 100
    BY <2>1, ProductIsNat, ProductIsMonotone
  <2>3. d * rest \in Nat /\ d * rest <= 100 * d
    BY <2>1, <2>2
  <2> QED BY <2>3 DEF d
<1> DEFINE x == (high - low) * rest
<1>13. t \in Nat /\ high <= t /\ x \in Nat /\ x <= 100 * (high - low)
  BY <1>10, <1>12 DEF t
<1> HIDE DEF x
<1>14. 100 * low + x \in Nat \ {0} /\ 100 * low + x <= 100 * t
  BY <1>10, <1>11, <1>13
<1> QED BY <1>7, <1>14 DEF x, t

LEMMA RelevanceIsNat ==
    ASSUME NEW D, NEW rs, RowsOf(D, rs) PROVE Relevance(rs) \in [D -> Nat]
<1> DEFINE skills == [i \in D |-> rs[i].retrievalSkills]
           assessed == [i \in D |-> rs[i].assessed]
           relevant(i) == Times(340, rs[i].fit) + Times(220, MinMax(skills)[i])
                          + Times(120, MinMax(assessed)[i]) + (IF rs[i].production THEN 120 ELSE 0)
                          + Times(100, rs[i].productRatio) + Times(100, Clip(rs[i].behavioural))
<1>1. skills \in [D -> Nat] /\ assessed \in [D -> Nat]
  <2>1. \A i \in D : rs[i].retrievalSkills \in Nat /\ rs[i].assessed \in Nat
    BY DEF RowsOf, Sound, Amounts
  <2> QED BY <2>1
<1>2. MinMax(skills) \in [D -> Nat] /\ MinMax(assessed) \in [D -> Nat]
  <2> HIDE DEF skills, assessed
  <2> QED BY <1>1, MinMaxKeepsOrder DEF RowsOf
<1>3. Relevance(rs) = [i \in D |-> IF rs[i].honeypot \/ ~rs[i].passed THEN 0 ELSE relevant(i)]
  BY DEF Relevance, Column, RowsOf
<1> HIDE DEF skills, assessed
<1>4. ASSUME NEW i \in D PROVE relevant(i) \in Nat
  <2>0. rs[i].fit \in Nat /\ MinMax(skills)[i] \in Nat /\ MinMax(assessed)[i] \in Nat
    BY <1>2, SoundAmounts DEF RowsOf
  <2> HIDE DEF relevant
  <2>1. /\ Times(340, rs[i].fit) \in Nat /\ Times(220, MinMax(skills)[i]) \in Nat
        /\ Times(120, MinMax(assessed)[i]) \in Nat
    BY <2>0 DEF Times, Unit
  <2>2. Times(100, rs[i].productRatio) \in Nat /\ Times(100, Clip(rs[i].behavioural)) \in Nat
    BY ClipIsNat, TimesIsNat, SoundAmounts DEF RowsOf
  <2>3. (IF rs[i].production THEN 120 ELSE 0) \in Nat
    OBVIOUS
  <2> QED BY <2>1, <2>2, <2>3 DEF relevant
<1> HIDE DEF relevant
<1> QED BY <1>3, <1>4

LEMMA SequenceShape ==
    ASSUME NEW S, NEW s \in Seq(S)
    PROVE  Len(s) \in Nat /\ DOMAIN s = 1..Len(s) /\ \A t \in 1..Len(s) : s[t] \in S
OBVIOUS

\* Tiers of any column of naturals: nothing for nothing, the best for the best, never inverted.
LEMMA TiersAreMonotone ==
    ASSUME NEW D \in SUBSET Nat, IsFiniteSet(D), NEW rel \in [D -> Nat], NEW i \in D
    PROVE  /\ rel[i] = 0 => Tiers(rel)[i] = 0
           /\ rel[i] > 0 /\ rel[i] = MaxOf(rel) => Tiers(rel)[i] = Len(TierCuts)
           /\ \A j \in D : rel[i] >= rel[j] => Tiers(rel)[i] >= Tiers(rel)[j]
<1> DEFINE P == {j \in D : rel[j] > 0}
           cut(t) == Quantile(rel, P, TierCuts[t])
           N == Len(TierCuts)
           R(x) == Reached(rel, x)
<1>1. N \in Nat /\ DOMAIN TierCuts = 1..N /\ \A t \in 1..N : TierCuts[t] \in 0..100
  <2>1. TierCuts \in Seq(0..100)
    BY TierAssumption
  <2> QED BY <2>1, SequenceShape, Zenon
<1>2. \A x \in D : R(x) = {t \in 1..N : P # {} /\ 100 * rel[x] >= cut(t)}
  BY <1>1 DEF Reached
<1>3. P \in SUBSET Nat /\ IsFiniteSet(P) /\ P \in SUBSET D
  BY FS_Subset
<1>4. \A x \in P : rel[x] \in Nat \ {0}
  OBVIOUS
<1>5. ASSUME NEW t \in 1..N, NEW top \in P, \A x \in P : rel[x] <= rel[top]
      PROVE  cut(t) \in Nat \ {0} /\ cut(t) <= 100 * rel[top]
  <2> HIDE DEF P
  <2>1. TierCuts[t] \in 0..100
    BY <1>1
  <2> QED BY <1>3, <1>4, <1>5, <2>1, QuantileIsBetween
<1>6. P # {} => \E top \in P : \A x \in P : rel[x] <= rel[top]
  <2> SUFFICES ASSUME P # {} PROVE \E top \in P : \A x \in P : rel[x] <= rel[top]
    OBVIOUS
  <2> DEFINE col == [x \in P |-> rel[x]]
             V == Range(col)
  <2> HIDE DEF P
  <2>1. V \in SUBSET Int /\ V # {} /\ \A x \in P : rel[x] \in V
    BY <1>4 DEF Range
  <2>2. IsFiniteSet(V)
    <3>1. col \in Surjection(P, V)
      BY DEF Surjection, Range
    <3> HIDE DEF col
    <3> QED BY <1>3, <3>1, FS_Surjection
  <2>3. \A v \in V : \E x \in P : v = rel[x]
    BY DEF Range
  <2> HIDE DEF V
  <2>4. Max(V) \in V /\ \A v \in V : Max(V) >= v
    BY <2>1, <2>2, MaxIsThere
  <2>5. PICK top \in P : Max(V) = rel[top]
    BY <2>3, <2>4
  <2> QED BY <1>4, <2>1, <2>4, <2>5
<1>7. Tiers(rel) = [x \in D |-> IF R(x) = {} THEN 0 ELSE N + 1 - Min(R(x))]
  BY DEF Tiers
<1> HIDE DEF cut
<1>8. ASSUME NEW x \in D PROVE R(x) \in SUBSET (1..N)
  BY <1>2
<1>9. ASSUME NEW x \in D, R(x) # {} PROVE Min(R(x)) \in R(x) /\ \A t \in R(x) : Min(R(x)) <= t
  <2>1. R(x) \in SUBSET (1..N) /\ R(x) \in SUBSET Int
    BY <1>8
  <2>2. IsFiniteSet(1..N)
    BY <1>1, UpToIsFinite
  <2> HIDE DEF R, N
  <2>3. IsFiniteSet(R(x))
    BY <2>1, <2>2, FS_Subset
  <2> QED BY <1>9, <2>1, <2>3, MinIsThere
<1>10. ASSUME rel[i] = 0 PROVE R(i) = {}
  <2> SUFFICES ASSUME NEW t \in R(i) PROVE FALSE
    OBVIOUS
  <2>1. t \in 1..N /\ P # {} /\ 100 * rel[i] >= cut(t)
    BY <1>2
  <2>2. cut(t) \in Nat \ {0}
    BY <1>5, <1>6, <2>1
  <2> QED BY <1>10, <2>1, <2>2
<1>11. ASSUME rel[i] > 0, rel[i] = MaxOf(rel) PROVE R(i) = 1..N
  <2>1. \A x \in D : rel[x] <= rel[i]
    <3>1. rel \in [D -> Int] /\ D # {}
      OBVIOUS
    <3> QED BY <1>11, <3>1, ExtremesOfAColumn
  <2>2. i \in P
    BY <1>11
  <2>3. ASSUME NEW t \in 1..N PROVE cut(t) \in Nat /\ cut(t) <= 100 * rel[i]
    BY <1>3, <1>5, <2>1, <2>2
  <2>4. \A t \in 1..N : 100 * rel[i] >= cut(t)
    BY <2>3
  <2> HIDE DEF P, R
  <2> QED BY <1>2, <2>2, <2>4
<1>12. ASSUME NEW j \in D, rel[i] >= rel[j] PROVE R(j) \in SUBSET R(i)
  <2>1. ASSUME NEW t \in R(j) PROVE t \in R(i)
    <3>1. t \in 1..N /\ P # {} /\ 100 * rel[j] >= cut(t)
      BY <1>2
    <3>2. cut(t) \in Nat
      BY <1>5, <1>6, <3>1
    <3>3. 100 * rel[i] >= cut(t)
      BY <1>12, <3>1, <3>2
    <3> QED BY <1>2, <3>1, <3>3
  <2> QED BY <2>1
<1> HIDE DEF R, P
<1>13. ASSUME rel[i] = 0 PROVE Tiers(rel)[i] = 0
  BY <1>7, <1>10, <1>13
<1>14. ASSUME rel[i] > 0, rel[i] = MaxOf(rel) PROVE Tiers(rel)[i] = N
  <2>1. CASE N = 0
    BY <1>7, <1>11, <1>14, <2>1
  <2>2. CASE N # 0
    <3>1. R(i) # {} /\ 1 \in R(i)
      BY <1>1, <1>11, <1>14, <2>2
    <3>2. Min(R(i)) \in 1..N /\ Min(R(i)) <= 1
      BY <1>8, <1>9, <3>1
    <3>3. Min(R(i)) = 1
      BY <1>1, <3>2
    <3> QED BY <1>1, <1>7, <3>1, <3>3
  <2> QED BY <2>1, <2>2
<1>15. ASSUME NEW j \in D, rel[i] >= rel[j] PROVE Tiers(rel)[i] >= Tiers(rel)[j]
  <2>1. R(j) \in SUBSET R(i)
    BY <1>12, <1>15
  <2>2. CASE R(j) = {}
    <3>1. Tiers(rel)[j] = 0 /\ (R(i) = {} => Tiers(rel)[i] = 0)
      BY <1>7, <2>2
    <3>2. R(i) # {} => Tiers(rel)[i] \in Nat
      <4>1. R(i) # {} => Min(R(i)) \in 1..N
        BY <1>8, <1>9
      <4> QED BY <1>1, <1>7, <4>1
    <3> QED BY <3>1, <3>2
  <2>3. CASE R(j) # {}
    <3>1. R(i) # {}
      BY <2>1, <2>3
    <3>2. Min(R(j)) \in R(i) /\ Min(R(i)) <= Min(R(j)) /\ Min(R(i)) \in 1..N /\ Min(R(j)) \in 1..N
      BY <1>8, <1>9, <2>1, <2>3, <3>1
    <3>3. Tiers(rel)[i] = N + 1 - Min(R(i)) /\ Tiers(rel)[j] = N + 1 - Min(R(j))
      BY <1>7, <2>3, <3>1
    <3> QED BY <1>1, <3>2, <3>3
  <2> QED BY <2>2, <2>3
<1> QED BY <1>13, <1>14, <1>15

\* Tiers never invert the relevance they bucket, for any cuts and any pool.
THEOREM TiersAlwaysFollowRelevance == Spec => []TiersFollowRelevance
<1>1. ASSUME Ordered PROVE TiersFollowRelevance
  <2> DEFINE rel == Relevance(Matrix)
  <2>1. RowsOf(1..known, Matrix)
    BY <1>1, MatrixFacts DEF Ordered
  <2>2. rel \in [1..known -> Nat] /\ IsFiniteSet(1..known) /\ 1..known \in SUBSET Nat
    BY <2>1, RelevanceIsNat DEF RowsOf
  <2> HIDE DEF rel
  <2>3. \A i \in 1..known :
            /\ rel[i] = 0 => Tiers(rel)[i] = 0
            /\ rel[i] > 0 /\ rel[i] = MaxOf(rel) => Tiers(rel)[i] = Len(TierCuts)
            /\ \A j \in 1..known : rel[i] >= rel[j] => Tiers(rel)[i] >= Tiers(rel)[j]
    BY <2>2, TiersAreMonotone
  <2> QED BY <2>3 DEF TiersFollowRelevance, rel
<1> QED BY <1>1, RankingIsOrdered, PTL

(* Skills *)

\* Learning a skill that is not computer vision never lowers the fit of a candidate whose career has
\* a technical role, whatever else its record says.
THEOREM SkillsNeverHurt == Spec => []SkillNeverHurts
<1>1. ASSUME Ordered PROVE SkillNeverHurts
  <2>1. ASSUME NEW i \in DOMAIN file, NEW kind \in {"retrieval", "llm", "ml"}, rows[i].technicalRoles > 0
        PROVE  FeatureRow(Learns(file[i], kind)).fit >= rows[i].fit
    <3> DEFINE c == file[i]
    <3>1. c \in Candidate /\ rows[i] = FeatureRow(c)
      BY <1>1, PoolsOfCandidates DEF Ordered, PoolIsSound
    <3>2. kind \in Kinds /\ kind \notin CvSpeech
      BY DEF Kinds, JdCore, CvSpeech
    <3> HIDE DEF c
    <3>3. FeatureRow(Learns(c, kind)).fit >= FeatureRow(c).fit
      BY <2>1, <3>1, <3>2, LearningNeverHurts
    <3> QED BY <3>1, <3>3 DEF c
  <2> QED BY <2>1 DEF SkillNeverHurts
<1> QED BY <1>1, RankingIsOrdered, PTL
=============================================================================
