------------------------------ MODULE Scoring ------------------------------
(***************************************************************************)
(* The arithmetic of a ranking, over a sequence of feature rows: fusion     *)
(* (pipeline/retrieval.py), proxy and tier labels (ml/trainer.py,            *)
(* ml/pseudo_labels.py), the head (precompute.py, pipeline/tournament.py),   *)
(* the final score (pipeline/scorer.py) and the submission                   *)
(* (output/submission_writer.py, validate_submission.py). Fractions are      *)
(* thousandths and scores millionths, both rounded down.                    *)
(***************************************************************************)
EXTENDS Features, Order

CONSTANTS ExpectedRows,  \* EXPECTED_DATA_ROWS
          TierCuts       \* _TIER_QUANTILES: the share of positives below each tier

ASSUME TierAssumption == ExpectedRows \in Nat /\ TierCuts \in Seq(0..100)

ScoreUnit == 1000000   \* 1.0 as a score

Column(rows, Of(_)) == [i \in DOMAIN rows |-> Of(rows[i])]
Zeros(rows) == [i \in DOMAIN rows |-> 0]
MinOf(column) == Min(Range(column))
MaxOf(column) == Max(Range(column))

MinMax(column) ==
    [i \in DOMAIN column |->
        IF MaxOf(column) = MinOf(column) THEN 0
        ELSE (Unit * (column[i] - MinOf(column))) \div (MaxOf(column) - MinOf(column))]

\* np.argsort reversed: positions of a column, best first and the later of equal ones first.
Descending(positions, column) ==
    Sorted([i \in positions |->
        {j \in positions : column[j] > column[i] \/ (column[j] = column[i] /\ j > i)}])

(* Retrieval *)

RankOf(column, i) ==
    Cardinality({j \in DOMAIN column : column[j] > column[i] \/ (column[j] = column[i] /\ j < i)})

\* Mutant of Credit: a row that does not match at all keeps the credit of its rank.
PhantomCredit(column, i) == ScoreUnit \div (61 + RankOf(column, i))

Credit(column, i) == IF column[i] > 0 THEN ScoreUnit \div (61 + RankOf(column, i)) ELSE 0

FuseRrf(bm25, cosine) ==
    IF bm25 = <<>> THEN <<>>
    ELSE MinMax([i \in DOMAIN bm25 |-> Credit(bm25, i) + Credit(cosine, i)])

(* Labels and the head *)

ProxyLabels(rows) ==
    LET retrieval == MinMax(Column(rows, LAMBDA r : r.retrievalSkills))
        matched == MinMax(Column(rows, LAMBDA r : r.matched))
    IN  [i \in DOMAIN rows |->
            IF rows[i].honeypot \/ ~rows[i].passed THEN 0
            ELSE Times(450, rows[i].fit) + Times(200, retrieval[i]) + Times(150, matched[i])
                 + Times(100, rows[i].productRatio) + Times(100, Clip(rows[i].behavioural))]

Relevance(rows) ==
    LET retrieval == MinMax(Column(rows, LAMBDA r : r.retrievalSkills))
        assessed == MinMax(Column(rows, LAMBDA r : r.assessed))
    IN  [i \in DOMAIN rows |->
            IF rows[i].honeypot \/ ~rows[i].passed THEN 0
            ELSE Times(340, rows[i].fit) + Times(220, retrieval[i]) + Times(120, assessed[i])
                 + (IF rows[i].production THEN 120 ELSE 0) + Times(100, rows[i].productRatio)
                 + Times(100, Clip(rows[i].behavioural))]

\* A hundredfold quantile of the values at these positions, interpolated as pandas does.
Quantile(column, positions, share) ==
    LET order == Descending(positions, column)
        at == share * (Len(order) - 1)
        low == column[order[Len(order) - at \div 100]]
        high == column[order[Max({Len(order) - at \div 100 - 1, 1})]]
    IN  100 * low + (high - low) * (at % 100)

\* The bands a relevance reaches, best first.
Reached(relevance, i) ==
    LET positive == {j \in DOMAIN relevance : relevance[j] > 0}
    IN  {t \in DOMAIN TierCuts :
            positive # {} /\ 100 * relevance[i] >= Quantile(relevance, positive, TierCuts[t])}

\* Mutant of Tiers: the lowest band is assigned last and takes the others over.
TiersBestFirst(relevance) ==
    [i \in DOMAIN relevance |-> IF Reached(relevance, i) = {} THEN 0
                                ELSE Len(TierCuts) + 1 - Max(Reached(relevance, i))]

\* The tier of a row: 5 for the first cut down to 1 for the last, 0 below them all.
Tiers(relevance) ==
    [i \in DOMAIN relevance |-> IF Reached(relevance, i) = {} THEN 0
                                ELSE Len(TierCuts) + 1 - Min(Reached(relevance, i))]

Masked(row) == row.honeypot \/ ~row.passed

Provisional(rows, retrieval) ==
    [i \in DOMAIN rows |-> Times(600, ProxyLabels(rows)[i]) + Times(400, retrieval[i])]

\* Mutant of ProvisionalOrder: masked rows keep their provisional score.
ProvisionalOrderUnmasked(rows, retrieval) ==
    Descending(DOMAIN rows, Provisional(rows, retrieval))

\* The rows that may enter the head, best first (valid of _provisional_order cuts the rest).
ProvisionalOrder(rows, retrieval) ==
    Descending({i \in DOMAIN rows : ~Masked(rows[i])}, Provisional(rows, retrieval))

HeadOf(rows, retrieval, size) ==
    LET order == ProvisionalOrder(rows, retrieval) IN SubSeq(order, 1, Min({size, Len(order)}))

\* Doubled criteria of a match: weight of each column of _CRITERIA, in hundredths.
Criteria(row, rerank) ==
    << <<26, row.fit>>, <<20, rerank>>, <<14, row.retrievalSkills>>, <<12, row.matched>>,
       <<12, row.assessed>>, <<5, row.bonus>>, <<4, IF row.production THEN 1 ELSE 0>>,
       <<4, row.productRatio>>, <<3, row.behavioural>> >>

\* What one criterion brings a, in points: the doubled weight for a win, half of it for a draw.
Points(a, b, c) == a[c][1] * (IF a[c][2] > b[c][2] THEN 2 ELSE IF a[c][2] = b[c][2] THEN 1 ELSE 0)

\* Mutant of Beats: the outcome matrix is read the wrong way round.
BeatsTransposed(a, b) == {p \in (1..9) \X (1..52) : p[2] <= Points(b, a, p[1])}

\* The points of a against b, numbered within their criterion.
Beats(a, b) == {p \in (1..9) \X (1..52) : p[2] <= Points(a, b, p[1])}

\* The points of the k-th of the head against everyone else in it.
Won(card, top, k) ==
    UNION {{m} \X Beats(card[top[k]], card[top[m]]) : m \in DOMAIN top \ {k}}

\* Strengths of the head. In a round robin the maximum-likelihood strengths order the players by
\* their win totals; the totals stand for them.
RunTournament(rows, rerank, top) ==
    LET card == [i \in DOMAIN rows |-> Criteria(rows[i], rerank[i])]
    IN  IF Len(top) < 2 THEN Zeros(top)
        ELSE MinMax([k \in DOMAIN top |-> Cardinality(Won(card, top, k))])

\* The scores of the head's rows, 0 elsewhere.
Spread(rows, top, scores) ==
    [i \in DOMAIN rows |-> LET k == {m \in DOMAIN top : top[m] = i}
                           IN  IF k = {} THEN 0 ELSE scores[CHOOSE m \in k : TRUE]]

(* The final score *)

SignalModifier(row) ==
    Clip(Max({300, Times(Clip(450 + Times(550, Clip(row.availability))),
                         Clip(600 + Times(400, Clip(row.engagement))))}))

HeadWeight == [rerank |-> 150, tournament |-> 100, llm |-> 150]

\* _head_blend over the columns present, folded into the core.
Blend(core, head, i) ==
    LET Weight(c) == IF c \in DOMAIN head THEN HeadWeight[c] ELSE 0
        Part(c) == IF c \in DOMAIN head THEN HeadWeight[c] * Clip(head[c][i]) ELSE 0
    IN  Times(Unit - (Weight("rerank") + Weight("tournament") + Weight("llm")), core)
        + Part("rerank") + Part("tournament") + Part("llm")

\* merge_final_scores before the clip; `head` maps the columns present to their values.
Merged(rows, fit, retrieval, head) ==
    [i \in DOMAIN rows |->
        LET core == 400 * Clip(fit[i]) + 350 * Clip(retrieval[i]) + 250 * Clip(rows[i].behavioural)
            placed == Times(Blend(core, head, i), 850 + Times(150, Clip(rows[i].location)))
        IN  Times(placed, SignalModifier(rows[i])) + 1000 * rows[i].bonus]

\* Mutant of MergeFinalScores: a failed gate does not pin the score.
MergeWithoutGates(rows, fit, retrieval, head) ==
    [i \in DOMAIN rows |-> IF rows[i].honeypot THEN 0
                           ELSE Min({ScoreUnit, Merged(rows, fit, retrieval, head)[i]})]

MergeFinalScores(rows, fit, retrieval, head) ==
    LET merged == Merged(rows, fit, retrieval, head)
    IN  [i \in DOMAIN rows |-> IF Masked(rows[i]) THEN 0 ELSE Min({ScoreUnit, merged[i]})]

(* The listing *)

Before(a, b) == a.score > b.score \/ (a.score = b.score /\ a.id < b.id)

\* The best `size` rows that are not honeypots, by the score as computed.
Pick(rows, final, size) ==
    LET entry == [i \in {p \in DOMAIN rows : ~rows[p].honeypot} |->
                     [id |-> rows[i].id, score |-> final[i]]]
        order == Sorted([i \in DOMAIN entry |-> {j \in DOMAIN entry : Before(entry[j], entry[i])}])
    IN  SubSeq(order, 1, Min({size, Len(order)}))

\* Mutant of BuildSubmission: rounded after sorting, and not sorted again.
SortedThenRounded(rows, final, size) ==
    LET picked == Pick(rows, final, size)
    IN  [k \in DOMAIN picked |-> [id |-> rows[picked[k]].id, rank |-> k,
                                  score |-> (final[picked[k]] + 50) \div 100]]

\* build_submission of the rows picked: rounded to four places, sorted again, ranked.
BuildSubmission(rows, final, size) ==
    LET picked == Pick(rows, final, size)
        rounded == {[id |-> rows[i].id, score |-> (final[i] + 50) \div 100] : i \in Range(picked)}
        sorted == Sorted([row \in rounded |-> {other \in rounded : Before(other, row)}])
    IN  [k \in DOMAIN sorted |-> [id |-> sorted[k].id, rank |-> k, score |-> sorted[k].score]]

\* The complaints of validate_submission.
ValidateSubmission(listing) ==
    LET pairs == {k \in DOMAIN listing : k + 1 \in DOMAIN listing}
    IN  {e \in {"rows", "ids", "ranks", "order", "ties"} :
            CASE e = "rows" -> Len(listing) # ExpectedRows
              [] e = "ids" -> ~IsInjective([k \in DOMAIN listing |-> listing[k].id])
              [] e = "ranks" -> {listing[k].rank : k \in DOMAIN listing} # 1..ExpectedRows
              [] e = "order" -> \E k \in pairs : listing[k].score < listing[k + 1].score
              [] e = "ties" -> \E k \in pairs : /\ listing[k].score = listing[k + 1].score
                                                /\ listing[k].id > listing[k + 1].id}
=============================================================================
