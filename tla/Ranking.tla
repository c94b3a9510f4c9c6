------------------------------ MODULE Ranking ------------------------------
(***************************************************************************)
(* One ranking from the candidates file to the submission: the columns      *)
(* precompute.py caches in the feature matrix, then a request answered from  *)
(* them by rank.py or by services/ranker.py, or live for a candidate the     *)
(* matrix does not know. Each stage may fail where the code catches its      *)
(* exceptions; MaxFaults bounds how many do.                                 *)
(***************************************************************************)
EXTENDS Scoring

CONSTANTS Pools,          \* candidates files, as sequences of candidates
          Sizes,          \* values of top_k
          RerankTopK, TournamentTopN, LlmTopK, LlmBatch,
          MaxIterations,  \* max_loop_iterations
          MaxFaults       \* bound: stages that fail

ASSUME RankingAssumption ==
    /\ Sizes \subseteq Nat \ {0} /\ MaxFaults \in Nat /\ MaxIterations \in Nat
    /\ {RerankTopK, TournamentTopN, LlmTopK, LlmBatch} \subseteq Nat \ {0}

\* A candidates file is not empty and names nobody twice.
ASSUME PoolsAssumption ==
    /\ Pools \subseteq Seq(Candidate) \ {<<>>}
    /\ \A pool \in Pools : \A i, j \in DOMAIN pool : pool[i].id = pool[j].id => i = j

VARIABLES
  file,      \* the candidates, in the order of the file
  rows,      \* their feature rows; those before `known` are in the matrix
  known,     \* how many rows the matrix has
  stage,     \* the next stage
  retrieval, \* retrieval_score column of the matrix
  head,      \* the head columns of the matrix that exist
  model,     \* the model file: "trees", "formula" or "none"
  ask,       \* the request: who asks, for whom, with which job description
  frame,     \* the positions ranked, in order
  live,      \* whether they are ranked without the matrix
  fetched,   \* their retrieval scores
  final,     \* their final scores
  loop,      \* LoopState: iteration, pool, exit reason
  listing,   \* the rows of the answer
  faults

matrix  == <<file, rows, known>>
columns == <<retrieval, head, model>>
request == <<ask, frame, live>>
vars    == <<matrix, stage, columns, request, fetched, final, loop, listing, faults>>

Matrix == [i \in 1..known |-> rows[i]]
Frame  == [k \in DOMAIN frame |-> rows[frame[k]]]
NoLoop == [iteration |-> 0, pool |-> {}, exit |-> ""]
Text(jd, kind) == [i \in 1..known |-> rows[i].texts[jd][kind]]

Init ==
    /\ file \in Pools
    /\ rows = [i \in DOMAIN file |-> FeatureRow(file[i])]
    /\ known \in {Len(file), Max({1, Len(file) - 1})}
    /\ stage = "retrieve"
    /\ retrieval = <<>> /\ head = <<>> /\ model = "none"
    /\ ask = [by |-> "none"] /\ frame = <<>> /\ live = FALSE
    /\ fetched = <<>> /\ final = <<>> /\ loop = NoLoop /\ listing = <<>> /\ faults = 0

At(here, next) == stage = here /\ stage' = next
Failing == faults < MaxFaults /\ faults' = faults + 1
Working == UNCHANGED faults

(* precompute.py *)

CacheRetrieval ==
    /\ At("retrieve", "train") /\ Working
    /\ retrieval' = FuseRrf(Text("default", "bm25"), Text("default", "cosine"))
    /\ head' = [c \in {"rerank", "tournament"} |-> Zeros(Matrix)]
    /\ UNCHANGED <<matrix, model, request, fetched, final, loop, listing>>

\* What _make_ranker and _make_regressor find installed.
Rankers    == {"trees", "none"}
Regressors == {"trees", "formula"}

\* train_ranker takes a regressor without a ranker, or when the ranker rejects the fit; a failure
\* writes no model.
Train ==
    /\ At("train", "rerank")
    /\ \/ Working /\ model' \in (Rankers \ {"none"}) \cup Regressors
       \/ Failing /\ model' = "none"
    /\ UNCHANGED <<matrix, retrieval, head, request, fetched, final, loop, listing>>

\* valid of _provisional_order: how many rows may enter the head.
Valid == Len(ProvisionalOrder(Matrix, retrieval))

\* Scores of the head by a cross-encoder, or by JD-term overlap when there is none.
Reranked(top) ==
    {MinMax([k \in DOMAIN top |-> rows[top[k]].texts.default[kind]]) : kind \in {"deep", "bm25"}}

RerankHead ==
    LET top == HeadOf(Matrix, retrieval, RerankTopK)
    IN  /\ At("rerank", "tournament")
        /\ \/ /\ Working /\ Valid > 1
              /\ \E scores \in Reranked(top) : head' = [head EXCEPT !.rerank = Spread(Matrix, top, scores)]
           \/ Working /\ Valid <= 1 /\ UNCHANGED head
           \/ Failing /\ UNCHANGED head
        /\ UNCHANGED <<matrix, retrieval, model, request, fetched, final, loop, listing>>

PlayTournament ==
    LET top == HeadOf(Matrix, retrieval, TournamentTopN)
    IN  /\ At("tournament", "llm")
        /\ \/ /\ Working
              /\ head' = IF Valid > 1
                         THEN [head EXCEPT !.tournament =
                                  Spread(Matrix, top, RunTournament(Matrix, head.rerank, top))]
                         ELSE head
           \/ Failing /\ UNCHANGED head
        /\ UNCHANGED <<matrix, retrieval, model, request, fetched, final, loop, listing>>

\* score_head stops at the first batch that is not answered and keeps what it has.
LlmScored(top, batches) ==
    [k \in DOMAIN top |-> IF k <= batches * LlmBatch
                          THEN Min({Unit, 400 * rows[top[k]].texts.default.deep}) ELSE 0]

WithColumn(name, col) ==
    [c \in DOMAIN head \cup {name} |-> IF c = name THEN col ELSE head[c]]

ScoreByLlm ==
    LET top == HeadOf(Matrix, retrieval, LlmTopK)
        batches == (Len(top) + LlmBatch - 1) \div LlmBatch
    IN  /\ At("llm", "ask")
        /\ \E answered \in 0..batches :
              LET col == Spread(Matrix, top, LlmScored(top, answered))
              IN  /\ IF answered \in {0, batches} THEN Working ELSE Failing
                  /\ head' = IF Valid > 1 /\ Range(col) # {0} THEN WithColumn("llm", col) ELSE head
        /\ UNCHANGED <<matrix, retrieval, model, request, fetched, final, loop, listing>>

(* A request *)

Everyone == DOMAIN rows
InOrder(S) == Sorted([i \in S |-> {j \in S : j < i}])

\* rank.py: from the matrix when it knows every candidate of the file it is given.
AskCli ==
    \E who \in (SUBSET Everyone) \ {{}}, size \in Sizes :
        /\ ask' = [by |-> "cli", jd |-> "default", size |-> size]
        /\ frame' = InOrder(who)
        /\ live' = ~(who \subseteq 1..known)

\* RankerService.rank: the ids the matrix knows of those asked for, or candidates sent along.
AskService ==
    \E who \in (SUBSET Everyone) \ {{}}, size \in Sizes, jd \in {"default", "custom"} :
        /\ ask' = [by |-> "service", jd |-> jd, size |-> size]
        /\ \/ who \cap 1..known # {} /\ frame' = InOrder(who \cap 1..known) /\ live' = FALSE
           \/ frame' = InOrder(who) /\ live' = TRUE

Ask == /\ At("ask", "fetch") /\ Working
       /\ AskCli \/ AskService
       /\ UNCHANGED <<matrix, columns, fetched, final, loop, listing>>

\* Mutant of Mapped: the scores of the pool are read by position in the request.
MappedByPosition(full) == [k \in DOMAIN frame |-> full[k]]

\* The scores of the pool, for the candidates of the request.
Mapped(full) == [k \in DOMAIN frame |-> full[frame[k]]]

\* Retrieval over the whole pool from the artifacts that load; the cached column without any.
FromArtifacts(embeddings, index) ==
    IF ~embeddings /\ ~index THEN Mapped(retrieval)
    ELSE Mapped(FuseRrf(IF index THEN Text(ask.jd, "bm25") ELSE Zeros(Matrix),
                        IF embeddings THEN Text(ask.jd, "cosine") ELSE Zeros(Matrix)))

FetchFast ==
    /\ ~live
    /\ IF ask.by = "service" /\ ask.jd = "default"
       THEN Working /\ fetched' = Mapped(retrieval)
       ELSE \E embeddings, index \in BOOLEAN :
               /\ IF embeddings /\ index THEN Working ELSE Failing
               /\ fetched' = FromArtifacts(embeddings, index)

FetchLive ==
    LET Texts(kind) == [k \in DOMAIN frame |-> rows[frame[k]].texts[ask.jd][kind]]
    IN  /\ live
        /\ \/ Working /\ fetched' = FuseRrf(Texts("bm25"), Texts("cosine"))
           \/ Failing /\ fetched' = Zeros(frame)

Fetch == /\ At("fetch", "score")
         /\ FetchFast \/ FetchLive
         /\ UNCHANGED <<matrix, columns, request, final, loop, listing>>

\* The fitted trees: a step function of the features.
Trees(row) == row.fit \div 100

\* predict_fit: the proxy formula when the model is missing or does not load or predict.
PredictFit(rowsAsked, works) ==
    MinMax(IF works /\ model = "trees" THEN Column(rowsAsked, Trees) ELSE ProxyLabels(rowsAsked))

\* The head columns of the request; a frame built live has none.
HeadAsked == IF live THEN <<>> ELSE [c \in DOMAIN head |-> [k \in DOMAIN frame |-> head[c][frame[k]]]]

Score ==
    /\ At("score", "loop")
    /\ \E works \in BOOLEAN :
          /\ IF works THEN Working ELSE model = "trees" /\ Failing
          /\ final' = MergeFinalScores(Frame, PredictFit(Frame, works), fetched, HeadAsked)
    /\ UNCHANGED <<matrix, columns, request, fetched, loop, listing>>

(* run_loop: plan, retrieve, reflect *)

MinFit(iteration) == Max({600 - 150 * iteration, 0})

Retrieved(iteration) ==
    {k \in DOMAIN frame : /\ Frame[k].passed
                          /\ \/ Frame[k].fit >= MinFit(iteration)
                             \/ Frame[k].retrievalSkills > 0 \/ Frame[k].llmSkills > 0}

\* _coverage: the dimension of the job description that fewest of the pool cover.
Coverage(pool) ==
    Min({Min({Unit, (Unit * Cardinality({k \in pool : covers[k]})) \div ask.size}) :
            covers \in {[k \in DOMAIN frame |-> Frame[k].retrievalSkills > 0],
                        [k \in DOMAIN frame |-> Frame[k].llmSkills > 0],
                        [k \in DOMAIN frame |-> Frame[k].production],
                        [k \in DOMAIN frame |-> Frame[k].productRatio > 500],
                        [k \in DOMAIN frame |-> Frame[k].availability > 300]}})

\* Mutant of Exit: one pass too few.
ExitEarly(iteration, pool) ==
    IF iteration >= MaxIterations - 1 THEN "max_iterations"
    ELSE IF Coverage(pool) >= 800 THEN "confident" ELSE ""

\* Mutant of Exit: one pass too many.
ExitLate(iteration, pool) ==
    IF iteration > MaxIterations THEN "max_iterations"
    ELSE IF Coverage(pool) >= 800 THEN "confident" ELSE ""

\* should_continue
Exit(iteration, pool) ==
    IF iteration >= MaxIterations THEN "max_iterations"
    ELSE IF Coverage(pool) >= 800 THEN "confident" ELSE ""

Reflect(iteration) ==
    LET pool == Retrieved(iteration)
    IN  loop' = [iteration |-> iteration, pool |-> pool, exit |-> Exit(iteration, pool)]

StartLoop == At("loop", "widen") /\ Reflect(0) /\ Working
             /\ UNCHANGED <<matrix, columns, request, fetched, final, listing>>

Widen == /\ stage = "widen" /\ loop.exit = "" /\ Reflect(loop.iteration + 1) /\ Working
         /\ UNCHANGED <<matrix, stage, columns, request, fetched, final, listing>>

\* The listing; rank.py also writes it and validates the file.
List == /\ At("widen", "done") /\ loop.exit # "" /\ Working
        /\ listing' = BuildSubmission(Frame, final, ask.size)
        /\ UNCHANGED <<matrix, columns, request, fetched, final, loop>>

\* run(): the exit code of the command.
ExitCode == IF ValidateSubmission(listing) = {} THEN 0 ELSE 1

Next == \/ CacheRetrieval \/ Train \/ RerankHead \/ PlayTournament \/ ScoreByLlm
        \/ Ask \/ Fetch \/ Score \/ StartLoop \/ Widen \/ List

Spec == Init /\ [][Next]_vars

(* Properties *)

Cached  == stage # "retrieve"
Listed  == {listing[k].id : k \in DOMAIN listing}
Place(id) == CHOOSE k \in DOMAIN listing : listing[k].id = id

\* Types of the state. The properties of the cached columns are looked at when a column is written:
\* no later step changes it.
TypeOK ==
    /\ known \in 1..Len(file) /\ DOMAIN rows = DOMAIN file /\ faults \in 0..MaxFaults
    /\ Cached => DOMAIN retrieval = 1..known /\ \A c \in DOMAIN head : DOMAIN head[c] = 1..known
    /\ model \in {"none", "trees", "formula"} /\ live \in BOOLEAN
    /\ Range(frame) \subseteq DOMAIN rows
    /\ stage \in {"score", "loop", "widen", "done"} => DOMAIN fetched = DOMAIN frame
    /\ stage \in {"loop", "widen", "done"} => final \in [DOMAIN frame -> 0..ScoreUnit]
    /\ loop.iteration \in 0..MaxIterations

\* Rounding the scores never breaks the order or the tie-break of the file: whatever failed on the
\* way, all the validator can complain of is the number of rows, and rank.py exits 0 exactly when
\* that number is right.
SubmissionIsValid ==
    stage = "done" => /\ ValidateSubmission(listing) \subseteq {"rows", "ranks"}
                      /\ (ExitCode = 0) = (Len(listing) = ExpectedRows)

\* A candidate that fails a gate is listed only after every candidate with a score that passes
\* them all, and a honeypot is never listed: whichever signals, live or cached, scored them.
GatedAtBottom ==
    stage = "done" =>
        \A a \in DOMAIN frame : Frame[a].id \in Listed /\ Masked(Frame[a]) =>
            /\ ~Frame[a].honeypot
            /\ \A b \in DOMAIN frame : final[b] >= 50 =>
                  Frame[b].id \in Listed /\ Place(Frame[b].id) < Place(Frame[a].id)

\* No head signal is spent on a candidate that a gate or the honeypot rules mask, and none on more
\* candidates than the head has.
HeadIsPassing ==
    stage = "ask" => \A c \in DOMAIN head :
        LET scored == {i \in DOMAIN head[c] : head[c][i] > 0}
        IN  /\ \A i \in scored : ~Masked(rows[i])
            /\ Cardinality(scored) <= Max({RerankTopK, TournamentTopN, LlmTopK})

\* Fusing ranks loses the scores but not dominance: a candidate no modality matches gets nothing,
\* and one that both modalities score higher is not fused lower.
RetrievalRespectsDominance ==
    stage = "train" => \A i, j \in 1..known :
        LET bm25 == Text("default", "bm25")
            cosine == Text("default", "cosine")
        IN  /\ bm25[i] <= 0 /\ cosine[i] <= 0 => retrieval[i] = 0
            /\ bm25[i] > bm25[j] /\ cosine[i] > cosine[j] => retrieval[i] >= retrieval[j]

\* While nothing fails, ranking a part of the pool for the job description the matrix was built
\* for uses the scores the whole pool has, whether they are cached or computed again.
SubsetKeepsRetrieval ==
    stage \in {"score", "loop", "widen", "done"} /\ ~live /\ ask.jd = "default" /\ faults = 0
    => \A k \in DOMAIN frame : fetched[k] = retrieval[frame[k]]

\* The training labels follow the relevance they bucket: tiers never invert it, nothing irrelevant
\* gets one, and the best candidate gets the best.
TiersFollowRelevance ==
    stage = "train" => LET relevance == Relevance(Matrix)
                           tiers == Tiers(relevance)
    IN  \A i \in 1..known :
            /\ relevance[i] = 0 => tiers[i] = 0
            /\ relevance[i] > 0 /\ relevance[i] = MaxOf(relevance) => tiers[i] = Len(TierCuts)
            /\ \A j \in 1..known : relevance[i] >= relevance[j] => tiers[i] >= tiers[j]

\* Of two candidates of the head, one that is at least as good in every criterion of a match is at
\* least as strong after the tournament.
TournamentRespectsDominance ==
    stage = "llm" =>
        LET top == Range(HeadOf(Matrix, retrieval, TournamentTopN))
            Card(i) == Criteria(rows[i], head.rerank[i])
        IN  \A i, j \in top :
                (\A c \in DOMAIN Card(i) : Card(i)[c][2] >= Card(j)[c][2])
                    => head.tournament[i] >= head.tournament[j]

\* For someone with a technical career one more relevant skill never lowers the fit, although the
\* stuffer rules count skills against a candidate.
SkillNeverHurts ==
    stage = "retrieve" => \A i \in DOMAIN file : rows[i].technicalRoles > 0 =>
        \A kind \in {"retrieval", "llm", "ml"} :
            FeatureRow(Learns(file[i], kind)).fit >= rows[i].fit

\* A loop that gives up has looked at every candidate that passes the gates: its threshold has
\* come down to 0 by then.
ExhaustedLoopSawEveryone ==
    loop.exit = "max_iterations" => loop.pool = {k \in DOMAIN frame : Frame[k].passed}
=============================================================================
