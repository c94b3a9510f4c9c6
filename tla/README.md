# ProvenanceRank: TLA+ models and proofs

ProvenanceRank ranks candidates against a job description. An offline `precompute.py` builds
artifacts, a FastAPI service answers ranking requests from them through a job queue, and an
optional live layer ingests GitHub activity into a database and an evidence graph. This directory
models the parts of it whose behaviour depends on the order of events, and the pure algorithms whose
results those parts carry: what is checked by TLC, what is proved by TLAPS, and what is left out.

## Inventory

| Component | State | Operations | Interacts with | What is hard | What makes it correct |
|---|---|---|---|---|---|
| Ranking jobs (`services/jobs.py`, `services/queue.py`) | job rows, priority queue, dead letters, in-flight tasks, semaphore, event channels | submit, dequeue, handle, persist, mark_failed, retry, subscribe, stop | database, cache, ranker, SSE clients | concurrent tasks, retries, partial failure, stop and crash | no message lost or duplicated, results saved once, events agree with rows, every job settles |
| Redis stream queue (`services/queue.py`) | stream, pending entries, dead-letter stream | enqueue, dequeue, ack, retry | Redis, worker processes | consumers die; acknowledge and re-add are two calls | at-least-once delivery |
| Result cache, rate limiter (`services/cache.py`, `services/ratelimit.py`) | entries with expiry and frequency, counters | get, set, incr, evict, check | jobs, API edge | boundaries of windows and capacities | bounded size, at most the limit per window |
| Ranker service (`services/ranker.py`, `ml/predictor.py`) | matrix, ids, embeddings, index, spec, manifest; the model stays in its file | load, rank | artifacts on disk, admin precompute | fields change one by one, and files are rewritten, under concurrent readers | a ranking is made of one generation of artifacts |
| Precompute (`precompute.py`, `core/artifact_cache.py`) | artifact files, sidecar keys, manifest | run, resume, the cached stages | ranker, `rank.py` | interrupted writes, changing inputs, keys that omit an input | a completed matrix belongs to its inputs |
| Circuit breaker (`core/circuit_breaker.py`) | state, failure count, opening time | call | Neo4j backend and its callers | outcomes recorded long after admission | opens at the limit, recovers |
| Ingestion (`ingestion/`) | developer status, evidence, skills, Celery queues | sync, fan-out, summarise and index, beat, dead letters | GitHub, database, graph | redelivery, races on `content_hash`, long transactions | each artifact indexed once, confidence bounded |
| Evidence graph (`graph/`) | nodes, edges, vector index cache | upsert, query, get_backend | ingestion, search API | stale index, check-then-act | graph agrees with stored evidence |
| Features (`pipeline/feature_engineering.py`, `honeypot_detector.py`, `gate_filter.py`) | none (pure) | one row per candidate, honeypot rules, gates | precompute, ranker, `rank.py` | missing dates, thresholds, rules that contradict | a skill never hurts, gates are decided once |
| Ranking algorithms (`pipeline/`, `ml/`, `output/`, `rank.py`) | columns of the matrix, model file, `LoopState` | fusion, labels, head, tournament, final score, loop, listing | precompute, ranker | ties, rounding, missing artifacts, stages that fail | a valid submission in the right order |
| Database layer (`db/`) | tables | repositories, `session_scope` | all of the above | commits whose outcome is unknown | transactions are atomic |
| Models, LLM, auth, HTTP plumbing, frontend | little or none | | | third-party numerics, I/O | not modelled |

`PROJECT.json` lists every component with its status, and the hazards with their lines.

## Modules

    JobLifecycle      what a client may observe of a job (abstract)
      ^ implemented by
    JobPipeline       submit, queue, worker, handler, cache, stop, crash, restart
      ^ MCJobPipeline (instances)      ^ JobPipelineProofs (theorems)
    CircuitBreaker    one breaker shared by concurrent callers
      ^ CircuitBreakerProofs
    Precompute        the files a run writes, their keys, and what a later run reuses
      ^ MCPrecompute                   ^ PrecomputeProofs
    Order             sorting by counting (operators), used by Features, Scoring and Evidence
      ^ OrderProofs                    ^ FeaturesProofs, IngestionProofs
    Features          one candidate: schema, feature row, honeypot rules, gates (operators)
      ^ FeaturesProofs                 ^ RankingProofs
      ^ Scoring       columns over rows: fusion, labels, head, score, listing (operators)
          ^ Ranking   one ranking, from the candidates file to the submission
              ^ MCRanking              ^ RankingProofs
    Evidence          artifacts, confidence, the graph and the search over it (operators)
      ^ Ingestion     API syncs and Celery tasks over one database and one graph
          ^ MCIngestion                ^ IngestionProofs
    Cache             InMemoryCache (operators)
      ^ Serving       rate limiter, cached rankings, reload under requests and precomputes
          ^ MCServing                  ^ ServingProofs

`JobPipeline` treats a ranking as opaque and the cache as entries that appear and vanish; `Serving`
has the cache, the ranker's fields and the limiter, and leaves out the queue between them;
`Ranking` has what one call of the ranker computes. `Precompute` has one run at a time with its
keys; `Serving` has several at a time and only asks which run wrote a file.

### JobPipeline

The state is the database (`row`, `batches`, `served`), the in-memory queue (`pq`, `seq`, `dlq`),
the worker (`hand`, `tasks`, `permits`), the result cache, the events published so far, and the
phase of the process. A message in `hand` is the one `_loop` holds between `dequeue` and
`_sem.acquire`. Each `await` of `_handle` and `_execute` that follows a state change ends an
action; a task's `pc` names the next one:

| Action | Code |
|---|---|
| `Submit`, `Enqueue` | `JobManager.submit` up to the commit, and the enqueue after it |
| `Dequeue`, `StartTask`, `TaskDone` | `QueueWorker._loop` and its done callback |
| `Check` | the duplicate test of `_handle`, outside its `try` |
| `MarkRunning`, `Lookup`, `Rank`, `Store`, `Persist` | `_execute` and `_persist` |
| `MarkFailed` | `mark_failed` on the last attempt |
| `Raise`, `Retry` (inside these) | the `except` of `_handle`, then `_process` and `InMemoryQueue.retry` |
| `Expire` | a cache entry expires or is evicted |
| `Stop`, `Exit`, `Crash`, `Restart` | `QueueWorker.stop` and the lifespan of the app |

A call to the database may commit, roll back, or (`LostAck`) commit and still raise. Calls to the
cache and to the ranker may raise. What a process held in memory is recorded in `lost` when it stops
or dies, since no code recovers it. Rankings are abstracted to the request they were computed for.
`dedup_key` is left out because `JobManager` never passes one; event channels are abstracted to the
set of terminal events published, until the stream module of the plan. JSON bodies, metrics, the
audit log and timings are left out.

### CircuitBreaker

`Attempt` and `Succeed`/`Fail`/`Cancel` are the two halves of one `call()`. `elapsed` is
`monotonic() - opened_at`, counted in ticks up to the cooldown, and the failure count is capped at
`FailMax`: beyond these bounds the code only compares with `>=`. `probes` is a history variable, the
callers admitted since the breaker became half-open.

### Precompute

A file's content is the set of inputs it was computed from (candidates, job description, embedder)
and a key is the set of inputs it hashes, so "the cache is right" reads `Pure(disk[a]) = keys[a]`.
A step loads, recomputes, writes or stamps one artifact, in the order of `main()`. Content is kept
only for the files a later run looks at; `spec.json`, the BM25 index and `ids` are steps. `StageFails` is
the `except Exception` of each stage of the accuracy layer; `Interrupt` kills the run at any step
and may leave the file of that step truncated. `doubtful` and `tainted` are history variables: the
artifacts whose last write was not completed by its stamp, and those the run has reused. Contents
of the same shape are assumed where a mismatch of lengths would raise in NumPy. Runs are without `--limit`: it cuts
the candidates and no key hashes it, so a `--resume` run after a run with a limit reuses, or skips over
(`precompute.py:247` looks at its own limit only), what belongs to fewer candidates. "Every key hashes all that its
stage depends on" is claimed without it. The input files do
not change during a run. The settings are the defaults (heuristic labels); LLM head scoring may be on.

### Features, Scoring, Ranking

`Features` derives a row from a candidate and `Scoring` works on sequences of rows; both are pure.
A date is a month since 1900, a fraction is in thousandths and a score in millionths, rounded down; a
word is the vocabulary of `core/constants.py` it belongs to, and the match of a text with a job
description is an input (`texts`). Curves (`log1p`, `sqrt`, `tanh`, `exp`) are step functions that
grow alike. Columns that only a trained model reads are left out, and a trained model is some step
function of the fit. A property of order carries over because the abstractions keep order; one that
needs exact numbers is not stated. The tournament's strengths are replaced by win totals, which
order a round robin in the same way; a total is the number of points won, each the place of a criterion and
of a unit of its weight. Sorting is by counting: the k-th element is the one with k - 1 ahead of it. A
quantile interpolates between neighbours of the descending order.

`Ranking` is the sequence of stages over them, each failing where the code catches exceptions:

| Action | Code |
|---|---|
| `CacheRetrieval` | `precompute.main`: the `retrieval_score` column |
| `Train`, `RerankHead`, `PlayTournament`, `ScoreByLlm` | `_build_accuracy_layer` with `ml/` and `pipeline/tournament.py` |
| `Ask` | `rank.run` and `RankerService.rank`: fast path or live path |
| `Fetch` | `_retrieval_scores` of `rank.py`, `_retrieval` and `_rank_live` of the service |
| `Score` | `predict_fit` and `merge_final_scores` |
| `StartLoop`, `Widen` | `run_loop` |
| `List` | `_finalise`, `_finalize` and `build_submission` |

### Evidence, Ingestion

`Evidence` holds what does not depend on processes: the order in which a GitHub answer is parsed,
what a summary may say (the heuristic, or a model's clamped answer), the confidence it is worth, the
in-memory graph and its queries, the semantic index with its count key, and the fused answer. A search
reads no more than `VectorTopK` pieces of evidence (`graph_vector_top_k`) and lists no more than `Limit`
developers, in each structured query and in its answer. Similarity of texts is whether they share a skill;
which of equally similar pieces `search` takes is left open, and so is the order of developers of equal value,
which the code leaves to insertion and the model breaks by number. Credits are in millionths.

`Ingestion` is concurrent. A worker is an asyncio task of the API or a Celery process; `task[w].at` is
the next `await` of what it executes and `work[w]` what its open transaction has written:

| Action | Code |
|---|---|
| `Connect` | `connect_github` and `resync`, which spawn `_safe_sync` |
| `SyncAllDevelopers`, `Take` | `sync_all_developers` of beat, which may fail after some of its messages; a Celery worker takes a message |
| `Start`, `Fetch` | status "syncing", `fetch_developer_signals`; artifacts without a text are skipped later, where the loops skip them (`Enqueue`, `Check`) |
| `Enqueue`, `Enqueued` | `_fanout` |
| `Check`, `Insert`, `ReadSkill`, `WriteSkill` | `summarise_and_index`: exists, create, and the two halves of `SkillRepository.upsert` with link and graph write |
| `Commit`, `MarkSynced` | the end of `session_scope`; `mark_synced` |
| `Fail`, `ConstraintViolated`, `DeadlockVictim`, with `Raise` | an exception: rollback, then `_safe_sync` or Celery's retry and dead letter |
| `SetError`, or `Fail` at `failed` | the `except` of `_safe_sync`: a database call, which may fail as well; then nothing reports the sync (`unreported`) |
| `Crash` | the process dies; an unacknowledged message goes back |
| `Search` | a query, which may rebuild the index |

The transactions are those of PostgreSQL under READ COMMITTED, its default: a statement sees what is
committed, a row another open transaction has written makes it wait, a unique constraint is checked
once that one has ended, and a circular wait fails one of the waiting. On SQLite, which serialises
writers, a subset of these behaviours remains. Graph writes go to the process-wide in-memory store or to
Neo4j, outside any transaction.

Three simplifications. The queue is a set, so a message that a retried fan-out sends again merges with the same
message if that is still waiting; one already taken is sent again. A crash takes one API task at a time, although all
API tasks of a process die with it: several crashes are the other case, and need as many faults. There is one graph and
one index for everyone, as with Neo4j; the in-memory store is per process (`graph/queries.py:212`), so a Celery worker
would fill its own.

### Cache, Serving

`Cache` is `InMemoryCache` as operators on its entries (in the order of the `OrderedDict`), frequencies
and counters. In `Serving` an artifact is the number of the precompute that wrote it, and a ranking is the record of
the parts it was made of (`parts`):

| Action | Code |
|---|---|
| `Arrive` | `enforce_rate_limit` with `RateLimiter.check` |
| `Lookup`, `Store` | the cache calls of `JobManager._execute` |
| `Pool`, `Select` | the reads of the matrix in `_rank_fast` |
| `Retrieve`, `Embed`, `ReadVectors`, `ReadIndex` | `_retrieval`: the cached column, or ids, `embedding_meta.json`, vectors and index one after another |
| `Fit` | `predict_fit`, which loads the model file at every request and falls back to a formula |
| `TriggerPrecompute`, `Write`, `TrainingFails`, `PrecomputeFails` | the thread of `POST /admin/precompute`, file by file: `jd_spec.json`, embeddings, their meta, index, model, matrix, ids, manifest; a training that fails is caught and leaves the old model |
| `LoadMatrix`, `Validate`, `LoadIds`, `LoadSpec`, `LoadEmbeddings`, `LoadIndex`, `LoadManifest`, `LoadFails` | `load()`, one assignment an action; an exception ends it, or is caught and leaves the old field |
| `Tick` | time passes |

Two files are not fields: the model and `embedding_meta.json` are read by every request that needs them. Who reads a
file while it is written may get a part of it (`Reads`, `Torn`), and what that does is up to the reader: `load()` raises
or skips, `predict_fit` falls back, a request fails, and a part of the ids is just fewer ids. The embeddings are
memory-mapped: `ranker.embeddings` is the shape of the map, the vectors are those of
the file as it is when they are read. A file that has shrunk below its map cannot be read to the end; here
the request ends without an answer, while the operating system may also kill the process.

History variables say what a property may expect. `mine` of a thread is the set of files it makes current: all, less
those whose stage failed, and none once it overlaps with another thread. `settled` is the `mine` of the last reload,
empty while a precompute is under way. `began` of a request and `calm` of an answer carry the same through a ranking:
`calm` is what was settled while nothing overlapped with it.

Left out: live requests (`_rank_live`), which read no field but the spec and no file but the model, and are not cached;
the default job description, a file of the deployment that precompute reads and does not write. Files are there from the
start. An admin's precompute is run without `--resume`, so keys play no part. A failure to read that is not a half-written file
counts as a fault.

## Runs

| Run | Bounds | Shows |
|---|---|---|
| `pipeline_faults` | 2 jobs with one cache key, one of them live; 3 attempts, 2 permits, 1 stop or crash, lost acknowledgements | the safety of the pipeline under every fault |
| `pipeline_fair` | 3 jobs, 1 permit, 2 attempts, 1 stop or crash | refinement of `JobLifecycle`, dead letters, `EveryJobSettles` |
| `pipeline_dlq` | 2 jobs, 2 attempts | finding: a failed job's message is not dead-lettered (`SYSTEM_DESIGN.md:236`) |
| `breaker` | 3 callers, limit 2, cooldown 2 | `ClosedBelowLimit`, `Recovers`, `ShedsOutage` |
| `breaker_probe` | the same | finding: half-open admits everyone (`core/circuit_breaker.py:5`) |
| `precompute` | 3 runs, 2 candidate files, 2 JDs, 1 interruption | keys tell the truth, matrices belong to their inputs, embeddings are reused |
| `precompute_backend` | 2 runs, 2 embedders, no interruption | finding: the key names the requested embedder (`core/artifact_cache.py:12`) |
| `precompute_skip` | 3 runs, 1 interruption | finding: an old manifest tricks `--resume` into skipping (`precompute.py:239`) |
| `ranking` | 1 to 3 candidates out of 29 profiles and their text matches, every subset asked for, both callers, both job descriptions, 1 failing stage | the listing is valid, gated candidates end last, the head is spent on passing ones, labels, fusion and tournament respect what they order, the loop sees everyone |
| `ingestion` | 2 developers who share a commit of two skills, 1 more artifact of one, 1 without a text; 2 API tasks and 1 Celery worker, 2 syncs, 1 retry, 1 fault; 2 hits a search, answers of 2 | evidence is stored once, "done" means indexed, no task is dropped, every sync reports, search finds everyone |
| `ingestion_rerun` | 1 API task, 2 syncs, 1 fault | finding: a second sync counts evidence again in the graph (`ingestion/sync.py:7`) |
| `serving` | 2 requests at a time, 2 admin threads, precomputes of 2, 3 and 2 candidates; a tick, a request or a failure costs 1 and a precompute 3 of a budget of 6; capacity 1 (lru), 1 request a minute | the limit, the cache bound, whole answers, a failed stage costs its own file only, stale answers end |

Why the bounds are enough. Two jobs meet in the cache, in the queue order and in two tasks at once;
a third job adds waiting behind a full semaphore. Three attempts are the code's default and give a
first, a middle and a last one; two already separate "retry" from "give up". One stop or crash at any
step reaches every state a process can leave behind. In the breaker two failures separate counting
from opening, and three callers allow a late outcome, a probe and a newcomer. In `Precompute` a third
run is needed to change the inputs and change them back. `precompute` uses symmetry between
contents of the same kind, for invariants only; it stops when `MaxRuns` runs are over, so deadlock is
not checked there. The pipeline and the breaker are checked for deadlock.

In `ranking` every profile differs from a strong one in one respect, so each rule of features, honeypots and
gates decides at least once; pairs and triples put two kinds in one frame, where ties, min-max and
rounding bite (`Twins` are two candidates whose scores differ only below the fourth place); one failure
reaches each fall-back, since a fall-back hides what later stages could do only in its own column. The run
stops after a listing, so deadlock is not checked. In `ingestion` a shared commit is the
smallest case in which two transactions meet at a unique constraint, and its two skills let them meet in
opposite orders on skill rows; one Celery worker beside two API tasks gives three transactions and a
circular wait; one retry separates "again" from "dead-lettered". A search of 2 hits reads all the evidence of
most graphs and not of the largest; answers of 2 have room for both developers, and that a full one is cut off
is left to the proof, and so is what a model may write into a summary: the run has the heuristic ones. It ends when the syncs asked for are over.
In `serving` capacity 1 makes every insert evict; the three sizes let a mask or a map be too short and too
long; a window of two ticks has an inside and an edge. Time, requests, precomputes and failures multiply, so they share one
budget (`MaxWork`): of 6 there are two precomputes, overlapping or not, and nothing else; or one with up to three
of requests, ticks and failures; or requests and ticks alone. What requests meet under two precomputes at once
is left to the proofs. The two admin threads are symmetric, and the
run checks invariants only. It ends when the budget is used up, so deadlock is not checked.

Fairness. In `ingestion` every worker that can take a step takes one (weak fairness of `Step`): the
event loop and the Celery processes run what is ready, and a wait for a row ends because its owner
goes on or is chosen as a victim. Nothing is assumed of failures, crashes, beat or clients, and
`SyncReports` says that every sync of the API ends and that the step which ends it leaves a row that does not say
"syncing"; it excepts a sync lost with its process, and one whose report of its failure failed too. In `pipeline_fair` the event loop runs every
ready coroutine: weak fairness of each job's task steps, of the loop, of the enqueue that follows a
commit, of shutting down once drained, and of the process manager's restart. Nothing is assumed of
clients, cache expiry, failures or stops. In `breaker` time passes and callers come back (weak
fairness of `Tick` and `Attempt`), and a caller that tries again and again is not cancelled every
time before its outcome (strong fairness of `Succeed` and `Fail`). Both liveness properties of the
breaker are conditional on callers: it only moves when called.

Each property is paired with a mutant: a variant of one action with a plausible bug (a dropped early
return, an event before its commit, an off-by-one, a forgotten permit, a key without the JD) under
which the same run refutes the property. They are the definitions commented "Mutant of".

## Proofs

`JobPipelineProofs` proves, for every set of jobs, every `MaxAttempts`, `Concurrency` and `MaxStops`
and both values of `LostAck`:

- `TypeCorrect`, `NeverDuplicated`, `ResultsSavedOnce`, `NeverDropped`, `AnnouncedIsTrue` and
  `AnnouncedStays` (an action property).

Assumptions: the named `ASSUME`s of `JobPipeline` only (the limits are naturals, `Live` is a
set of jobs, `NoJob` is not one).

The argument. No one of these is inductive. That results are saved once needs that a task past the
duplicate test works on an unfinished row (`WorkIsUnfinished`), which needs that no second task
finishes that row meanwhile, hence that a message is in one place (`OneCopy`), which for a submitted
job needs that nothing is carried before its request is closed. That an announcement holds for ever needs
that nothing of the job is left in the process (`AnnouncedIsOver`). `Safe` is their conjunction and
`AlwaysSafe` its invariance. The steps are grouped by what they do to a message: `TaskMoves` shows
that a working task advances, settles or retries; `AdvanceMoves`, `LeaveMoves` and `RetryMoves` say
what each does to the places of messages, `CarriedMoves` sums them up, and `TaskEffect` sorts a
task's effect on the database into four cases. Each conjunct of `Safe` then has one step lemma.

Its second half proves two more results.

- `PermitsAlwaysConserved`. Conservation counts tasks, so it needs that a step replaces one task by one:
  a task that ended stays in the set until its callback has run, and a retry of its message must not
  be taken for it. `EndedAreOlder` says that whatever is left of the job of an ended task carries more
  attempts than the ended task did.
- `PipelineImplementsLifecycle`: while every commit is acknowledged (`~LostAck`) the pipeline implements
  `JobLifecycle`, initial states and steps (`JobLifecycle` asks for no fairness). The hypothesis is
  needed: after a commit whose acknowledgement is lost `mark_failed` may overwrite "succeeded", which the
  abstract specification forbids. `Traceable` lifts `Safe` to the refinement: a carried message has a row, a
  task past `mark_running` finds it running, and nothing is left of a job whose message perished.

It also proves, from the same assumptions, `AnsweredWithOwn` and `DeadLettersStayUnfinished`.
What a job is served was held by a task at `persist`; a task there holds what it ranked itself, or what
its lookup found, and the cache holds under a key only rankings of pool requests with that key
(`RankingsAreOwn`): the two `candidates is None` tests are what keeps live rankings out on both sides. For dead
letters, a task at work has an attempt left and gives up only at its last (`AttemptsLeft`), so `retry`
puts a message back below the limit or buries it exactly at the limit; that its row is unfinished
follows from `Safe`, because a dead message is a carried one.

`CircuitBreakerProofs` proves `BreakerTypes` and `ClosedHasRoom` for any callers, limit and
cooldown: together with the types the property is inductive, because only `Succeed` closes the
breaker and it resets the count.

`PrecomputeProofs` proves every invariant of the run `precompute` for any candidate files, job descriptions,
embedders, runs and interruptions: `PrecomputeTypes`, `KeysAlwaysTellTruth`, `MatrixAlwaysOwn`,
`EmbeddingsAlwaysReused` and `FullRunsNeverFail`. `Truthful` is the inductive invariant. The content of an
artifact is settled in three places: what is in memory is of this run's inputs unless something doubtful was
reused on the way (`FrameIsOwn`, and `EncodedFirst` for the embeddings every column rests on); between a write
and its stamp the artifact is what this run computed and its old key is not relied on
(`StampFollowsWrite`, `ManifestFollowsMatrix`); and what is not doubtful agrees with its key
(`SettledKeyIsTrue`, `SettledManifestIsTrue`).

`FeaturesProofs` proves what `FeatureRow` computes for every candidate within the schema of the dataset
(`Candidate`, whose bounds are those of `data/candidate_schema.json`), however long its history and its
list of skills:

- `RowsAreSound`: whatever a candidate says, every amount of its row that a ranking reads is a natural number. The
  arithmetic of `Scoring` (quotients, quantiles, thresholds) is only meaningful on such rows.
- `TotalIsMonotone`: a sum over more positions, of numbers no smaller, is no smaller. `Total` is a recursive
  function, and the induction over its last position is a least-counterexample argument: among finitely many
  positions at which a claim fails there is a least one, it is not 0, and the equation of the sums carries the
  claim over from the position before (`LeastPosition`). That its equation has a solution at all (`SumsExist`)
  is shown the same way.
- `LearningNeverHurts`: for somebody with a technical role in the career, one more skill of any vocabulary except computer
  vision leaves no smaller a fit. The other skills keep their terms in the sum of trust, the counts of a kind do not
  shrink, the share of computer vision does not grow, and both keyword-stuffer rules are out because of the
  technical role (without it they do count skills against a candidate); the steps of
  `compute_jd_fit_features` are each monotone (`FitIsMonotone`).

`RankingProofs` proves the invariants of the run `ranking` for every pool of candidates, every request and every
set of stages that fail: `SkillsNeverHurt` from the above, and `RankingTypes`, `SubmissionsAreValid`,
`GatedAlwaysAtBottom`, `HeadAlwaysPassing`, `RetrievalAlwaysDominates`, `SubsetsAlwaysKeepRetrieval`,
`TiersAlwaysFollowRelevance`, `TournamentsRespectDominance` and `ExhaustedLoopsSeeEveryone`.

- `Ordered` is the inductive invariant: which columns exist at which stage, that each belongs to its rows,
  that final scores are fractions and 0 for masked rows, that the loop's pool is that of its iteration.
- The lemmas of `OrderProofs` about `Sorted` carry most of the rest: when the sets of elements ahead grow strictly along a
  total order, `Sorted` is a permutation and lists the elements in that order. From them follow that a listing is
  ranked without repeats, that masked rows come last, and that fusing ranks keeps dominance.
- A win total is the cardinality of a set of points. For two candidates where one dominates, the points
  of the other map injectively into those of the first, opponent by opponent, with the two exchanged where they
  meet each other.
- A quantile lies between two neighbours of the descending order, so quantiles grow with their share, and
  reaching a cut is monotone in the relevance.
- `ExhaustedLoopsSeeEveryone` supposes `MaxIterations >= 4`, the default of `core/config.py:42`: with fewer
  widenings the threshold of the fit has not come down to 0.
- Retrieval scores may be negative, as cosines are (`pipeline/retrieval.py:16`): what neither modality scores
  above 0 is fused to 0, and normalising keeps zeros only where nothing lies below them (`MinMaxOfIntegers`).
- `PoolsAssumption` states what is used of a candidates file: it is not empty, names nobody twice, and its
  candidates are within the schema. The loader does not validate them against it; a file with, say, negative
  endorsements is outside the theorems. What the rows of such candidates are like is proved, not assumed.

`IngestionProofs` proves the properties of the run `ingestion`, except its liveness, for any developers, GitHub answers,
API tasks, Celery workers, retries, syncs and faults. Besides the named assumptions on the limits it uses
`GitHubAssumption`: what GitHub shows of a developer has the form `ingestion/github_client.py` reads, and every
list of skills is without repeats (`extract_skills` returns a sorted set, of a text and of the reply of a
model). That a parse yields a list of artifacts, that a summary is sound whoever wrote it and that what an
artifact is worth is a number are proved: concatenation and the yearly decay are recursive functions, treated
like `Total` above (`FlattenedSequences`, `DecayedIsNat`).

- `WorkersAreHonest` is the invariant of the workers alone. `Shapes` gives executions, messages and transactions
  their form. `Honest` says that an artifact between its insert and its last skill has its row in the open
  transaction (`HandIsOpen`), and that whatever a worker has been asked to index is still to come, or has a row that
  is committed or in its own transaction (`DebtIsKnown`): skipping an artifact that `exists` is right only because
  the test does not see the rows of others.
- `DoneAlwaysMeansIndexed` and `NothingSilentlyDropped` follow from it; the second is an action property, shown
  step by step: a message leaves the broker only with a commit that pays its debt, or as a dead letter.
- `RecordsAreAlwaysBacked` needs `Story`: the committed rows, links and records agree (`Committed`), each
  transaction agrees with what is committed and with itself (`Own`), and no two transactions have a
  row of one artifact (`Apart`). `upsert` writes a count it read earlier, so the invariant has to say of a worker
  between the two that what it read is backed, and that the skills it still has to write are not linked to
  this artifact yet (`SkillIsAhead`): each write adds one to the count and one to the links. That the links behind
  a record are counted needs them to be finite, which is part of the invariant.
- `SearchAlwaysFindsEveryone` needs `Searchable`, which joins graph, index and the workers' hands. The index is built
  again only when the amount of evidence has changed, so an old one is good enough only if evidence never
  goes and never changes its developer: every piece the index holds is still in the graph under its id
  (`IsIndexOf`), and as there are equally many, all are (`IndexHasEveryone`). That ids are unique
  (`GraphIsNumbered`) is not local: a row is numbered with how many artifacts of its hash there are, and
  written later, one skill after the other; it stays the next number, or becomes the artifact of this row,
  because nobody else has that hash in hand (`HandIsNumbered`, with `Story`). The rest is about the operators: `BestFirst`
  lists everyone with the most valued first, the hits are the whole evidence when it fits into
  `VectorTopK`, fusing loses nobody, and two first places earn more than any other two. That last fact supposes
  `RrfK < 1000`, since millionths do not tell later places apart (the default is 60). Beyond
  `VectorTopK` pieces of evidence the property promises nothing: somebody whose evidence matches may not be hit.

`ServingProofs` proves five results for every set of requests and admins, every capacity, limit, time to
live and number of precomputes, from the named assumptions of `Cache` and `Serving` alone:

- `SettledFieldsAlwaysAgree`. The invariant `Orderly` says that a thread owns what it has done so far, as long as nothing
  has overlapped with it (`OwnsMine`): the files in its `mine` that it has written and the fields it has assigned are
  of its own precompute. A thread that starts takes that from all others, and a stage that fails gives its file up, so
  a reload has read one precompute for all that is left in `mine`, and nobody writes while something is settled
  (`SettledIsQuiet`). Nothing is said of precomputes that overlap: they leave files and fields of both.
- `LimitAlwaysHolds`. The invariant `Limited` says that the counter of a minute counts everyone let
  through in it (`MinuteIsCounted`) and does not expire before the minute ends: it lives `Window`
  seconds from a hit inside the minute, and minutes are keyed by their number, so a counter that has
  expired is never asked again.
- `CacheAlwaysBounded`, `AnswersAlwaysWhole` and `StaleAnswersAlwaysEnd`. The invariant `Served` has the
  cache `Tidy`: no key twice and a frequency for exactly the keys it holds, so under every policy the victim is
  an entry that is there, and dropping it makes room for one. A request is whole (`IsWhole`) when, as long as no
  precompute has started since it `began`, every part it has read of a settled file or field is what that file holds;
  by `Orderly` the next part is of the same precompute. Once a precompute starts, `built` is ahead of `began` and nothing is
  promised but that a default ranking has the column of its own rows. An answer is given from an entry only
  while it is fresh.

Only model-checked: liveness (`EveryJobSettles`, `Recovers`, `ShedsOutage`, `SyncReports`), which rests on fairness
and `ENABLED` and is out of the prover's reach. `Features` and `Scoring` sort by `Sorted` and join
records with `With`, whose definitions the provers can expand; `Sorted` breaks ties by position, as Python's stable
sort does.

## Findings

1. A job that fails for good is marked failed but never dead-lettered; the DLQ holds only jobs whose
   `mark_failed` raised, and those rows stay `running`.
2. The half-open breaker lets every caller through.
3. The embeddings key names the requested embedder, not the one used: vectors of two embedders are compared.
4. An interrupted run's matrix beside an older manifest makes a `--resume` run skip.
5. A sync that fails after its first artifact has written the graph, which is not rolled back with the
   database; the next sync counts and accumulates the same evidence again.

Also seen, without a run:

- `SYSTEM_DESIGN.md:97` and `docs/04_file_by_file.md:126` place a circuit breaker around the LLM and
  GitHub calls, but only `graph/queries.py` uses one.
- Ranking: when fewer than `top_k` candidates pass the gates the listing is filled up with
  candidates of score 0, although `pipeline/scorer.py:9` pins them there "so it can't reach the top
  100". `predict_fit` normalises within the request, so a candidate's fit depends on who else was
  asked for. Without embeddings and index a custom job description silently gets the scores of the
  default one. Ties in one modality are broken by position before fusion, so of two candidates equal
  in one modality the worse in the other may be fused higher.
- Ingestion: `SkillRepository.upsert` writes an absolute value computed from what it read, so two
  transactions on one record lose an update (`RecordsAreBacked` therefore bounds the count and does
  not fix it). `content_hash` is unique over all developers: a commit in a fork is evidence of
  whoever is synced first. A fan-out marks the developer "done" when its tasks are enqueued. A
  fan-out that fails for good, a crash, or a report that fails leaves "syncing", which `list_syncable` excludes for
  ever. A second skill added to an indexed artifact between two searches does not change the count
  that keys the semantic index.
- Serving: `services/ranker.py:3-5` says that the model is loaded a single time at startup, but `predict_fit` reads its file at
  every request (`services/ranker.py:239`): between the write of a new model and the reload, the old matrix is ranked with
  the new model (`AnswersAreWhole` promises one precompute only to rankings that none overlapped with). A reload that fails
  its validation has already replaced the matrix, and the service goes on with it; two
  admin precomputes leave fields of both; a subset request reads the matrix twice. Fixed windows
  admit up to twice the limit around the turn of a minute, and counters are never removed. Under
  `fifo` a `set` of an existing key moves it to the end; under `lfu` the key just inserted may be
  the one evicted.

## Plan

1. Done: `JobPipeline` with `JobLifecycle`, `CircuitBreaker`, `Precompute`, and the first theorems;
   `Features`, `Scoring`, `Ranking`; `Evidence`, `Ingestion`; `Cache`, `Serving`.
2. Proofs. Done: every invariant and action property of the passing runs, and the refinement of `JobLifecycle`.
3. `EventStream`: `subscribe` and `useJobStream` over the pipeline's events; late subscribers.
4. `StreamQueue`: `RedisStreamQueue` with consumers that die, against an abstract at-least-once queue.
   Nothing in the application creates one yet.

## Not modelled

Third-party training and inference, BM25 and embedding arithmetic, LLM calls and prompts, paging and
retries inside one GitHub fetch, parsing of files and texts, Cypher queries, Redis itself, token and
password handling, user and key CRUD, HTTP plumbing, page rendering, migrations and deployment
files: either they keep no state a property is about, or their code is outside the repository.
