------------------------------ MODULE Serving ------------------------------
(***************************************************************************)
(* Rankings are served while the artifacts are rebuilt: the rate limiter    *)
(* (services/ratelimit.py, api/deps.py), the result cache, the fields of     *)
(* RankerService that load() assigns one by one and the files that every     *)
(* request reads (services/ranker.py, ml/predictor.py), and the threads of   *)
(* POST /admin/precompute that rewrite the files and load them               *)
(* (api/routers/admin.py, precompute.py). An artifact is the number of the   *)
(* precompute it comes from. The job queue in between is left to JobPipeline. *)
(***************************************************************************)
EXTENDS Cache

CONSTANTS Tasks,      \* requests in the process at a time
          Admins,     \* threads of admin requests
          PerMinute,  \* rate limit
          Window,     \* ticks in a minute
          Ttl,        \* cache_ttl_seconds, in ticks
          SizeOf,     \* candidates of each precompute, the first one included
          MaxWork     \* bound: a tick, a request or a failure costs 1, a precompute 3

ASSUME ServingAssumption ==
    /\ {PerMinute, Window, Ttl} \subseteq Nat \ {0} /\ MaxWork \in Nat
    /\ SizeOf \in Seq(Nat)

VARIABLES
  now,      \* ticks
  cache,
  disk,     \* the files, by the precompute that wrote them
  ranker,   \* the fields; of the embeddings only the shape, for they are a map of the file
  thread,   \* [Admins -> the step of an admin request]
  task,     \* [Tasks -> a request, or the age of the last answer]
  built,    \* precomputes started, the first one included
  settled,  \* history: what the last load has made current, as long as nothing overlaps with it
  admitted, \* history: requests let through in this minute
  requests, faults

files   == <<disk, built>>
serving == <<cache, task, admitted, requests>>
loading == <<ranker, thread, settled>>
vars    == <<now, files, serving, loading, faults>>

\* What main() writes, in its order, and what load() assigns; the model and the description of the
\* embedder are read from their files by every request.
Writes == <<"spec", "embeddings", "meta", "bm25", "model", "matrix", "ids", "manifest">>
Files  == Range(Writes)
Fields == {"matrix", "ids", "spec", "embeddings", "bm25", "manifest"}
Shapes == {"default", "subset", "custom"}  \* full pool; some ids; another job description

Init ==
    /\ now = 0 /\ cache = Empty /\ built = 1
    /\ disk = [f \in Files |-> 1]
    /\ ranker = [f \in Fields |-> 1] /\ settled = Files
    /\ thread = [a \in Admins |-> [at |-> "idle"]]
    /\ task = [t \in Tasks |-> [at |-> "idle", age |-> 0]]
    /\ admitted = 0 /\ requests = 0 /\ faults = 0

Affords(cost) == now + requests + faults + 3 * (built - 1) + cost <= MaxWork
Faulty == Affords(1) /\ faults' = faults + 1

(* Files *)

Torn == 0  \* a file that is not whole
Size(content) == IF content = Torn THEN 0 ELSE SizeOf[content]

\* Who reads a file that is being written may get a part of it.
Reads(file) ==
    {disk[file]} \cup {part \in {Torn} : \E a \in Admins : thread[a].at = "write" /\ Writes[thread[a].next] = file}

\* A file cannot be read as it is, or the reading fails.
Unreadable(file) == (Torn \in Reads(file) /\ UNCHANGED faults) \/ Faulty

Tick ==
    /\ Affords(1) /\ now' = now + 1
    /\ admitted' = IF now' % Window = 0 THEN 0 ELSE admitted
    /\ UNCHANGED <<files, cache, task, requests, loading, faults>>

(* A request *)

\* Mutant of Check: the counter expires before the minute does.
CheckShort(key) == Incr(cache, key, now, Window - 2)

\* The counter of a minute lives as long as a minute.
Check(key) == Incr(cache, key, now, Window)

\* enforce_rate_limit; a request over the limit is refused and counts all the same.
Arrive(t, shape) ==
    LET key == now \div Window
        counted == Check(key)
        allowed == counted.counters[key].count <= PerMinute
    IN  /\ task[t].at = "idle" /\ Affords(1)
        /\ cache' = counted /\ requests' = requests + 1
        /\ IF allowed
           THEN /\ task' = [task EXCEPT ![t] = [at |-> "lookup", shape |-> shape]]
                /\ admitted' = admitted + 1
           ELSE UNCHANGED <<task, admitted>>
        /\ UNCHANGED <<now, files, loading, faults>>

Ended(answer) == [at |-> "idle", age |-> now - answer.computed]

\* _execute looks for a ranking of the same request, whatever artifacts it came from.
Lookup(t) ==
    LET key == task[t].shape
    IN  /\ task[t].at = "lookup"
        /\ cache' = Get(cache, key, now)
        /\ task' = [task EXCEPT ![t] =
                       IF Hit(cache, key, now) THEN Ended(EntryOf(cache, key).value)
                       ELSE [@ EXCEPT !.at = "pool"]]
        /\ UNCHANGED <<now, files, admitted, requests, loading, faults>>

\* rank() reads the matrix, and once more to select rows by the mask made of the first. History:
\* `began` is the number of precomputes when none is under way.
Pool(t) ==
    /\ task[t].at = "pool"
    /\ task' = [task EXCEPT ![t] = [at |-> IF @.shape = "subset" THEN "select" ELSE "retrieve",
                                    shape |-> @.shape, began |-> IF settled = {} THEN 0 ELSE built,
                                    parts |-> [part \in {"rows"} |-> ranker.matrix]]]
    /\ UNCHANGED <<now, files, cache, admitted, requests, loading, faults>>

Failed(t) == task' = [task EXCEPT ![t] = [at |-> "idle", age |-> 0]]
Goto(t, step, part, content) ==
    task' = [task EXCEPT ![t].at = step, ![t].parts = With(@, part, content)]

\* A mask that does not cover the matrix is an error; a longer one is cut to it.
Select(t) ==
    /\ task[t].at = "select"
    /\ IF Size(ranker.matrix) <= Size(task[t].parts.rows) THEN Goto(t, "retrieve", "rows", ranker.matrix) ELSE Failed(t)
    /\ UNCHANGED <<now, files, cache, admitted, requests, loading, faults>>

\* Mutant of DefaultScores: the column is read from the matrix of the service.
DefaultScoresOfService(t) == ranker.matrix

\* The cached retrieval column of the rows in hand.
DefaultScores(t) == task[t].parts.rows

\* For another job description than the default one the pool is scored anew, by the order of the ids...
Retrieve(t) ==
    /\ task[t].at = "retrieve"
    /\ IF task[t].shape = "custom" THEN Goto(t, "embed", "ids", ranker.ids)
       ELSE Goto(t, "fit", "column", DefaultScores(t))
    /\ UNCHANGED <<now, files, cache, admitted, requests, loading, faults>>

\* ... with the embedder that embedding_meta.json describes, ...
Embed(t) ==
    /\ task[t].at = "embed"
    /\ \E meta \in Reads("meta") : IF meta = Torn THEN Failed(t) ELSE Goto(t, "vectors", "meta", meta)
    /\ UNCHANGED <<now, files, cache, admitted, requests, loading, faults>>

\* ... the vectors, in a file that may have become shorter than its map, ...
ReadVectors(t) ==
    /\ task[t].at = "vectors"
    /\ \E vectors \in Reads("embeddings") :
          IF Size(vectors) < Size(ranker.embeddings) THEN Failed(t)
          ELSE task' = [task EXCEPT ![t].at = "index",
                                    ![t].parts = With(With(@, "map", ranker.embeddings), "vectors", vectors)]
    /\ UNCHANGED <<now, files, cache, admitted, requests, loading, faults>>

\* ... and the index, which must score as many candidates as the vectors, those of the ids among them.
ReadIndex(t) ==
    LET parts == task[t].parts
    IN  /\ task[t].at = "index"
        /\ IF Size(parts.map) = Size(ranker.bm25) /\ Size(parts.ids) <= Size(ranker.bm25)
           THEN Goto(t, "fit", "index", ranker.bm25) ELSE Failed(t)
        /\ UNCHANGED <<now, files, cache, admitted, requests, loading, faults>>

\* predict_fit loads the model for every request, and uses a formula when it cannot.
Fit(t) ==
    /\ task[t].at = "fit"
    /\ \/ \E model \in Reads("model") \ {Torn} : Goto(t, "store", "model", model) /\ UNCHANGED faults
       \/ Unreadable("model") /\ task' = [task EXCEPT ![t].at = "store"]
    /\ UNCHANGED <<now, files, cache, admitted, requests, loading>>

\* History: what was current while the request was computed, nothing if a precompute overlapped with it.
Calm(t) == IF task[t].began = built THEN settled ELSE {}

Store(t) ==
    LET answer == [parts |-> task[t].parts, calm |-> Calm(t), computed |-> now]
    IN  /\ task[t].at = "store"
        /\ cache' = Set(cache, task[t].shape, answer, now + Ttl)
        /\ task' = [task EXCEPT ![t] = Ended(answer)]
        /\ UNCHANGED <<now, files, admitted, requests, loading, faults>>

(* POST /admin/precompute *)

Alone(a) == \A b \in Admins \ {a} : thread[b].at = "idle"

\* The thread starts at once, whatever other threads are doing. History: `mine` holds the files that
\* it makes current, none when it overlaps with another.
TriggerPrecompute(a) ==
    /\ thread[a].at = "idle" /\ built < Len(SizeOf) /\ Affords(3)
    /\ built' = built + 1
    /\ thread' = [b \in Admins |-> IF b = a THEN [at |-> "write", gen |-> built', next |-> 1,
                                                  mine |-> IF Alone(a) THEN Files ELSE {}]
                                   ELSE IF thread[b].at = "idle" THEN thread[b]
                                   ELSE [thread[b] EXCEPT !.mine = {}]]
    /\ settled' = {}
    /\ UNCHANGED <<now, disk, serving, ranker, faults>>

\* The file in hand gets this content, and the thread goes on to the next one or to the reload.
WriteAs(a, content, mine) ==
    LET t == thread[a]
    IN  /\ t.at = "write"
        /\ disk' = [disk EXCEPT ![Writes[t.next]] = content]
        /\ thread' = [thread EXCEPT ![a] = IF t.next < Len(Writes) THEN [t EXCEPT !.next = @ + 1, !.mine = mine]
                                           ELSE [t EXCEPT !.at = "matrix", !.mine = mine]]
        /\ UNCHANGED <<now, built, serving, ranker, settled>>

Write(a) == WriteAs(a, thread[a].gen, thread[a].mine) /\ UNCHANGED faults

\* _build_accuracy_layer goes on without a new model, and the old one stays, or a part of the new one.
TrainingFails(a) ==
    /\ thread[a].at = "write" /\ Writes[thread[a].next] = "model" /\ Faulty
    /\ \E content \in Reads("model") : WriteAs(a, content, thread[a].mine \ {"model"})

\* main() fails, and load() is not called. The file in hand may be left half-written.
PrecomputeFails(a) ==
    /\ thread[a].at = "write" /\ Faulty
    /\ \E content \in Reads(Writes[thread[a].next]) : disk' = [disk EXCEPT ![Writes[thread[a].next]] = content]
    /\ thread' = [thread EXCEPT ![a] = [at |-> "idle"]]
    /\ UNCHANGED <<now, built, serving, ranker, settled>>

Assign(a, field, content, next) ==
    /\ thread[a].at = field
    /\ ranker' = [ranker EXCEPT ![field] = content]
    /\ thread' = [thread EXCEPT ![a].at = next]
    /\ UNCHANGED <<now, files, serving, settled, faults>>

\* What has to be whole to be loaded.
AssignWhole(a, field, next) == disk[field] # Torn /\ Assign(a, field, disk[field], next)

\* load() ends at an exception; what it has assigned stays.
LoadFails(a) ==
    /\ \/ thread[a].at \in {"matrix", "spec", "manifest"} /\ Unreadable(thread[a].at)
       \/ thread[a].at = "validate" /\ Unreadable("manifest")
       \/ thread[a].at = "ids" /\ Faulty
    /\ thread' = [thread EXCEPT ![a] = [at |-> "idle"]]
    /\ UNCHANGED <<now, files, serving, ranker, settled>>

LoadMatrix(a) == AssignWhole(a, "matrix", "validate")

\* _validate_matrix looks at the matrix after it has been assigned, and raises when the manifest
\* counts other candidates.
Validate(a) ==
    /\ thread[a].at = "validate" /\ disk.manifest # Torn
    /\ thread' = [thread EXCEPT ![a] = IF Size(disk.manifest) = Size(ranker.matrix)
                                       THEN [@ EXCEPT !.at = "ids"] ELSE [at |-> "idle"]]
    /\ UNCHANGED <<now, files, serving, ranker, settled, faults>>

\* A part of the ids is a list of ids as well.
LoadIds(a) == \E ids \in Reads("ids") : Assign(a, "ids", ids, "spec")

LoadSpec(a) == AssignWhole(a, "spec", "embeddings")

\* _load_retrieval_artifacts: what cannot be loaded leaves the old one in place.
Skip(a, field, next) ==
    /\ thread[a].at = field /\ Unreadable(field)
    /\ thread' = [thread EXCEPT ![a].at = next, ![a].mine = @ \ {field}]
    /\ UNCHANGED <<now, files, serving, ranker, settled>>

LoadEmbeddings(a) == AssignWhole(a, "embeddings", "bm25") \/ Skip(a, "embeddings", "bm25")

\* Mutant of LoadIndex: an index that is loaded is kept.
LoadIndexOnce(a) ==
    /\ thread[a].at = "bm25" /\ thread' = [thread EXCEPT ![a].at = "manifest"]
    /\ UNCHANGED <<now, files, serving, ranker, settled, faults>>

LoadIndex(a) == AssignWhole(a, "bm25", "manifest") \/ Skip(a, "bm25", "manifest")

LoadManifest(a) ==
    /\ thread[a].at = "manifest" /\ disk.manifest # Torn
    /\ ranker' = [ranker EXCEPT !.manifest = disk.manifest]
    /\ settled' = thread[a].mine
    /\ thread' = [thread EXCEPT ![a] = [at |-> "idle"]]
    /\ UNCHANGED <<now, files, serving, faults>>

Next == \/ Tick
        \/ \E t \in Tasks, shape \in Shapes : Arrive(t, shape)
        \/ \E t \in Tasks : \/ Lookup(t) \/ Pool(t) \/ Select(t) \/ Retrieve(t) \/ Embed(t) \/ ReadVectors(t)
                             \/ ReadIndex(t) \/ Fit(t) \/ Store(t)
        \/ \E a \in Admins : \/ TriggerPrecompute(a) \/ Write(a) \/ TrainingFails(a) \/ PrecomputeFails(a)
                              \/ LoadFails(a) \/ LoadMatrix(a) \/ Validate(a) \/ LoadIds(a) \/ LoadSpec(a)
                              \/ LoadEmbeddings(a) \/ LoadIndex(a) \/ LoadManifest(a)

Spec == Init /\ [][Next]_vars

(* Properties *)

\* The limiter lets no more through in a minute than the limit, although its counters expire on a
\* clock of their own.
LimitHolds == admitted <= PerMinute

\* The cache keeps to its capacity, and its books to the entries it has: a key that is gone leaves
\* no frequency that would protect it when it comes back.
CacheStaysBounded == Len(cache.data) <= Capacity /\ DOMAIN cache.freq = KeysOf(cache)

FileOf == [rows |-> "matrix", column |-> "matrix", ids |-> "ids", meta |-> "meta", map |-> "embeddings",
           vectors |-> "embeddings", index |-> "bm25", model |-> "model"]

\* For the default job description the retrieval scores of a ranking are those of its rows, whatever a
\* reload assigns while it is computed. And a ranking that no precompute overlapped with is made of one
\* precompute, its model too, but for the files that a failed stage has left as they were.
AnswersAreWhole ==
    \A e \in Range(cache.data) :
        LET parts == e.value.parts
        IN  /\ e.key = "default" => parts.column = parts.rows
            /\ \A p, q \in DOMAIN parts : {FileOf[p], FileOf[q]} \subseteq e.value.calm => parts[p] = parts[q]

\* A stage that fails costs its own file only: after a precompute and a reload that ran alone, all other
\* files and all other fields are of this precompute, until the next one begins to write.
SettledFieldsAgree ==
    \A f, g \in settled : disk[f] = disk[g] /\ (f \in Fields => ranker[f] = disk[f])

\* A ranking is served from the cache for no longer than its time to live, however often it is
\* asked for: after a reload the rankings of the old artifacts run out.
StaleAnswersEnd == \A t \in Tasks : task[t].at = "idle" => task[t].age <= Ttl
=============================================================================
