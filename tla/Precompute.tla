----------------------------- MODULE Precompute -----------------------------
(***************************************************************************)
(* precompute.py over core/artifact_cache.py: a run writes its artifacts   *)
(* one file at a time, and a later `--resume` run reuses those whose        *)
(* sidecar key names its own inputs. The candidates, the job description   *)
(* and the installed embedder change between runs; a run may be killed, or *)
(* the disk fill up, at any write. A file's content is abstracted to what  *)
(* it was computed from, and a key to the inputs it hashes. Runs are of the *)
(* whole candidates file: --limit, which is in no key, is left out.         *)
(***************************************************************************)
EXTENDS Naturals, FiniteSets

CONSTANTS Datasets,      \* contents of the candidates file
          Jds,           \* contents of the job description
          Backends,      \* embedders make_embedder may find installed
          MaxRuns,       \* bound: runs started
          MaxInterrupts  \* bound: runs killed, or stopped by an I/O error

ASSUME InputsAssumption ==
    /\ Datasets \cap Jds = {} /\ Datasets \cap Backends = {} /\ Jds \cap Backends = {}
    /\ \A x \in {"absent", "torn", "proxy"} : x \notin Datasets \cup Jds \cup Backends
ASSUME BoundsAssumption == MaxRuns \in Nat /\ MaxInterrupts \in Nat

VARIABLES
  disk,      \* what each artifact on disk was computed from
  keys,      \* the inputs hashed into each <artifact>.key, {} without one
  run,       \* the inputs and flags of the current or last run
  pc,        \* its next step: a verb and an artifact
  frame,     \* what the arrays in the run's memory were computed from
  outcome,   \* how the last run ended
  doubtful,  \* history: written since the last stamp, or derived from such a file
  tainted,   \* history: the doubtful artifacts this run has reused
  runs, interrupts

files   == <<disk, keys>>
history == <<doubtful, tainted>>
vars    == <<files, run, pc, frame, outcome, history, runs, interrupts>>

Keyed == {"embeddings", "cosine", "model", "rerank", "llm"}
Files == Keyed \cup {"spec", "meta", "bm25", "matrix", "ids", "manifest"}
\* The files a later run looks at; the content of the others is left out.
LookedAt == Keyed \cup {"meta", "matrix", "manifest"}

Absent == {"absent"}
Torn   == {"torn"}
Readable(a) == disk[a] \notin {Absent, Torn}

Runs   == [data : Datasets, jd : Jds, backend : Backends, resume : BOOLEAN, accuracy : BOOLEAN]
Columns == {"embeddings", "cosine", "rerank", "llm"}
NoFrame == [a \in Columns |-> {}]
Idle == <<"idle", "">>

\* The file contents behind a value, the embedder that encoded them left out.
Pure(value) == value \ Backends

\* What an artifact that is looked at is computed from, with the others in memory.
Computed(a) ==
    CASE a = "embeddings" -> {run.data, run.backend}
      [] a = "cosine" -> frame["embeddings"] \cup {run.jd, run.backend}
      [] a = "model" -> IF run.accuracy THEN {run.data} ELSE {run.data, "proxy"}
      [] a \in {"rerank", "llm"} -> frame["cosine"] \cup {run.data, run.jd}
      [] a = "matrix" -> frame["cosine"] \cup frame["rerank"] \cup frame["llm"] \cup {run.data, run.jd}
      [] a = "meta" -> {run.backend}
      [] a = "manifest" -> {run.data, run.jd}

\* The cached artifacts that go into it.
Sources(a) ==
    CASE a = "cosine" -> {"embeddings"}
      [] a \in {"rerank", "llm"} -> {"embeddings", "cosine"}
      [] a = "matrix" -> {"embeddings", "cosine", "rerank", "llm"}
      [] OTHER -> {}

\* Mutant of KeyFor: every key hashes the job description too.
KeyForEverything(a) == {run.data, run.jd}

\* Mutant of KeyFor: the head scores are keyed by the candidates alone.
KeyForDataOnly(a) == {run.data} \cup (IF a = "cosine" THEN {run.jd} ELSE {})

\* key_of(...) of each stage.
KeyFor(a) == IF a \in {"embeddings", "model"} THEN {run.data} ELSE {run.data, run.jd}

\* Mutant of Fresh: an unreadable array is not a miss.
FreshIfKeyed(a) == run.resume /\ disk[a] # Absent /\ keys[a] = KeyFor(a)

\* is_fresh, and for arrays np.load: a torn array is a miss, a torn model is not noticed.
Fresh(a) ==
    /\ run.resume /\ disk[a] # Absent /\ keys[a] = KeyFor(a)
    /\ a # "model" => disk[a] # Torn

\* What main() does after an artifact.
After(a) ==
    CASE a = "spec" -> <<"load", "embeddings">>
      [] a \in {"embeddings", "meta"} -> <<"load", "cosine">>
      [] a = "cosine" -> <<"write", "bm25">>
      [] a = "bm25" -> <<IF run.accuracy THEN "load" ELSE "write", "model">>
      [] a = "model" -> IF run.accuracy THEN <<"load", "rerank">> ELSE <<"write", "matrix">>
      [] a = "rerank" -> <<"load", "llm">>
      [] a = "llm" -> <<"write", "matrix">>
      [] a = "matrix" -> <<"write", "ids">>
      [] a = "ids" -> <<"write", "manifest">>
      [] a = "manifest" -> Idle

-----------------------------------------------------------------------------
Init ==
    /\ disk = [a \in LookedAt |-> Absent] /\ keys = [a \in Keyed |-> {}]
    /\ run \in Runs
    /\ pc = Idle /\ frame = NoFrame
    /\ outcome = "none" /\ doubtful = {} /\ tainted = {}
    /\ runs = 0 /\ interrupts = 0

\* Mutant of Skips: the job description is not compared.
SkipsOtherJds(r) ==
    /\ r.resume /\ Readable("manifest") /\ disk["matrix"] # Absent
    /\ r.data \in disk["manifest"]

\* The whole-run test, without --limit: the manifest names the same inputs and a matrix exists.
Skips(r) ==
    /\ r.resume /\ disk["matrix"] # Absent
    /\ disk["manifest"] = {r.data, r.jd}

\* Mutant of Chokes: the manifest is parsed whether or not --resume is given.
ChokesAlways(r) == disk["manifest"] = Torn /\ disk["matrix"] # Absent

\* json.loads of a torn manifest.
Chokes(r) == r.resume /\ disk["manifest"] = Torn /\ disk["matrix"] # Absent

\* A run starts, on whatever the input files and the installation are by now.
Launch(r) ==
    /\ pc = Idle /\ runs < MaxRuns
    /\ run' = r
    /\ \/ /\ Chokes(r)
          /\ outcome' = "failed" /\ UNCHANGED pc
       \/ /\ Skips(r) /\ ~Chokes(r)
          /\ outcome' = "skipped" /\ UNCHANGED pc
       \/ /\ ~Skips(r) /\ ~Chokes(r)
          /\ outcome' = "running" /\ pc' = <<"write", "spec">>
    /\ frame' = NoFrame
    /\ tainted' = {}
    /\ runs' = runs + 1
    /\ UNCHANGED <<files, doubtful, interrupts>>

Put(a, value)  == [b \in LookedAt |-> IF b = a THEN value ELSE disk[b]]
Hold(a, value) == IF a \in Columns THEN [frame EXCEPT ![a] = value] ELSE frame

\* A stage finds its artifact fresh. The cached embeddings need their meta file,
\* which is parsed without a guard.
Reuse(a) ==
    /\ pc = <<"load", a>> /\ Fresh(a)
    /\ \/ /\ a = "embeddings" => Readable("meta")
          /\ frame' = Hold(a, disk[a])
          /\ tainted' = tainted \cup ({a} \cap doubtful)
          /\ pc' = After(a)
          /\ UNCHANGED outcome
       \/ /\ a = "embeddings" /\ ~Readable("meta")
          /\ outcome' = "failed" /\ pc' = Idle /\ frame' = NoFrame
          /\ UNCHANGED tainted
    /\ UNCHANGED <<files, run, doubtful, runs, interrupts>>

\* A miss: recompute. Head scores of an LLM that saw no signal are not kept.
Recompute(a) ==
    /\ pc = <<"load", a>> /\ ~Fresh(a)
    /\ \/ /\ frame' = Hold(a, Computed(a))
          /\ pc' = <<"write", a>>
       \/ /\ a = "llm" /\ pc' = After(a)
          /\ UNCHANGED frame
    /\ UNCHANGED <<files, run, outcome, history, runs, interrupts>>

Doubt(a)   == doubtful \cup ({a} \cap (Keyed \cup {"matrix"}))
Settled(a) == IF tainted \cap Sources(a) = {} THEN doubtful \ {a} ELSE doubtful

Write(a) ==
    /\ pc = <<"write", a>>
    /\ disk' = Put(a, Computed(a))
    /\ pc' = IF a \in Keyed /\ (a = "model" => run.accuracy) THEN <<"stamp", a>> ELSE After(a)
    /\ doubtful' = IF a = "manifest" THEN Settled("matrix") ELSE Doubt(a)
    /\ outcome' = IF a = "manifest" THEN "built" ELSE outcome
    /\ frame' = IF a = "manifest" THEN NoFrame ELSE frame
    /\ UNCHANGED <<keys, run, tainted, runs, interrupts>>

Stamp(a) ==
    /\ pc = <<"stamp", a>>
    /\ keys' = [keys EXCEPT ![a] = KeyFor(a)]
    /\ pc' = IF a = "embeddings" THEN <<"write", "meta">> ELSE After(a)
    /\ doubtful' = Settled(a)
    /\ UNCHANGED <<disk, run, frame, outcome, tainted, runs, interrupts>>

\* What a write that stops half-way leaves: open() has truncated the file, or not yet.
Breaks(a) ==
    \/ /\ pc[1] = "write"
       /\ disk' \in {disk, Put(a, Torn)}
       /\ doubtful' = Doubt(a)
       /\ UNCHANGED keys
    \/ /\ pc[1] = "stamp"
       /\ keys' \in {keys, [keys EXCEPT ![a] = {}]}
       /\ UNCHANGED <<disk, doubtful>>
    \/ /\ pc[1] = "load"
       /\ UNCHANGED <<files, doubtful>>

\* An exception in a stage of the accuracy layer is logged and the run goes on.
StageFails(a) ==
    /\ a \in {"model", "rerank", "llm"} /\ pc[2] = a /\ run.accuracy
    /\ Breaks(a)
    /\ frame' = Hold(a, {})
    /\ pc' = After(a)
    /\ UNCHANGED <<run, outcome, tainted, runs, interrupts>>

\* The process is killed, or an exception elsewhere ends the run.
Interrupt ==
    /\ pc # Idle /\ interrupts < MaxInterrupts
    /\ Breaks(pc[2])
    /\ pc' = Idle /\ outcome' = "interrupted" /\ frame' = NoFrame
    /\ interrupts' = interrupts + 1
    /\ UNCHANGED <<run, tainted, runs>>

Next ==
    \/ \E r \in Runs : Launch(r)
    \/ \E a \in Keyed : Reuse(a) \/ Recompute(a) \/ Stamp(a) \/ StageFails(a)
    \/ \E a \in Files : Write(a)
    \/ Interrupt

Spec == Init /\ [][Next]_vars
-----------------------------------------------------------------------------
(* Properties *)

Known == Datasets \cup Jds \cup Backends \cup {"proxy"}

\* Every variable keeps its shape: a file holds a value, is torn or is absent.
TypeOK ==
    /\ disk \in [LookedAt -> {Absent, Torn} \cup SUBSET Known]
    /\ keys \in [Keyed -> SUBSET (Datasets \cup Jds)]
    /\ run \in Runs /\ frame \in [Columns -> SUBSET Known]
    /\ pc = Idle \/ (pc[1] \in {"load", "write", "stamp"} /\ pc[2] \in Files)
    /\ outcome \in {"none", "running", "built", "skipped", "failed", "interrupted"}
    /\ doubtful \subseteq Files /\ tainted \subseteq Keyed

\* A sidecar key tells the truth: a readable artifact was computed from exactly
\* the inputs its key names, unless its last write was never stamped or used
\* such a file. Every key hashes all that its stage depends on but for --limit,
\* which no run here is given.
KeysTellTruth ==
    \A a \in Keyed \ doubtful :
      keys[a] # {} /\ Readable(a) => Pure(disk[a]) = keys[a]

\* A run that completes, or skips its work, leaves a matrix computed from its own
\* candidates and job description, whatever was reused from whatever earlier
\* runs, unless a file it used was left behind by an interrupted write. A run with --limit is left out.
MatrixIsOwn ==
    /\ outcome = "built" /\ tainted \subseteq {"model"} => Pure(disk["matrix"]) = {run.data, run.jd}
    /\ outcome = "skipped" /\ "matrix" \notin doubtful => Pure(disk["matrix"]) = {run.data, run.jd}

\* "Swap the JD and we reuse the embeddings": a --resume run over whole
\* embeddings of its candidates does not encode them again.
EmbeddingsReused ==
    run.resume /\ Pure(disk["embeddings"]) = {run.data} /\ "embeddings" \notin doubtful
      => pc # <<"write", "embeddings">>

\* A run without --resume repairs whatever an interrupted one left: only a
\* --resume run can fail on a file it finds.
FullRunNeverFails == outcome = "failed" => run.resume

\* core/artifact_cache.py: "a bad cache can never produce a wrong result, only a
\* slower run".
NeverWrong ==
    outcome = "built" =>
      /\ Pure(disk["matrix"]) = {run.data, run.jd}
      /\ Cardinality(disk["matrix"] \cap Backends) = 1

\* precompute.py: a manifest left by a partial run "must NOT trick us into skipping".
SkipsOnlyFinished ==
    outcome = "skipped" => Pure(disk["matrix"]) = {run.data, run.jd}
=============================================================================
