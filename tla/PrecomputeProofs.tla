-------------------------- MODULE PrecomputeProofs --------------------------
(* What a run leaves behind tells the truth about its inputs, for every set of *)
(* candidate files, job descriptions and embedders, and every number of runs   *)
(* and interruptions.                                                          *)
EXTENDS Precompute, TLAPS

\* Only a run in progress has a next step.
AtRest == outcome # "running" => pc = Idle

\* The embeddings come first: past their stage a run holds those of its own
\* candidates, unless it reused doubtful ones.
EncodedFirst ==
    pc \notin {Idle, <<"write", "spec">>, <<"load", "embeddings">>} /\ "embeddings" \notin tainted
      => Pure(frame["embeddings"]) = {run.data}

\* A run that reused nothing doubtful on the way holds arrays of its own inputs.
FrameIsOwn ==
    \A c \in Columns :
      tainted \cap (Sources(c) \cup {c}) = {} => Pure(frame[c]) \subseteq {run.data, run.jd}

\* Between a write and its stamp the artifact is what this run computed, and
\* its old key is not relied on.
StampFollowsWrite ==
    pc[1] = "stamp" =>
      /\ pc[2] \in Keyed /\ pc[2] \in doubtful /\ disk[pc[2]] = Computed(pc[2])
      /\ pc[2] = "model" => run.accuracy

\* Nor is the old manifest between the matrix and the new one.
ManifestFollowsMatrix ==
    pc[2] \in {"ids", "manifest"} => "matrix" \in doubtful /\ disk["matrix"] = Computed("matrix")

\* A settled artifact that can be read was computed from what its key names.
SettledKeyIsTrue ==
    \A a \in Keyed \ doubtful : Readable(a) => Pure(disk[a]) = keys[a]

\* A settled matrix was computed from what the manifest names.
SettledManifestIsTrue ==
    "matrix" \notin doubtful /\ disk["matrix"] # Absent => Pure(disk["matrix"]) = disk["manifest"]

Truthful == /\ TypeOK /\ AtRest /\ EncodedFirst /\ FrameIsOwn
            /\ StampFollowsWrite /\ ManifestFollowsMatrix
            /\ SettledKeyIsTrue /\ SettledManifestIsTrue
            /\ MatrixIsOwn /\ EmbeddingsReused
-----------------------------------------------------------------------------
\* What is computed is made of known contents, and is neither absent nor torn.
LEMMA ComputedType == ASSUME TypeOK, NEW a \in LookedAt PROVE Computed(a) \in SUBSET Known
BY DEF TypeOK, LookedAt, Keyed, Runs, Columns, Known, Computed

LEMMA KnownIsWhole == \A v \in SUBSET Known : v # Absent /\ v # Torn
BY InputsAssumption DEF Known, Absent, Torn

LEMMA AfterType ==
    ASSUME NEW a \in Files
    PROVE  After(a) = Idle \/ (After(a)[1] \in {"load", "write"} /\ After(a)[2] \in Files)
BY DEF After, Files, Keyed, Idle

\* A write that breaks off leaves files of the right shape.
LEMMA BreaksType ==
    ASSUME TypeOK, NEW a \in Files, Breaks(a)
    PROVE  /\ disk' \in [LookedAt -> {Absent, Torn} \cup SUBSET Known]
           /\ (pc[1] = "stamp" /\ a \in Keyed) => keys' \in [Keyed -> SUBSET (Datasets \cup Jds)]
           /\ pc[1] # "stamp" => keys' = keys
           /\ doubtful' \subseteq Files
<1>1. keys \in [Keyed -> SUBSET (Datasets \cup Jds)] /\ {} \in SUBSET (Datasets \cup Jds)
  BY DEF TypeOK
<1>2. CASE pc[1] = "write"
  BY <1>2 DEF TypeOK, Breaks, Put, Doubt, Files
<1>3. CASE pc[1] = "stamp"
  <2>1. disk' = disk /\ doubtful' = doubtful /\ keys' \in {keys, [keys EXCEPT ![a] = {}]}
    BY <1>3 DEF Breaks
  <2> QED BY <1>1, <1>3, <2>1 DEF TypeOK
<1>4. CASE pc[1] = "load"
  BY <1>4 DEF TypeOK, Breaks, files
<1> QED BY <1>2, <1>3, <1>4 DEF Breaks

LEMMA HoldType ==
    ASSUME TypeOK, NEW a \in Files, NEW v, a \in Columns => v \in SUBSET Known
    PROVE  Hold(a, v) \in [Columns -> SUBSET Known]
BY DEF TypeOK, Hold

\* Every step keeps the types.
LEMMA TypeStep == TypeOK /\ StampFollowsWrite /\ [Next]_vars => TypeOK'
<1> SUFFICES ASSUME TypeOK, StampFollowsWrite, [Next]_vars PROVE TypeOK'
  OBVIOUS
<1>0. Keyed \subseteq Files /\ Keyed \subseteq LookedAt /\ Columns \subseteq LookedAt
      /\ NoFrame \in [Columns -> SUBSET Known]
  BY DEF Files, LookedAt, Keyed, Columns, NoFrame
<1>1. ASSUME NEW r \in Runs, Launch(r) PROVE TypeOK'
  BY <1>0, <1>1 DEF Launch, TypeOK, files, Files
<1>2. ASSUME NEW a \in Keyed, Reuse(a) PROVE TypeOK'
  <2>1. a \in Columns => disk[a] \in SUBSET Known
    BY <1>0, <1>2 DEF Reuse, Fresh, TypeOK, Columns
  <2>2. frame' \in [Columns -> SUBSET Known]
    BY <1>0, <1>2, <2>1, HoldType DEF Reuse
  <2>3. tainted' \subseteq Keyed
    BY <1>2 DEF Reuse, TypeOK
  <2> QED BY <1>0, <1>2, <2>2, <2>3, AfterType DEF Reuse, TypeOK, files
<1>3. ASSUME NEW a \in Keyed, Recompute(a) PROVE TypeOK'
  <2>1. frame' \in [Columns -> SUBSET Known]
    BY <1>0, <1>3, HoldType, ComputedType DEF Recompute, TypeOK
  <2> QED BY <1>0, <1>3, <2>1, AfterType DEF Recompute, TypeOK, files, history
<1>4. ASSUME NEW a \in Keyed, Stamp(a) PROVE TypeOK'
  <2>1. KeyFor(a) \in SUBSET (Datasets \cup Jds)
    BY DEF KeyFor, TypeOK, Runs
  <2>2. pc' = <<"write", "meta">> \/ pc' = After(a)
    BY <1>4 DEF Stamp
  <2>3. doubtful' \subseteq Files
    BY <1>4 DEF Stamp, Settled, TypeOK
  <2> QED BY <1>0, <1>4, <2>1, <2>2, <2>3, AfterType DEF Stamp, TypeOK, Files
<1>5. ASSUME NEW a \in Keyed, StageFails(a) PROVE TypeOK'
  <2>1. frame' \in [Columns -> SUBSET Known]
    BY <1>0, <1>5, HoldType DEF StageFails
  <2> QED BY <1>0, <1>5, <2>1, AfterType, BreaksType DEF StageFails, TypeOK
<1>6. ASSUME NEW a \in Files, Write(a) PROVE TypeOK'
  <2>1. disk' \in [LookedAt -> {Absent, Torn} \cup SUBSET Known]
    BY <1>6, ComputedType DEF Write, Put, TypeOK
  <2>2. doubtful' \subseteq Files
    BY <1>6 DEF Write, Settled, Doubt, Files, TypeOK
  <2>3. pc' = <<"stamp", a>> \/ pc' = After(a)
    BY <1>6 DEF Write
  <2> QED BY <1>0, <1>6, <2>1, <2>2, <2>3, AfterType DEF Write, TypeOK
<1>7. CASE Interrupt
  <2>1. pc[2] \in Files /\ (pc[1] = "stamp" => pc[2] \in Keyed)
    BY <1>7 DEF Interrupt, TypeOK, StampFollowsWrite
  <2> QED BY <1>0, <1>7, <2>1, BreaksType DEF Interrupt, TypeOK
<1>8. CASE UNCHANGED vars
  BY <1>8 DEF vars, files, history, TypeOK
<1> QED BY <1>1, <1>2, <1>3, <1>4, <1>5, <1>6, <1>7, <1>8 DEF Next

\* The contents of the candidates file and of the job description are no embedders.
LEMMA InputsArePure ==
    ASSUME TypeOK
    PROVE  /\ run.data \notin Backends /\ run.jd \notin Backends /\ "proxy" \notin Backends
           /\ run.data \notin Jds /\ run.jd \notin Datasets /\ run.backend \in Backends
           /\ run.data # run.jd
BY InputsAssumption DEF TypeOK, Runs

\* What a stage computes, embedder apart, is what its key names, unless it used something doubtful.
LEMMA ComputedIsKeyed ==
    ASSUME TypeOK, EncodedFirst, FrameIsOwn, NEW a \in Keyed, NEW verb \in {"load", "write", "stamp"},
           pc = <<verb, a>>, tainted \cap Sources(a) = {}, a = "model" => run.accuracy
    PROVE  Pure(Computed(a)) = KeyFor(a)
<1> USE InputsArePure
<1>1. CASE a = "embeddings"
  BY <1>1 DEF Computed, KeyFor, Pure
<1>2. CASE a = "model"
  BY <1>2 DEF Computed, KeyFor, Pure
<1>3. CASE a = "cosine"
  <2>1. Pure(frame["embeddings"]) = {run.data}
    BY <1>3 DEF EncodedFirst, Sources, Idle
  <2> QED BY <1>3, <2>1 DEF Computed, KeyFor, Pure
<1>4. CASE a \in {"rerank", "llm"}
  <2>1. Pure(frame["cosine"]) \subseteq {run.data, run.jd}
    BY <1>4 DEF FrameIsOwn, Sources, Columns
  <2> QED BY <1>4, <2>1 DEF Computed, KeyFor, Pure
<1> QED BY <1>1, <1>2, <1>3, <1>4 DEF Keyed

\* So is the matrix.
LEMMA MatrixIsComputed ==
    ASSUME TypeOK, FrameIsOwn, tainted \subseteq {"model"}
    PROVE  Pure(Computed("matrix")) = {run.data, run.jd}
<1>1. \A c \in {"cosine", "rerank", "llm"} : Pure(frame[c]) \subseteq {run.data, run.jd}
  BY DEF FrameIsOwn, Sources, Columns
<1> QED BY <1>1, InputsArePure DEF Computed, Pure

\* What a run finds fresh and not doubtful is what it would have computed.
LEMMA FreshIsKeyed ==
    ASSUME TypeOK, SettledKeyIsTrue, NEW a \in Keyed, a # "model", Fresh(a), a \notin doubtful
    PROVE  Pure(disk[a]) = KeyFor(a)
BY DEF Fresh, SettledKeyIsTrue, Readable

LEMMA IdleParts == Idle[1] = "idle" /\ Idle[2] = ""
BY DEF Idle

\* A stage belongs to a run in progress.
LEMMA StageRuns ==
    ASSUME NEW a, Reuse(a) \/ Recompute(a) \/ Write(a) \/ Stamp(a) \/ StageFails(a)
    PROVE  pc # Idle
<1>1. pc[1] \in {"load", "write", "stamp"} \/ pc[2] \in {"model", "rerank", "llm"}
  BY DEF Reuse, Recompute, Write, Stamp, StageFails
<1> QED BY <1>1, IdleParts

\* A run at rest stays at rest until the next one.
LEMMA RestStep == AtRest /\ [Next]_vars => AtRest'
<1> SUFFICES ASSUME AtRest, [Next]_vars PROVE AtRest'
  OBVIOUS
<1>1. ASSUME NEW r \in Runs, Launch(r) PROVE AtRest'
  BY <1>1 DEF Launch, AtRest
<1>2. ASSUME NEW a \in Keyed, Reuse(a) \/ Recompute(a) \/ Stamp(a) \/ StageFails(a) PROVE AtRest'
  <2>1. pc # Idle
    BY <1>2, StageRuns
  <2>2. outcome' = outcome \/ pc' = Idle
    BY <1>2 DEF Reuse, Recompute, Stamp, StageFails
  <2> QED BY <2>1, <2>2 DEF AtRest
<1>3. ASSUME NEW a \in Files, Write(a) PROVE AtRest'
  BY <1>3 DEF Write, AtRest, Idle, After, Keyed
<1>4. CASE Interrupt
  BY <1>4 DEF Interrupt, AtRest
<1>5. CASE UNCHANGED vars
  BY <1>5 DEF vars, AtRest
<1> QED BY <1>1, <1>2, <1>3, <1>4, <1>5 DEF Next

\* A run encodes, or reuses the embeddings, before anything else uses them.
LEMMA EncodedStep == TypeOK /\ SettledKeyIsTrue /\ EncodedFirst /\ [Next]_vars => EncodedFirst'
<1> SUFFICES ASSUME TypeOK, SettledKeyIsTrue, EncodedFirst, [Next]_vars PROVE EncodedFirst'
  OBVIOUS
<1> USE DEF EncodedFirst, Pure, Columns
<1>1. ASSUME NEW r \in Runs, Launch(r) PROVE EncodedFirst'
  BY <1>1 DEF Launch
<1>2. ASSUME NEW a \in Keyed, Reuse(a) PROVE EncodedFirst'
  <2>1. CASE a # "embeddings"
    BY <1>2, <2>1, StageRuns DEF Reuse, Hold, TypeOK
  <2>2. CASE a = "embeddings"
    BY <1>2, <2>2, FreshIsKeyed DEF Reuse, Hold, TypeOK, Columns, KeyFor
  <2> QED BY <2>1, <2>2
<1>3. ASSUME NEW a \in Keyed, Recompute(a) PROVE EncodedFirst'
  <2>1. CASE a # "embeddings"
    BY <1>3, <2>1, StageRuns DEF Recompute, Hold, TypeOK, history
  <2>2. CASE a = "embeddings"
    <3>1. Computed(a) = {run.data, run.backend}
      BY <2>2 DEF Computed
    <3>2. frame' = [frame EXCEPT !["embeddings"] = Computed(a)] /\ run' = run
      BY <1>3, <2>2 DEF Recompute, Hold
    <3> QED BY <3>1, <3>2, InputsArePure DEF TypeOK
  <2> QED BY <2>1, <2>2
<1>4. ASSUME NEW a \in Keyed, Stamp(a) PROVE EncodedFirst'
  BY <1>4, StageRuns DEF Stamp
<1>5. ASSUME NEW a \in Keyed, StageFails(a) PROVE EncodedFirst'
  <2>1. pc \notin {Idle, <<"write", "spec">>, <<"load", "embeddings">>}
    BY <1>5, StageRuns DEF StageFails
  <2>2. frame'["embeddings"] = frame["embeddings"] /\ UNCHANGED <<run, tainted>>
    BY <1>5 DEF StageFails, Hold, TypeOK
  <2> QED BY <2>1, <2>2
<1>6. ASSUME NEW a \in Files, Write(a) PROVE EncodedFirst'
  BY <1>6, StageRuns DEF Write, After, Files, Keyed
<1>7. CASE Interrupt
  BY <1>7 DEF Interrupt
<1>8. CASE UNCHANGED vars
  BY <1>8 DEF vars, history
<1> QED BY <1>1, <1>2, <1>3, <1>4, <1>5, <1>6, <1>7, <1>8 DEF Next

\* A run holds arrays of its own inputs, as far as it reused nothing doubtful.
LEMMA FrameStep ==
    TypeOK /\ SettledKeyIsTrue /\ EncodedFirst /\ FrameIsOwn /\ [Next]_vars => FrameIsOwn'
<1> SUFFICES ASSUME TypeOK, SettledKeyIsTrue, EncodedFirst, FrameIsOwn, [Next]_vars
             PROVE  FrameIsOwn'
  OBVIOUS
<1>0. ASSUME UNCHANGED <<run, tainted>>, frame' = NoFrame \/ frame' = frame PROVE FrameIsOwn'
  BY <1>0 DEF FrameIsOwn, NoFrame, Pure
<1>1. ASSUME NEW r \in Runs, Launch(r) PROVE FrameIsOwn'
  BY <1>1 DEF Launch, FrameIsOwn, NoFrame, Pure
<1>2. ASSUME NEW a, NEW v, frame' = Hold(a, v), run' = run, tainted \subseteq tainted',
             a \in Columns /\ tainted' \cap (Sources(a) \cup {a}) = {} => Pure(v) \subseteq {run.data, run.jd}
      PROVE  FrameIsOwn'
  <2> SUFFICES ASSUME NEW c \in Columns, tainted' \cap (Sources(c) \cup {c}) = {}
               PROVE  Pure(frame'[c]) \subseteq {run.data, run.jd}
    BY <1>2 DEF FrameIsOwn, Pure
  <2>1. (frame'[c] = v /\ a = c) \/ frame'[c] = frame[c]
    BY <1>2 DEF Hold, TypeOK
  <2>2. Pure(frame[c]) \subseteq {run.data, run.jd}
    BY <1>2 DEF FrameIsOwn
  <2> QED BY <1>2, <2>1, <2>2
<1>3. ASSUME NEW a \in Keyed, Reuse(a) PROVE FrameIsOwn'
  <2>1. CASE frame' = NoFrame
    BY <1>0, <1>3, <2>1 DEF Reuse, FrameIsOwn, NoFrame, Pure
  <2>2. CASE frame' = Hold(a, disk[a]) /\ tainted' = tainted \cup ({a} \cap doubtful)
    <3>1. ASSUME a \in Columns, a \notin doubtful PROVE Pure(disk[a]) \subseteq {run.data, run.jd}
      BY <1>3, <3>1, FreshIsKeyed DEF Reuse, KeyFor, Columns
    <3> QED BY <1>2, <1>3, <2>2, <3>1 DEF Reuse
  <2> QED BY <1>3, <2>1, <2>2 DEF Reuse
<1>4. ASSUME NEW a \in Keyed, Recompute(a) PROVE FrameIsOwn'
  <2>1. pc = <<"load", a>> /\ UNCHANGED <<run, tainted>>
    BY <1>4 DEF Recompute, history
  <2>2. ASSUME a \in Columns, tainted \cap Sources(a) = {}
        PROVE  Pure(Computed(a)) \subseteq {run.data, run.jd}
    BY <2>1, <2>2, ComputedIsKeyed DEF KeyFor, Columns
  <2> QED BY <1>0, <1>2, <1>4, <2>1, <2>2 DEF Recompute
<1>5. ASSUME NEW a \in Keyed, StageFails(a) PROVE FrameIsOwn'
  BY <1>2, <1>5 DEF StageFails, Pure
<1>6. ASSUME NEW a \in Files, Write(a) PROVE FrameIsOwn'
  BY <1>0, <1>6 DEF Write
<1> QED BY <1>0, <1>1, <1>3, <1>4, <1>5, <1>6 DEF Next, Stamp, Interrupt, vars, history

\* What follows an artifact: never a stamp or an encoding, and the manifest only after the matrix.
LEMMA AfterWhere ==
    ASSUME NEW a \in Files
    PROVE  /\ After(a)[1] # "stamp" /\ After(a) # <<"write", "embeddings">>
           /\ After(a)[2] \in {"ids", "manifest"} => a \in {"matrix", "ids"}
<1>1. CASE a = "manifest"
  <2>1. After(a) = Idle
    BY <1>1 DEF After
  <2>2. After(a)[1] = "idle" /\ After(a)[2] = ""
    BY <2>1, IdleParts
  <2>3. \A p : p = <<"write", "embeddings">> => p[1] = "write"
    OBVIOUS
  <2> QED BY <2>2, <2>3
<1>2. CASE a # "manifest"
  BY <1>2 DEF After, Files, Keyed
<1> QED BY <1>1, <1>2

\* An artifact is stamped right after it was written, by the run that wrote it.
LEMMA StampStep == StampFollowsWrite /\ TypeOK /\ [Next]_vars => StampFollowsWrite'
<1> SUFFICES ASSUME StampFollowsWrite, TypeOK, [Next]_vars PROVE StampFollowsWrite'
  OBVIOUS
<1>0. Keyed \subseteq Files
  BY DEF Files
<1>1. ASSUME pc'[1] # "stamp" PROVE StampFollowsWrite'
  BY <1>1 DEF StampFollowsWrite
<1>2. ASSUME NEW r \in Runs, Launch(r) PROVE pc'[1] # "stamp"
  <2>1. pc' = Idle \/ pc' = <<"write", "spec">>
    BY <1>2 DEF Launch
  <2>2. CASE pc' = Idle
    BY <2>2, IdleParts
  <2>3. CASE pc' = <<"write", "spec">>
    BY <2>3
  <2> QED BY <2>1, <2>2, <2>3
<1>3. ASSUME NEW a \in Keyed, Reuse(a) \/ Recompute(a) \/ Stamp(a) \/ StageFails(a)
      PROVE  pc'[1] # "stamp"
  <2>1. pc' \in {Idle, After(a), <<"write", a>>, <<"write", "meta">>}
    BY <1>3 DEF Reuse, Recompute, Stamp, StageFails
  <2>2. CASE pc' \in {Idle, After(a)}
    BY <1>0, <2>2, AfterWhere, IdleParts
  <2>3. CASE pc' \in {<<"write", a>>, <<"write", "meta">>}
    BY <1>0, <2>3
  <2> QED BY <2>1, <2>2, <2>3
<1>4. ASSUME NEW a \in Files, Write(a) PROVE StampFollowsWrite'
  <2>1. CASE pc' = After(a)
    BY <1>1, <2>1, AfterWhere
  <2>2. CASE /\ pc' = <<"stamp", a>> /\ a \in Keyed /\ (a = "model" => run.accuracy)
    <3>1. a \in Keyed /\ a # "manifest" /\ a \in LookedAt
      BY <2>2 DEF Keyed, LookedAt
    <3>2. disk'[a] = Computed(a) /\ a \in doubtful' /\ UNCHANGED <<run, frame>>
      BY <1>4, <3>1 DEF Write, Put, Doubt
    <3>3. Computed(a)' = Computed(a)
      BY <3>1, <3>2 DEF Computed, Keyed
    <3> QED BY <2>2, <3>2, <3>3 DEF StampFollowsWrite
  <2> QED BY <1>4, <2>1, <2>2 DEF Write
<1>5. CASE Interrupt
  BY <1>1, <1>5, IdleParts DEF Interrupt
<1>6. CASE UNCHANGED vars
  BY <1>6 DEF vars, files, history, StampFollowsWrite, Computed
<1> QED BY <1>1, <1>2, <1>3, <1>4, <1>5, <1>6 DEF Next

\* Between the matrix and the manifest nothing else is written that counts.
LEMMA ManifestStep == ManifestFollowsMatrix /\ TypeOK /\ [Next]_vars => ManifestFollowsMatrix'
<1> SUFFICES ASSUME ManifestFollowsMatrix, TypeOK, [Next]_vars PROVE ManifestFollowsMatrix'
  OBVIOUS
<1>0. Keyed \subseteq Files /\ \A a \in Keyed : a \notin {"matrix", "ids", "manifest"}
  BY DEF Files, Keyed
<1>1. ASSUME pc'[2] \notin {"ids", "manifest"} PROVE ManifestFollowsMatrix'
  BY <1>1 DEF ManifestFollowsMatrix
<1>2. ASSUME NEW r \in Runs, Launch(r) PROVE pc'[2] \notin {"ids", "manifest"}
  <2>1. pc' = Idle \/ pc' = <<"write", "spec">>
    BY <1>2 DEF Launch
  <2>2. CASE pc' = Idle
    BY <2>2, IdleParts
  <2>3. CASE pc' = <<"write", "spec">>
    BY <2>3
  <2> QED BY <2>1, <2>2, <2>3
<1>3. ASSUME NEW a \in Keyed, Reuse(a) \/ Recompute(a) \/ Stamp(a) \/ StageFails(a)
      PROVE  pc'[2] \notin {"ids", "manifest"}
  <2>1. pc' \in {Idle, After(a), <<"write", a>>, <<"write", "meta">>}
    BY <1>3 DEF Reuse, Recompute, Stamp, StageFails
  <2>2. CASE pc' \in {Idle, After(a)}
    BY <1>0, <2>2, AfterWhere, IdleParts
  <2>3. CASE pc' \in {<<"write", a>>, <<"write", "meta">>}
    BY <1>0, <2>3
  <2> QED BY <2>1, <2>2, <2>3
<1>4. ASSUME NEW a \in Files, Write(a) PROVE ManifestFollowsMatrix'
  <2>1. CASE a \notin {"matrix", "ids"}
    <3>1. CASE pc' = After(a)
      BY <1>1, <2>1, <3>1, AfterWhere
    <3>2. CASE pc' = <<"stamp", a>> /\ a \in Keyed
      BY <1>0, <1>1, <3>2
    <3> QED BY <1>4, <3>1, <3>2 DEF Write
  <2>2. CASE a = "matrix"
    <3>1. disk'["matrix"] = Computed("matrix") /\ "matrix" \in doubtful' /\ UNCHANGED <<run, frame>>
      BY <1>4, <2>2 DEF Write, Put, Doubt, LookedAt
    <3> QED BY <3>1 DEF ManifestFollowsMatrix, Computed
  <2>3. CASE a = "ids"
    <3>1. "matrix" \in doubtful /\ disk["matrix"] = Computed("matrix")
      BY <1>4, <2>3 DEF Write, ManifestFollowsMatrix
    <3>2. disk'["matrix"] = disk["matrix"] /\ doubtful \subseteq doubtful' /\ UNCHANGED <<run, frame>>
      BY <1>4, <2>3 DEF Write, Put, Doubt, LookedAt
    <3> QED BY <3>1, <3>2 DEF ManifestFollowsMatrix, Computed
  <2> QED BY <2>1, <2>2, <2>3
<1>5. CASE Interrupt
  BY <1>1, <1>5, IdleParts DEF Interrupt
<1>6. CASE UNCHANGED vars
  BY <1>6 DEF vars, files, history, ManifestFollowsMatrix, Computed
<1> QED BY <1>1, <1>2, <1>3, <1>4, <1>5, <1>6 DEF Next

\* A write that breaks off puts in doubt what it spoils.
LEMMA BreaksDoubt ==
    ASSUME TypeOK, StampFollowsWrite, ManifestFollowsMatrix, Breaks(pc[2])
    PROVE  /\ doubtful \subseteq doubtful'
           /\ \A b \in Keyed \ doubtful' : disk'[b] = disk[b] /\ keys'[b] = keys[b]
           /\ "matrix" \notin doubtful' => disk'["matrix"] = disk["matrix"] /\ disk'["manifest"] = disk["manifest"]
<1>0. Keyed \subseteq LookedAt /\ {"matrix", "manifest"} \subseteq LookedAt
  BY DEF LookedAt
<1>1. CASE pc[1] = "write"
  <2>1. disk' \in {disk, Put(pc[2], Torn)} /\ doubtful' = Doubt(pc[2]) /\ keys' = keys
    BY <1>1 DEF Breaks
  <2>2. \A b \in LookedAt : b # pc[2] => disk'[b] = disk[b]
    BY <2>1 DEF Put
  <2>3. doubtful \subseteq doubtful' /\ (pc[2] \in Keyed \cup {"matrix"} => pc[2] \in doubtful')
    BY <2>1 DEF Doubt
  <2>4. pc[2] = "manifest" => "matrix" \in doubtful
    BY DEF ManifestFollowsMatrix
  <2> QED BY <1>0, <2>1, <2>2, <2>3, <2>4
<1>2. CASE pc[1] = "stamp"
  <2>1. keys' \in {keys, [keys EXCEPT ![pc[2]] = {}]} /\ UNCHANGED <<disk, doubtful>>
    BY <1>2 DEF Breaks
  <2>2. pc[2] \in doubtful
    BY <1>2 DEF StampFollowsWrite
  <2> QED BY <2>1, <2>2 DEF TypeOK
<1>3. CASE pc[1] = "load"
  BY <1>3 DEF Breaks, files
<1> QED BY <1>1, <1>2, <1>3 DEF Breaks

\* Every step leaves settled artifacts with true keys: a write puts its artifact in doubt, and the
\* stamp that settles it names what this run computed it from.
LEMMA KeyStep ==
    /\ TypeOK /\ EncodedFirst /\ FrameIsOwn /\ StampFollowsWrite /\ ManifestFollowsMatrix
    /\ SettledKeyIsTrue /\ [Next]_vars
    => SettledKeyIsTrue'
<1> SUFFICES ASSUME TypeOK, EncodedFirst, FrameIsOwn, StampFollowsWrite, ManifestFollowsMatrix,
                    SettledKeyIsTrue, [Next]_vars
             PROVE  SettledKeyIsTrue'
  OBVIOUS
<1>1. ASSUME \A b \in Keyed \ doubtful' : b \notin doubtful /\ disk'[b] = disk[b] /\ keys'[b] = keys[b]
      PROVE  SettledKeyIsTrue'
  BY <1>1 DEF SettledKeyIsTrue, Readable, Pure
<1>2. ASSUME NEW a \in Keyed, Stamp(a) PROVE SettledKeyIsTrue'
  <2>1. /\ pc = <<"stamp", a>> /\ disk[a] = Computed(a) /\ (a = "model" => run.accuracy)
        /\ a \in doubtful
    BY <1>2 DEF Stamp, StampFollowsWrite
  <2>2. disk' = disk /\ keys'[a] = KeyFor(a) /\ \A b \in Keyed : b # a => keys'[b] = keys[b]
    BY <1>2 DEF Stamp, TypeOK
  <2>3. CASE tainted \cap Sources(a) = {}
    <3>1. Pure(disk'[a]) = keys'[a]
      BY <2>1, <2>2, <2>3, ComputedIsKeyed
    <3>2. \A b \in Keyed \ doubtful' : b = a \/ b \notin doubtful
      BY <1>2, <2>3 DEF Stamp, Settled
    <3> QED BY <2>2, <3>1, <3>2 DEF SettledKeyIsTrue, Readable, Pure
  <2>4. CASE tainted \cap Sources(a) # {}
    <3>1. doubtful' = doubtful
      BY <1>2, <2>4 DEF Stamp, Settled
    <3> QED BY <1>1, <2>1, <2>2, <3>1
  <2> QED BY <2>3, <2>4
<1>3. ASSUME NEW a \in Files, Write(a) PROVE SettledKeyIsTrue'
  <2>1. \A b \in Keyed : b # a => disk'[b] = disk[b]
    BY <1>3 DEF Write, Put, LookedAt
  <2>2. CASE a = "manifest"
    <3>1. doubtful \ {"matrix"} \subseteq doubtful' /\ "matrix" \notin Keyed /\ a \notin Keyed
      BY <1>3, <2>2 DEF Write, Settled, Keyed
    <3> QED BY <1>1, <1>3, <2>1, <3>1 DEF Write
  <2>3. CASE a # "manifest"
    <3>1. doubtful \subseteq doubtful' /\ (a \in Keyed => a \in doubtful')
      BY <1>3, <2>3 DEF Write, Doubt
    <3> QED BY <1>1, <1>3, <2>1, <3>1 DEF Write
  <2> QED BY <2>2, <2>3
<1>4. ASSUME NEW a \in Keyed, StageFails(a) PROVE SettledKeyIsTrue'
  BY <1>1, <1>4, BreaksDoubt DEF StageFails
<1>5. CASE Interrupt
  BY <1>1, <1>5, BreaksDoubt DEF Interrupt
<1>6. CASE UNCHANGED <<disk, keys, doubtful>>
  BY <1>1, <1>6
<1> QED BY <1>2, <1>3, <1>4, <1>5, <1>6 DEF Next, Launch, Reuse, Recompute, vars, files, history

\* Every step leaves a settled matrix with a true manifest.
LEMMA SettledManifestStep ==
    /\ TypeOK /\ FrameIsOwn /\ StampFollowsWrite /\ ManifestFollowsMatrix
    /\ SettledManifestIsTrue /\ [Next]_vars
    => SettledManifestIsTrue'
<1> SUFFICES ASSUME TypeOK, FrameIsOwn, StampFollowsWrite, ManifestFollowsMatrix,
                    SettledManifestIsTrue, [Next]_vars
             PROVE  SettledManifestIsTrue'
  OBVIOUS
<1>1. ASSUME "matrix" \notin doubtful' => "matrix" \notin doubtful
                 /\ disk'["matrix"] = disk["matrix"] /\ disk'["manifest"] = disk["manifest"]
      PROVE  SettledManifestIsTrue'
  BY <1>1 DEF SettledManifestIsTrue, Pure
<1>2. ASSUME NEW a \in Files, Write(a) PROVE SettledManifestIsTrue'
  <2>1. CASE a = "manifest"
    <3>1. "matrix" \in doubtful /\ disk["matrix"] = Computed("matrix")
      BY <1>2, <2>1 DEF Write, ManifestFollowsMatrix
    <3>2. disk'["matrix"] = disk["matrix"] /\ disk'["manifest"] = {run.data, run.jd}
      BY <1>2, <2>1 DEF Write, Put, LookedAt, Computed
    <3>3. CASE tainted \cap Sources("matrix") = {}
      <4>1. tainted \subseteq {"model"}
        BY <3>3 DEF TypeOK, Keyed, Sources
      <4> QED BY <3>1, <3>2, <4>1, MatrixIsComputed DEF SettledManifestIsTrue, Pure
    <3>4. CASE tainted \cap Sources("matrix") # {}
      BY <1>1, <1>2, <2>1, <3>1, <3>4 DEF Write, Settled
    <3> QED BY <3>3, <3>4
  <2>2. CASE a # "manifest"
    <3>1. doubtful' = Doubt(a) /\ disk' = Put(a, Computed(a))
      BY <1>2, <2>2 DEF Write
    <3> QED BY <1>1, <2>2, <3>1 DEF Doubt, Put, LookedAt
  <2> QED BY <2>1, <2>2
<1>3. ASSUME NEW a \in Keyed, Stamp(a) PROVE SettledManifestIsTrue'
  BY <1>1, <1>3 DEF Stamp, Settled, Keyed
<1>4. ASSUME NEW a \in Keyed, StageFails(a) PROVE SettledManifestIsTrue'
  BY <1>1, <1>4, BreaksDoubt DEF StageFails
<1>5. CASE Interrupt
  BY <1>1, <1>5, BreaksDoubt DEF Interrupt
<1>6. CASE UNCHANGED <<disk, keys, doubtful>>
  BY <1>1, <1>6
<1> QED BY <1>2, <1>3, <1>4, <1>5, <1>6 DEF Next, Launch, Reuse, Recompute, vars, files, history

\* Every step leaves a finished run with its own matrix.
LEMMA MatrixStep ==
    /\ TypeOK /\ AtRest /\ FrameIsOwn /\ ManifestFollowsMatrix /\ SettledManifestIsTrue
    /\ MatrixIsOwn /\ [Next]_vars
    => MatrixIsOwn'
<1> SUFFICES ASSUME TypeOK, AtRest, FrameIsOwn, ManifestFollowsMatrix, SettledManifestIsTrue,
                    MatrixIsOwn, [Next]_vars
             PROVE  MatrixIsOwn'
  OBVIOUS
<1>1. ASSUME outcome' \notin {"built", "skipped"} PROVE MatrixIsOwn'
  BY <1>1 DEF MatrixIsOwn
<1>2. ASSUME NEW r \in Runs, Launch(r) PROVE MatrixIsOwn'
  <2>1. CASE outcome' = "skipped" /\ Skips(r)
    BY <1>2, <2>1 DEF Launch, Skips, SettledManifestIsTrue, MatrixIsOwn, files, Pure
  <2> QED BY <1>1, <1>2, <2>1 DEF Launch
<1>3. ASSUME pc # Idle, outcome' \in {outcome, "failed"} PROVE MatrixIsOwn'
  BY <1>1, <1>3 DEF AtRest
<1>4. CASE Write("manifest")
  <2>1. disk["matrix"] = Computed("matrix")
    BY <1>4 DEF Write, ManifestFollowsMatrix
  <2>2. disk'["matrix"] = disk["matrix"] /\ outcome' = "built" /\ UNCHANGED <<run, tainted>>
    BY <1>4 DEF Write, Put, LookedAt
  <2> QED BY <2>1, <2>2, MatrixIsComputed DEF MatrixIsOwn, Pure
<1>5. CASE Interrupt
  BY <1>1, <1>5 DEF Interrupt
<1>6. CASE UNCHANGED vars
  BY <1>6 DEF vars, files, history, MatrixIsOwn
<1>7. ASSUME NEW a \in Files, Write(a) PROVE MatrixIsOwn'
  BY <1>3, <1>4, <1>7, StageRuns DEF Write
<1>8. ASSUME NEW a \in Keyed, Reuse(a) \/ Recompute(a) \/ Stamp(a) \/ StageFails(a) PROVE MatrixIsOwn'
  BY <1>3, <1>8, StageRuns DEF Reuse, Recompute, Stamp, StageFails
<1> QED BY <1>2, <1>5, <1>6, <1>7, <1>8 DEF Next

\* Every step of a run that resumes over settled embeddings of its candidates spares them.
LEMMA ReusedStep ==
    TypeOK /\ SettledKeyIsTrue /\ EmbeddingsReused /\ [Next]_vars => EmbeddingsReused'
<1> SUFFICES ASSUME TypeOK, SettledKeyIsTrue, EmbeddingsReused, [Next]_vars PROVE EmbeddingsReused'
  OBVIOUS
<1>0. Keyed \subseteq Files
  BY DEF Files
<1>1. ASSUME pc' # <<"write", "embeddings">> PROVE EmbeddingsReused'
  BY <1>1 DEF EmbeddingsReused
<1>2. Idle # <<"write", "embeddings">>
  <2>1. \A p : p = <<"write", "embeddings">> => p[1] = "write"
    OBVIOUS
  <2> QED BY <2>1, IdleParts
<1>3. ASSUME NEW r \in Runs, Launch(r) PROVE EmbeddingsReused'
  BY <1>1, <1>2, <1>3 DEF Launch
<1>4. ASSUME NEW a \in Keyed, Reuse(a) \/ Stamp(a) \/ StageFails(a) PROVE EmbeddingsReused'
  <2>1. pc' \in {Idle, After(a), <<"write", "meta">>}
    BY <1>4 DEF Reuse, Stamp, StageFails
  <2> QED BY <1>0, <1>1, <1>2, <2>1, AfterWhere
<1>5. ASSUME NEW a \in Keyed, Recompute(a) PROVE EmbeddingsReused'
  <2>1. CASE a # "embeddings"
    <3>1. pc' \in {After(a), <<"write", a>>}
      BY <1>5 DEF Recompute
    <3> QED BY <1>0, <1>1, <2>1, <3>1, AfterWhere
  <2>2. CASE a = "embeddings"
    <3> SUFFICES ASSUME run.resume, Pure(disk[a]) = {run.data}, a \notin doubtful PROVE FALSE
      BY <1>5, <2>2 DEF Recompute, EmbeddingsReused, files, history, Pure
    <3>1. ~Fresh(a) /\ KeyFor(a) = {run.data}
      BY <1>5, <2>2 DEF Recompute, KeyFor
    <3>2. Readable(a)
      BY InputsAssumption DEF Readable, Absent, Torn, Pure, TypeOK, Runs
    <3> QED BY <2>2, <3>1, <3>2 DEF SettledKeyIsTrue, Fresh, Readable
  <2> QED BY <2>1, <2>2
<1>6. ASSUME NEW a \in Files, Write(a) PROVE EmbeddingsReused'
  <2>1. pc' \in {After(a), <<"stamp", a>>}
    BY <1>6 DEF Write
  <2> QED BY <1>1, <2>1, AfterWhere
<1>7. CASE Interrupt
  BY <1>1, <1>2, <1>7 DEF Interrupt
<1>8. CASE UNCHANGED vars
  BY <1>8 DEF vars, files, history, EmbeddingsReused
<1> QED BY <1>3, <1>4, <1>5, <1>6, <1>7, <1>8 DEF Next

-----------------------------------------------------------------------------
\* Whatever the runs and their interruptions, the artifacts tell the truth.
THEOREM PrecomputeIsTruthful == Spec => []Truthful
<1>1. Init => Truthful
  <2> SUFFICES ASSUME Init PROVE Truthful
    OBVIOUS
  <2>1. TypeOK
    BY DEF Init, TypeOK, LookedAt, Keyed, Files, NoFrame, Columns
  <2>2. \A a \in Keyed \cup {"matrix"} : disk[a] = Absent
    BY DEF Init, LookedAt
  <2>3. pc[1] = "idle" /\ pc[2] = "" /\ pc = Idle /\ outcome = "none"
    BY IdleParts DEF Init
  <2>4. pc # <<"write", "embeddings">>
    <3>1. \A p : p = <<"write", "embeddings">> => p[1] = "write"
      OBVIOUS
    <3> QED BY <2>3, <3>1
  <2> QED BY <2>1, <2>2, <2>3, <2>4
          DEF Init, Truthful, AtRest, EncodedFirst, FrameIsOwn, StampFollowsWrite, ManifestFollowsMatrix,
              SettledKeyIsTrue, SettledManifestIsTrue, MatrixIsOwn, EmbeddingsReused, Readable, NoFrame, Pure
<1>2. Truthful /\ [Next]_vars => Truthful'
  BY TypeStep, RestStep, EncodedStep, FrameStep, StampStep, ManifestStep, KeyStep,
     SettledManifestStep, MatrixStep, ReusedStep DEF Truthful
<1> QED BY <1>1, <1>2, PTL DEF Spec

\* Files, keys and memory keep their shape.
THEOREM PrecomputeTypes == Spec => []TypeOK
BY PrecomputeIsTruthful, PTL DEF Truthful

\* A sidecar key never lies about a settled artifact, whichever runs were interrupted.
THEOREM KeysAlwaysTellTruth == Spec => []KeysTellTruth
<1>1. Truthful => KeysTellTruth
  BY DEF Truthful, SettledKeyIsTrue, KeysTellTruth
<1> QED BY <1>1, PrecomputeIsTruthful, PTL

\* A run that completes or skips leaves the matrix of its own inputs.
THEOREM MatrixAlwaysOwn == Spec => []MatrixIsOwn
BY PrecomputeIsTruthful, PTL DEF Truthful

\* Swapping the job description reuses the embeddings, however many runs came between.
THEOREM EmbeddingsAlwaysReused == Spec => []EmbeddingsReused
BY PrecomputeIsTruthful, PTL DEF Truthful

\* Only a run that resumes can fail on the files it finds.
THEOREM FullRunsNeverFail == Spec => []FullRunNeverFails
<1>1. Init => FullRunNeverFails
  BY DEF Init, FullRunNeverFails
<1>2. FullRunNeverFails /\ [Next]_vars => FullRunNeverFails'
  BY DEF FullRunNeverFails, Next, Launch, Chokes, Reuse, Fresh, Recompute, Stamp, StageFails, Write,
         Interrupt, vars
<1> QED BY <1>1, <1>2, PTL DEF Spec
=============================================================================
