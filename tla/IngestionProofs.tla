-------------------------- MODULE IngestionProofs --------------------------
(***************************************************************************)
(* What holds of Ingestion for any developers, artifacts, workers and       *)
(* faults: the database tells one story, a sync that reports "done" has     *)
(* indexed what it fetched, no artifact is dropped on its way through the   *)
(* queue, and a search finds whoever has evidence.                          *)
(***************************************************************************)
EXTENDS Ingestion, OrderProofs, FiniteSetTheorems, SequenceTheorems, TLAPS

Artifacts == UNION {Range(Parse(GitHub[d])) : d \in Developers}

\* extract_skills: a list without repeats.
Listed(names) == names \in Seq(Range(names)) /\ IsInjective(names)

Indexing == {"check", "insert", "read", "write"}
Stages(kind) == CASE kind = "sync" -> {"start", "fetch", "mark", "failed"} \cup Indexing
                  [] kind = "fanout" -> {"start", "fetch", "enqueue", "mark"}
                  [] kind = "index" -> Indexing

IsMessage(m) ==
    /\ DOMAIN m = {"kind", "dev", "artifact", "sync", "retries"}
    /\ m.kind \in {"fanout", "index"} /\ m.dev \in Developers
    /\ m.kind = "index" => m.artifact \in Artifacts /\ ~m.artifact.blank

Formed(t) ==
    /\ DOMAIN t = {"kind", "dev", "at", "todo", "fetched", "message", "skills", "complexity", "id", "seen"}
    /\ t.kind \in {"sync", "fanout", "index"} /\ t.dev \in Developers /\ t.at \in Stages(t.kind)
    /\ t.todo \in Seq(Artifacts) /\ Listed(t.skills)
    /\ IF t.kind = "sync" THEN t.message = NoMessage ELSE IsMessage(t.message) /\ t.message.kind = t.kind

IsExecution(t) ==
    /\ Formed(t)
    /\ t.at \in {"insert", "read", "write"} => t.todo # <<>>
    /\ t.at \in {"read", "write"} => t.skills # <<>>

IsResting(t) == t \in {Idle, Unreported} \/ t = [at |-> "lost"]

IsWork(x) == DOMAIN x = {"rows", "records", "links"}

Shapes ==
    /\ DOMAIN task = Workers /\ DOMAIN work = Workers
    /\ \A w \in Workers : IsResting(task[w]) \/ IsExecution(task[w])
    /\ \A w \in Workers : IsWork(work[w])
    /\ \A m \in queue : IsMessage(m)

----------------------------------------------------------------------------
(* What GitHub shows *)

\* The concatenations of the first i sequences.
Joins(seqs, n, joined) ==
    joined = [i \in 1..n |-> IF i = 1 THEN seqs[i] ELSE joined[i - 1] \o seqs[i]]

\* The equation of the concatenations has a solution for every number of sequences.
LEMMA JoinsExist == ASSUME NEW seqs, NEW last \in Nat PROVE \E joined : Joins(seqs, last, joined)
<1> DEFINE bad == {k \in 0..last : ~\E joined : Joins(seqs, k, joined)}
<1>1. ASSUME bad # {} PROVE FALSE
  <2> DEFINE m == Min(bad)
  <2>1. bad \in SUBSET (0..last)
    OBVIOUS
  <2>2. m \in bad /\ \A k \in bad : m <= k
    <3> HIDE DEF bad
    <3> QED BY <1>1, <2>1, LeastPosition
  <2> HIDE DEF m
  <2>3. m \in 0..last /\ ~\E joined : Joins(seqs, m, joined)
    BY <2>2
  <2>4. m # 0
    <3> SUFFICES ASSUME m = 0 PROVE FALSE
      OBVIOUS
    <3>1. Joins(seqs, 0, [i \in 1..0 |-> 0])
      BY DEF Joins
    <3> QED BY <2>3, <3>1
  <2>5. m - 1 \in 0..last /\ m - 1 \notin bad
    BY <2>2, <2>3, <2>4
  <2>6. PICK before : Joins(seqs, m - 1, before)
    BY <2>5
  <2> DEFINE s == [i \in 1..m |-> IF i < m THEN before[i] ELSE IF i = 1 THEN seqs[i] ELSE before[i - 1] \o seqs[i]]
  <2>7. ASSUME NEW i \in 1..m PROVE s[i] = IF i = 1 THEN seqs[i] ELSE s[i - 1] \o seqs[i]
    <3>1. i # 1 => i - 1 \in 1..m /\ i - 1 < m
      BY <2>3
    <3>2. i # 1 => s[i - 1] = before[i - 1]
      BY <3>1
    <3>3. CASE i < m
      <4>1. i \in 1..(m - 1)
        BY <2>3, <3>3
      <4>2. s[i] = before[i]
        BY <3>3
      <4>3. before[i] = IF i = 1 THEN seqs[i] ELSE before[i - 1] \o seqs[i]
        BY <2>6, <4>1 DEF Joins
      <4> HIDE DEF s
      <4> QED BY <3>2, <4>2, <4>3
    <3>4. CASE ~(i < m)
      BY <3>2, <3>4
    <3> QED BY <3>3, <3>4
  <2>8. Joins(seqs, m, s)
    <3>1. DOMAIN s = 1..m /\ s = [i \in DOMAIN s |-> s[i]]
      OBVIOUS
    <3> HIDE DEF s
    <3> QED BY <2>7, <3>1 DEF Joins
  <2> QED BY <2>3, <2>8
<1>2. last \notin bad
  BY <1>1
<1> QED BY <1>2

\* Sequences of a set put together are a sequence of the set.
LEMMA FlattenedSequences ==
    ASSUME NEW S, NEW seqs \in Seq(Seq(S)) PROVE FlattenSeq(seqs) \in Seq(S)
<1> DEFINE n == Len(seqs)
           joined == CHOOSE j : Joins(seqs, n, j)
           bad == {k \in 0..n : k # 0 /\ joined[k] \notin Seq(S)}
<1>1. n \in Nat /\ \A i \in 1..n : seqs[i] \in Seq(S)
  OBVIOUS
<1>2. Joins(seqs, n, joined)
  <2> HIDE DEF n
  <2> QED BY <1>1, JoinsExist
<1>3. \A i \in 1..n : joined[i] = IF i = 1 THEN seqs[i] ELSE joined[i - 1] \o seqs[i]
  <2> HIDE DEF n, joined
  <2> QED BY <1>2 DEF Joins
<1>4. FlattenSeq(seqs) = IF n = 0 THEN seqs ELSE joined[n]
  BY DEF FlattenSeq, Joins
<1> HIDE DEF joined, n
<1>5. ASSUME bad # {} PROVE FALSE
  <2> DEFINE m == Min(bad)
  <2>1. bad \in SUBSET (0..n)
    OBVIOUS
  <2>2. m \in bad /\ \A k \in bad : m <= k
    <3> HIDE DEF bad
    <3> QED BY <1>1, <1>5, <2>1, LeastPosition
  <2> HIDE DEF m
  <2>3. m \in 1..n /\ joined[m] \notin Seq(S)
    BY <1>1, <2>2
  <2>4. m # 1
    BY <1>1, <1>3, <2>3
  <2>5. m - 1 \in 1..n /\ joined[m - 1] \in Seq(S)
    BY <1>1, <2>2, <2>3, <2>4
  <2>6. joined[m] = joined[m - 1] \o seqs[m] /\ seqs[m] \in Seq(S)
    BY <1>1, <1>3, <2>3, <2>4
  <2> QED BY <2>3, <2>5, <2>6
<1>6. n # 0 => joined[n] \in Seq(S)
  BY <1>1, <1>5
<1>7. n = 0 => seqs = <<>>
  BY DEF n
<1> QED BY <1>4, <1>6, <1>7

LEMMA ParsedIsASequence ==
    ASSUME NEW repositories \in Seq(Repository) PROVE Parse(repositories) \in Seq(Artifact)
<1> DEFINE Of(kind) == [i \in DOMAIN repositories |-> repositories[i][kind]]
<1>1. ASSUME NEW kind \in {"commits", "pulls", "issues"} PROVE FlattenSeq(Of(kind)) \in Seq(Artifact)
  <2>1. \A i \in DOMAIN repositories : repositories[i] \in Repository
    OBVIOUS
  <2>2. \A r \in Repository : r["commits"] \in Seq(Artifact) /\ r["pulls"] \in Seq(Artifact) /\ r["issues"] \in Seq(Artifact)
    <3> HIDE DEF Artifact
    <3> QED BY DEF Repository
  <2>3. Of(kind) \in Seq(Seq(Artifact))
    <3>1. DOMAIN repositories = 1..Len(repositories) /\ Len(repositories) \in Nat
      OBVIOUS
    <3>2. \A i \in DOMAIN repositories : repositories[i][kind] \in Seq(Artifact)
      BY <1>1, <2>1, <2>2
    <3> QED BY <3>1, <3>2
  <2> HIDE DEF Of
  <2> QED BY <2>3, FlattenedSequences
<1>2. Parse(repositories) = FlattenSeq(Of("commits")) \o FlattenSeq(Of("pulls")) \o FlattenSeq(Of("issues"))
  BY DEF Parse
<1>3. /\ FlattenSeq(Of("commits")) \in Seq(Artifact) /\ FlattenSeq(Of("pulls")) \in Seq(Artifact)
      /\ FlattenSeq(Of("issues")) \in Seq(Artifact)
  BY <1>1
<1> HIDE DEF Of
<1> QED BY <1>2, <1>3

\* What is left of a confidence after each year.
Decays(confidence, n, left) ==
    left = [k \in 0..n |-> IF k = 0 THEN confidence ELSE left[k - 1] \div 2]

\* The equation of the decay has a solution for every number of years.
LEMMA DecaysExist == ASSUME NEW confidence, NEW last \in Nat PROVE \E left : Decays(confidence, last, left)
<1> DEFINE bad == {k \in 0..last : ~\E left : Decays(confidence, k, left)}
<1>1. ASSUME bad # {} PROVE FALSE
  <2> DEFINE m == Min(bad)
  <2>1. bad \in SUBSET (0..last)
    OBVIOUS
  <2>2. m \in bad /\ \A k \in bad : m <= k
    <3> HIDE DEF bad
    <3> QED BY <1>1, <2>1, LeastPosition
  <2> HIDE DEF m
  <2>3. m \in 0..last /\ ~\E left : Decays(confidence, m, left)
    BY <2>2
  <2>4. m # 0
    <3> SUFFICES ASSUME m = 0 PROVE FALSE
      OBVIOUS
    <3>1. Decays(confidence, 0, [k \in 0..0 |-> confidence])
      BY DEF Decays
    <3> QED BY <2>3, <3>1
  <2>5. m - 1 \in 0..last /\ m - 1 \notin bad
    BY <2>2, <2>3, <2>4
  <2>6. PICK before : Decays(confidence, m - 1, before)
    BY <2>5
  <2> DEFINE s == [k \in 0..m |-> IF k < m THEN before[k] ELSE before[k - 1] \div 2]
  <2>7. ASSUME NEW k \in 0..m PROVE s[k] = IF k = 0 THEN confidence ELSE s[k - 1] \div 2
    <3>1. k # 0 => k - 1 \in 0..m /\ k - 1 < m
      BY <2>3
    <3>2. k # 0 => s[k - 1] = before[k - 1]
      BY <3>1
    <3>3. CASE k < m
      <4>1. k \in 0..(m - 1)
        BY <2>3, <3>3
      <4>2. s[k] = before[k]
        BY <3>3
      <4>3. before[k] = IF k = 0 THEN confidence ELSE before[k - 1] \div 2
        BY <2>6, <4>1 DEF Decays
      <4> HIDE DEF s
      <4> QED BY <3>2, <4>2, <4>3
    <3>4. CASE ~(k < m)
      <4>1. k = m /\ k # 0
        BY <2>3, <2>4, <3>4
      <4> QED BY <3>2, <4>1
    <3> QED BY <3>3, <3>4
  <2>8. Decays(confidence, m, s)
    <3>1. DOMAIN s = 0..m /\ s = [k \in DOMAIN s |-> s[k]]
      OBVIOUS
    <3> HIDE DEF s
    <3> QED BY <2>7, <3>1 DEF Decays
  <2> QED BY <2>3, <2>8
<1>2. last \notin bad
  BY <1>1
<1> QED BY <1>2

\* A confidence stays a number, however old it is.
LEMMA DecayedIsNat ==
    ASSUME NEW confidence \in Nat, NEW years \in Nat PROVE Decayed(confidence, years) \in Nat
<1> DEFINE left == CHOOSE l : Decays(confidence, years, l)
           bad == {k \in 0..years : left[k] \notin Nat}
<1>1. Decays(confidence, years, left)
  BY DecaysExist
<1>2. \A k \in 0..years : left[k] = IF k = 0 THEN confidence ELSE left[k - 1] \div 2
  <2> HIDE DEF left
  <2> QED BY <1>1 DEF Decays
<1>3. Decayed(confidence, years) = left[years]
  BY DEF Decayed, Decays
<1> HIDE DEF left
<1>4. ASSUME bad # {} PROVE FALSE
  <2> DEFINE m == Min(bad)
  <2>1. bad \in SUBSET (0..years)
    OBVIOUS
  <2>2. m \in bad /\ \A k \in bad : m <= k
    <3> HIDE DEF bad
    <3> QED BY <1>4, <2>1, LeastPosition
  <2> HIDE DEF m
  <2>3. m \in 0..years /\ left[m] \notin Nat
    BY <2>2
  <2>4. m # 0
    BY <1>2, <2>3
  <2>5. m - 1 \in 0..years /\ left[m - 1] \in Nat
    BY <2>2, <2>3, <2>4
  <2>6. left[m] = left[m - 1] \div 2
    BY <1>2, <2>3, <2>4
  <2> QED BY <2>3, <2>5, <2>6
<1>5. years \in 0..years /\ years \notin bad
  BY <1>4
<1> QED BY <1>3, <1>5

\* A summary lists no skill twice, whoever wrote it, and is at least a little complex.
LEMMA SummariesAreSound ==
    ASSUME NEW a \in Artifact, NEW summary \in Summaries(a)
    PROVE  Listed(summary.skills) /\ summary.complexity \in 1..5
<1>1. /\ a.mentions \in SkillList /\ a.hard \in Nat
      /\ \A answer \in a.llm : answer.skills \in SkillList /\ answer.complexity \in Int
  <2>1. a.mentions \in SkillList /\ a.hard \in Nat /\ a.llm \in SUBSET [skills : SkillList, complexity : Int]
    <3> HIDE DEF SkillList
    <3> QED BY DEF Artifact
  <2> HIDE DEF SkillList
  <2> QED BY <2>1
<1>2. ASSUME NEW x \in Int PROVE Max({1, Min({x, 5})}) \in 1..5
  <2> DEFINE m == Min({x, 5})
  <2>1. m \in Int /\ m <= 5
    BY LesserOfTwo
  <2> HIDE DEF m
  <2>2. Max({1, m}) = IF 1 >= m THEN 1 ELSE m
    BY <2>1, GreaterOfTwo
  <2>3. Max({1, m}) \in 1..5
    BY <2>1, <2>2
  <2> QED BY <2>3 DEF m
<1>3. \A names \in SkillList : Listed(names)
  <2>1. \A names \in Seq(STRING) : names \in Seq(Range(names))
    BY DEF Range
  <2> QED BY <2>1 DEF SkillList, Listed
<1>4. CASE summary = Heuristic(a)
  <2>1. summary.skills = a.mentions /\ summary.complexity = Complexity(a)
    BY <1>4 DEF Heuristic
  <2>2. Complexity(a) \in 1..5
    <3>1. 2 + a.hard \in Int
      BY <1>1
    <3>2. Max({1, Min({2 + a.hard, 5})}) \in 1..5
      <4> DEFINE x == 2 + a.hard
      <4> HIDE DEF x
      <4>1. x \in Int => Max({1, Min({x, 5})}) \in 1..5
        BY <1>2
      <4> QED BY <3>1, <4>1 DEF x
    <3> QED BY <3>2 DEF Complexity
  <2> QED BY <1>1, <1>3, <2>1, <2>2
<1>5. CASE summary # Heuristic(a)
  <2>1. PICK answer \in a.llm :
           summary = [skills |-> IF answer.skills = <<>> THEN a.mentions ELSE answer.skills,
                      complexity |-> Max({1, Min({answer.complexity, 5})})]
    BY <1>5 DEF Summaries
  <2>2. summary.skills \in {a.mentions, answer.skills} /\ summary.complexity = Max({1, Min({answer.complexity, 5})})
    BY <2>1
  <2> QED BY <1>1, <1>2, <1>3, <2>2
<1> QED BY <1>4, <1>5

LEMMA ContributionIsNat ==
    ASSUME NEW a \in Artifact, NEW complexity \in Nat PROVE Contribution(a, complexity) \in Nat
<1> DEFINE score == (SourceWeight[a.type] * complexity) \div (5 * Normaliser)
           kept == Decayed(score, a.years)
<1>1. a.type \in DOMAIN SourceWeight /\ a.years \in Nat
  BY DEF Artifact
<1>2. SourceWeight[a.type] \in Nat
  BY <1>1 DEF SourceWeight
<1>3. 5 * Normaliser \in Nat \ {0}
  BY EvidenceAssumption
<1>4. score \in Nat
  <2> DEFINE w == SourceWeight[a.type]
  <2>1. w \in Nat
    BY <1>2
  <2> HIDE DEF w
  <2>2. w * complexity \in Nat
    BY <2>1
  <2> DEFINE p == w * complexity
             q == 5 * Normaliser
  <2>3. p \in Nat /\ q \in Nat \ {0}
    BY <1>3, <2>2
  <2> HIDE DEF p, q
  <2>4. p \div q \in Nat
    BY <2>3, QuotientIsNat
  <2> QED BY <2>4 DEF p, q, w
<1> HIDE DEF score
<1>5. kept \in Nat
  BY <1>1, <1>4, DecayedIsNat
<1> HIDE DEF kept
<1>6. Clip(kept) \in Nat
  <2> DEFINE m == Min({kept, Unit})
  <2>1. m \in Nat
    BY <1>5, LesserOfTwo DEF Unit
  <2> HIDE DEF m
  <2>2. Max({0, m}) \in Nat
    BY <2>1, GreaterOfTwo
  <2> QED BY <2>2 DEF Clip, m
<1> QED BY <1>6 DEF Contribution, kept, score

LEMMA ParsedArtifacts ==
    ASSUME NEW d \in Developers
    PROVE  /\ Parse(GitHub[d]) \in Seq(Artifacts)
           /\ \A a \in Artifacts : \A summary \in Summaries(a) :
                 Listed(summary.skills) /\ Contribution(a, summary.complexity) \in Nat
<1> DEFINE parsed(e) == Parse(GitHub[e])
<1>1. ASSUME NEW e \in Developers
      PROVE  parsed(e) \in Seq(Range(parsed(e))) /\ Range(parsed(e)) \subseteq Artifact
  <2>1. parsed(e) \in Seq(Artifact)
    BY GitHubAssumption, ParsedIsASequence
  <2> HIDE DEF parsed
  <2> QED BY <2>1 DEF Range
<1>2. Artifacts = UNION {Range(parsed(e)) : e \in Developers}
  BY DEF Artifacts
<1> HIDE DEF parsed
<1>3. Artifacts \subseteq Artifact
  BY <1>1, <1>2
<1>4. Range(parsed(d)) \subseteq Artifacts
  BY <1>2
<1>5. parsed(d) \in Seq(Artifacts)
  BY <1>1, <1>4
<1>6. ASSUME NEW a \in Artifacts, NEW summary \in Summaries(a)
      PROVE  Listed(summary.skills) /\ Contribution(a, summary.complexity) \in Nat
  <2>1. a \in Artifact
    BY <1>3
  <2>2. Listed(summary.skills) /\ summary.complexity \in 1..5
    BY <2>1, SummariesAreSound
  <2>3. summary.complexity \in Nat
    BY <2>2
  <2> QED BY <2>1, <2>2, <2>3, ContributionIsNat
<1> QED BY <1>5, <1>6 DEF parsed

(* What the actions do to the task in hand *)

LEMMA NewExecution ==
    ASSUME NEW kind \in {"sync", "fanout", "index"}, NEW d \in Developers, NEW step \in Stages(kind)
    PROVE  LET t == Execution(kind, d, step)
           IN  /\ DOMAIN t = {"kind", "dev", "at", "todo", "fetched", "message", "skills", "complexity", "id", "seen"}
               /\ t.kind = kind /\ t.dev = d /\ t.at = step /\ t.todo = <<>> /\ t.fetched = {}
               /\ Listed(t.skills) /\ t.message = NoMessage
<1>1. Listed(<<>>)
  BY DEF Listed, IsInjective, Range
<1> QED BY <1>1 DEF Execution

\* A step of w leaves what the others execute alone.
Only(w) == DOMAIN task' = Workers /\ \A v \in Workers \ {w} : task'[v] = task[v]

\* An execution that goes on: of the same kind, for the same developer and message.
Continues(t, u) ==
    IsExecution(u) /\ u.kind = t.kind /\ u.dev = t.dev /\ u.message = t.message

LEMMA WorkersTasks ==
    ASSUME Shapes, NEW w \in Workers, Executing(w) PROVE IsExecution(task[w])
BY DEF Shapes, IsResting, Idle, Unreported, Executing

LEMMA TaskAfter ==
    ASSUME Shapes, NEW w \in Workers, NEW u, task' = [task EXCEPT ![w] = u]
    PROVE  Only(w) /\ task'[w] = u
BY DEF Shapes, Only

LEMMA StartMoves ==
    ASSUME Shapes, NEW w \in Workers, Start(w)
    PROVE  /\ Only(w) /\ Continues(task[w], task'[w])
           /\ task'[w].at = "fetch" /\ task[w].kind \in {"sync", "fanout"}
<1> DEFINE t == task[w]
           u == [t EXCEPT !.at = "fetch"]
<1>1. IsExecution(t) /\ t.at = "start"
  BY WorkersTasks DEF Start, At, Executing
<1>2. Only(w) /\ task'[w] = u
  BY TaskAfter DEF Start, Goto
<1> HIDE DEF t
<1>3. t.kind \in {"sync", "fanout"}
  BY <1>1 DEF Formed, IsExecution, Stages, Indexing
<1>4. Continues(t, u) /\ u.at = "fetch"
  BY <1>1, <1>3 DEF Formed, IsExecution, Continues, Stages
<1> QED BY <1>2, <1>3, <1>4 DEF t

LEMMA FetchMoves ==
    ASSUME Shapes, NEW w \in Workers, Fetch(w)
    PROVE  /\ Only(w) /\ Continues(task[w], task'[w])
           /\ task'[w].fetched = {a.hash : a \in Texts(task'[w].todo)}
           /\ \/ task[w].kind = "sync" /\ task'[w].at = "check"
              \/ task[w].kind = "fanout" /\ task'[w].at = "enqueue"
<1> DEFINE t == task[w]
           step == IF t.kind = "sync" THEN "check" ELSE "enqueue"
           todo == Parse(GitHub[t.dev])
           hashes == {a.hash : a \in Texts(todo)}
           u == [t EXCEPT !.at = step, !.todo = todo, !.fetched = hashes]
<1>1. IsExecution(t) /\ t.at = "fetch"
  BY WorkersTasks DEF Fetch, At, Executing
<1>2. Only(w) /\ task'[w] = u
  <2>1. task' = [task EXCEPT ![w] = u]
    BY Zenon DEF Fetch
  <2> HIDE DEF u
  <2> QED BY <2>1, TaskAfter
<1>3. todo \in Seq(Artifacts)
  BY <1>1, ParsedArtifacts DEF Formed, IsExecution
<1> HIDE DEF t, todo, hashes
<1>4. t.kind \in {"sync", "fanout"}
  BY <1>1 DEF Formed, IsExecution, Stages, Indexing
<1>5. Continues(t, u) /\ u.at = step /\ u.fetched = hashes /\ u.todo = todo
  BY <1>1, <1>3, <1>4 DEF Formed, IsExecution, Continues, Stages, Indexing
<1> QED BY <1>2, <1>4, <1>5 DEF t, hashes

LEMMA EnqueueMoves ==
    ASSUME Shapes, NEW w \in Workers, Enqueue(w)
    PROVE  /\ Only(w) /\ Continues(task[w], task'[w]) /\ task'[w].at = "enqueue" /\ task[w].kind = "fanout"
           /\ queue \subseteq queue' /\ \A m \in queue' : IsMessage(m)
<1> DEFINE t == task[w]
           u == [t EXCEPT !.todo = Tail(t.todo)]
           sent == {[Message("index", t.dev, a) EXCEPT !.sync = t.message.sync] :
                       a \in {Head(t.todo)} \cap Texts(t.todo)}
<1>1. IsExecution(t) /\ t.at = "enqueue" /\ t.todo # <<>>
  BY WorkersTasks DEF Enqueue, At, Executing
<1>2. Only(w) /\ task'[w] = u /\ queue' = queue \cup sent
  BY TaskAfter DEF Enqueue
<1> HIDE DEF t
<1>3. t.kind = "fanout"
  BY <1>1 DEF Formed, IsExecution, Stages, Indexing
<1>4. Head(t.todo) \in Artifacts /\ Tail(t.todo) \in Seq(Artifacts)
  BY <1>1 DEF Formed, IsExecution
<1>5. Continues(t, u) /\ u.at = "enqueue"
  BY <1>1, <1>3, <1>4 DEF Formed, IsExecution, Continues
<1>6. ASSUME NEW m \in sent PROVE IsMessage(m)
  <2>1. PICK a \in {Head(t.todo)} \cap Texts(t.todo) :
           m = [Message("index", t.dev, a) EXCEPT !.sync = t.message.sync]
    BY DEF sent
  <2>2. a \in Artifacts /\ ~a.blank /\ t.dev \in Developers
    BY <1>1, <1>4, <2>1 DEF Texts, Formed, IsExecution
  <2> QED BY <2>1, <2>2 DEF Message, IsMessage
<1> HIDE DEF u, sent
<1>7. \A m \in queue : IsMessage(m)
  BY DEF Shapes
<1> QED BY <1>2, <1>3, <1>5, <1>6, <1>7 DEF t

LEMMA EnqueuedMoves ==
    ASSUME Shapes, NEW w \in Workers, Enqueued(w)
    PROVE  Only(w) /\ Continues(task[w], task'[w]) /\ task'[w].at = "mark" /\ task[w].kind = "fanout"
<1> DEFINE t == task[w]
           u == [t EXCEPT !.at = "mark"]
<1>1. IsExecution(t) /\ t.at = "enqueue"
  BY WorkersTasks DEF Enqueued, At, Executing
<1>2. Only(w) /\ task'[w] = u
  BY TaskAfter DEF Enqueued, Goto
<1> HIDE DEF t
<1>3. t.kind = "fanout"
  BY <1>1 DEF Formed, IsExecution, Stages, Indexing
<1>4. Continues(t, u) /\ u.at = "mark"
  BY <1>1, <1>3 DEF Formed, IsExecution, Continues, Stages
<1> QED BY <1>2, <1>3, <1>4 DEF t

LEMMA SequenceOver ==
    ASSUME NEW S, NEW T, NEW s \in Seq(S), \A i \in 1..Len(s) : s[i] \in T
    PROVE  s \in Seq(T)
OBVIOUS

LEMMA TailIsListed ==
    ASSUME NEW s, Listed(s), s # <<>>
    PROVE  /\ Listed(Tail(s)) /\ Head(s) \in Range(s) /\ Head(s) \notin Range(Tail(s))
           /\ Range(Tail(s)) \subseteq Range(s)
<1>1. /\ Len(s) \in Nat \ {0} /\ DOMAIN s = 1..Len(s)
      /\ Tail(s) \in Seq(Range(s)) /\ DOMAIN Tail(s) = 1..(Len(s) - 1)
      /\ \A i \in 1..(Len(s) - 1) : Tail(s)[i] = s[i + 1] /\ i + 1 \in 1..Len(s) /\ i + 1 # 1
      /\ Head(s) = s[1] /\ 1 \in 1..Len(s)
  BY DEF Listed
<1>2. \A i, j \in 1..Len(s) : s[i] = s[j] => i = j
  BY <1>1 DEF Listed, IsInjective
<1> DEFINE r == Tail(s)
<1> HIDE DEF r
<1>3. \A i, j \in 1..(Len(s) - 1) : r[i] = r[j] => i = j
  BY <1>1, <1>2 DEF r
<1>4. r \in Seq(Range(r))
  <2>1. r \in Seq(Range(s)) /\ DOMAIN r = 1..(Len(s) - 1) /\ Len(s) - 1 \in Nat
    BY <1>1 DEF r
  <2>2. Len(r) = Len(s) - 1 /\ \A i \in 1..Len(r) : r[i] \in Range(r)
    BY <2>1 DEF Range
  <2> QED BY <2>1, <2>2, SequenceOver
<1>5. Listed(r)
  BY <1>1, <1>3, <1>4 DEF Listed, IsInjective, r
<1>6. Range(r) \subseteq Range(s)
  BY <1>1 DEF Range, r
<1>7. s[1] \in Range(s) /\ s[1] \notin Range(r)
  BY <1>1, <1>2 DEF Range, r
<1> QED BY <1>1, <1>5, <1>6, <1>7 DEF r

\* Whoever is at work on an artifact belongs to a sync or to the task of that artifact.
LEMMA IndexingKinds ==
    ASSUME NEW t, Formed(t), t.at \in Indexing
    PROVE  t.kind \in {"sync", "index"} /\ Indexing \subseteq Stages(t.kind)
BY DEF Formed, IsExecution, Stages, Indexing

\* Check skips the artifact, or goes on to insert it with the skills of one of its summaries.
LEMMA CheckMoves ==
    ASSUME Shapes, NEW w \in Workers, Check(w)
    PROVE  /\ Only(w) /\ Continues(task[w], task'[w]) /\ task'[w].fetched = task[w].fetched
           /\ task[w].at = "check" /\ task[w].todo # <<>>
           /\ LET a == Head(task[w].todo)
              IN  \/ /\ a.blank \/ Indexed(w, a)
                     /\ task'[w].at = "check" /\ task'[w].todo = Tail(task[w].todo)
                  \/ /\ ~Indexed(w, a) /\ task'[w].at = "insert" /\ task'[w].todo = task[w].todo
                     /\ Contribution(a, task'[w].complexity) \in Nat
<1> DEFINE t == task[w]
           a == Head(t.todo)
<1>1. IsExecution(t) /\ t.at = "check" /\ t.todo # <<>>
  BY WorkersTasks DEF Check, At, Executing
<1>2. t.kind \in {"sync", "index"} /\ Indexing \subseteq Stages(t.kind)
  BY <1>1, IndexingKinds DEF IsExecution, Indexing
<1>3. a \in Artifacts /\ Tail(t.todo) \in Seq(Artifacts)
  BY <1>1 DEF Formed, IsExecution
<1>4. CASE a.blank \/ Indexed(w, a)
  <2> DEFINE u == [t EXCEPT !.todo = Tail(t.todo)]
  <2>1. Only(w) /\ task'[w] = u
    <3>1. task' = [task EXCEPT ![w] = u]
      BY <1>4 DEF Check
    <3> HIDE DEF u
    <3> QED BY <3>1, TaskAfter
  <2> HIDE DEF t, a
  <2>2. Continues(t, u) /\ u.fetched = t.fetched /\ u.at = "check" /\ u.todo = Tail(t.todo)
    BY <1>1, <1>3 DEF Formed, IsExecution, Continues
  <2> QED BY <1>1, <1>4, <2>1, <2>2 DEF t, a
<1>5. CASE ~(a.blank \/ Indexed(w, a))
  <2>1. PICK summary \in Summaries(a) :
           task' = [task EXCEPT ![w].at = "insert", ![w].skills = summary.skills,
                                ![w].complexity = summary.complexity]
    BY <1>5 DEF Check
  <2> DEFINE names == summary.skills
             complexity == summary.complexity
             u == [t EXCEPT !.at = "insert", !.skills = names, !.complexity = complexity]
  <2>2. Only(w) /\ task'[w] = u
    <3>1. task' = [task EXCEPT ![w] = u]
      BY <2>1, Zenon
    <3> HIDE DEF u
    <3> QED BY <3>1, TaskAfter
  <2>3. Listed(names) /\ Contribution(a, complexity) \in Nat
    <3>1. t.dev \in Developers
      BY <1>1 DEF Formed, IsExecution
    <3> HIDE DEF t, a
    <3> QED BY <1>3, <3>1, ParsedArtifacts
  <2> HIDE DEF t, a, names, complexity
  <2>4. /\ Continues(t, u) /\ u.fetched = t.fetched /\ u.at = "insert" /\ u.todo = t.todo
        /\ u.complexity = complexity
    BY <1>1, <1>2, <2>3 DEF Formed, IsExecution, Continues, Indexing
  <2> HIDE DEF u
  <2> QED BY <1>1, <1>5, <2>2, <2>3, <2>4 DEF t, a
<1> QED BY <1>4, <1>5

\* After a row comes the first skill of the artifact, or the next artifact.
LEMMA NextRowMoves ==
    ASSUME NEW t, Formed(t), t.at \in Indexing, t.todo # <<>>
    PROVE  LET u == NextRow(t)
           IN  /\ Continues(t, u) /\ u.fetched = t.fetched /\ u.id = t.id /\ u.skills = t.skills
               /\ u.complexity = t.complexity
               /\ \/ t.skills = <<>> /\ u.at = "check" /\ u.todo = Tail(t.todo)
                  \/ t.skills # <<>> /\ u.at = "read" /\ u.todo = t.todo
<1>1. t.kind \in {"sync", "index"} /\ Indexing \subseteq Stages(t.kind)
  BY IndexingKinds
<1>2. Tail(t.todo) \in Seq(Artifacts)
  BY DEF Formed, IsExecution
<1>3. CASE t.skills = <<>>
  <2> DEFINE u == [t EXCEPT !.at = "check", !.todo = Tail(t.todo)]
  <2>1. NextRow(t) = u
    BY <1>3 DEF NextRow
  <2>2. Continues(t, u) /\ u.fetched = t.fetched /\ u.id = t.id /\ u.skills = t.skills /\ u.at = "check"
        /\ u.todo = Tail(t.todo) /\ u.complexity = t.complexity
    BY <1>1, <1>2 DEF Formed, IsExecution, Continues, Indexing
  <2> QED BY <1>3, <2>1, <2>2
<1>4. CASE t.skills # <<>>
  <2> DEFINE u == [t EXCEPT !.at = "read"]
  <2>1. NextRow(t) = u
    BY <1>4 DEF NextRow
  <2>2. /\ u.at = "read" /\ u.kind = t.kind /\ u.dev = t.dev /\ u.message = t.message
        /\ u.fetched = t.fetched /\ u.id = t.id /\ u.skills = t.skills /\ u.todo = t.todo
        /\ DOMAIN u = DOMAIN t /\ u.complexity = t.complexity
    BY DEF Formed
  <2> HIDE DEF u
  <2>3. Formed(u)
    BY <1>1, <2>2 DEF Formed, Indexing
  <2>4. Continues(t, u)
    BY <1>4, <2>2, <2>3 DEF IsExecution, Continues
  <2> QED BY <1>4, <2>1, <2>2, <2>4
<1> QED BY <1>3, <1>4

OnlyWork(w) == /\ DOMAIN work' = Workers /\ \A v \in Workers \ {w} : work'[v] = work[v]
               /\ IsWork(work'[w])

\* What follows a row of w: the next artifact, or the next skill of this one.
GoesOn(t, u) ==
    /\ Continues(t, u) /\ u.fetched = t.fetched /\ u.complexity = t.complexity
    /\ \/ u.skills = <<>> /\ u.at = "check" /\ u.todo = Tail(t.todo)
       \/ u.skills # <<>> /\ u.at = "read" /\ u.todo = t.todo

\* The artifacts of a hash in the graph; a row is numbered with how many there are.
Numbered(h) == {a \in graph.artifacts : a.id[1] = h}

LEMMA InsertMoves ==
    ASSUME Shapes, NEW w \in Workers, Insert(w)
    PROVE  /\ Only(w) /\ OnlyWork(w) /\ GoesOn(task[w], task'[w]) /\ task'[w].skills = task[w].skills
           /\ task[w].at = "insert"
           /\ \E row : /\ row.hash = Hash(w) /\ row.id[1] = Hash(w) /\ row.dev = task[w].dev
                       /\ row.id = <<Hash(w), Cardinality(Numbered(Hash(w)))>> /\ task'[w].id = row.id
                       /\ work'[w].rows = work[w].rows \cup {row}
                       /\ work'[w].records = work[w].records /\ work'[w].links = work[w].links
<1> DEFINE t == task[w]
           id == <<Hash(w), Cardinality({a \in graph.artifacts : a.id[1] = Hash(w)})>>
           row == [id |-> id, hash |-> Hash(w), dev |-> t.dev]
           v == [t EXCEPT !.id = row.id]
           x == [work[w] EXCEPT !.rows = work[w].rows \cup {row}]
<1>1. IsExecution(t) /\ t.at = "insert" /\ t.todo # <<>>
  BY WorkersTasks DEF Insert, At, Executing, Formed, IsExecution
<1>2. task' = [task EXCEPT ![w] = NextRow(v)] /\ work' = [work EXCEPT ![w] = x]
  BY DEF Insert
<1>3. /\ id[1] = Hash(w) /\ row.id = id /\ row.hash = Hash(w) /\ row.dev = t.dev
      /\ id = <<Hash(w), Cardinality(Numbered(Hash(w)))>>
  BY DEF Numbered
<1> HIDE DEF id, row
<1>4. OnlyWork(w) /\ x.rows = work[w].rows \cup {row} /\ x.records = work[w].records /\ x.links = work[w].links
      /\ work'[w] = x
  BY <1>2 DEF OnlyWork, Shapes, IsWork
<1> HIDE DEF t
<1>5. /\ IsExecution(v) /\ v.at = "insert" /\ v.kind = t.kind /\ v.dev = t.dev /\ v.message = t.message
      /\ v.fetched = t.fetched /\ v.skills = t.skills /\ v.todo = t.todo /\ v.id = row.id
      /\ v.complexity = t.complexity
  BY <1>1 DEF Formed, IsExecution
<1> DEFINE u == NextRow(v)
<1>6. Only(w) /\ task'[w] = u
  <2> HIDE DEF u
  <2> QED BY <1>2, TaskAfter DEF u
<1> HIDE DEF v
<1>9. Formed(v) /\ v.at \in Indexing /\ v.todo # <<>>
  BY <1>1, <1>5 DEF IsExecution, Indexing
<1>7. /\ Continues(v, u) /\ u.fetched = v.fetched /\ u.id = v.id /\ u.skills = v.skills
      /\ u.complexity = v.complexity
      /\ \/ v.skills = <<>> /\ u.at = "check" /\ u.todo = Tail(v.todo)
         \/ v.skills # <<>> /\ u.at = "read" /\ u.todo = v.todo
  BY <1>9, NextRowMoves
<1> HIDE DEF u, x
<1>8. GoesOn(t, u) /\ u.skills = t.skills /\ u.id = row.id
  BY <1>1, <1>5, <1>7 DEF GoesOn, Continues
<1> QED BY <1>1, <1>3, <1>4, <1>6, <1>8 DEF t

LEMMA ReadSkillMoves ==
    ASSUME Shapes, NEW w \in Workers, ReadSkill(w)
    PROVE  /\ Only(w) /\ Continues(task[w], task'[w]) /\ task'[w].fetched = task[w].fetched
           /\ task[w].at = "read" /\ task'[w].at = "write" /\ task'[w].todo = task[w].todo
           /\ task'[w].skills = task[w].skills /\ task'[w].id = task[w].id
           /\ task'[w].complexity = task[w].complexity
           /\ task'[w].seen = EntryOf(Records(w), Key(w))
<1> DEFINE t == task[w]
           seen == EntryOf(Records(w), Key(w))
           u == [t EXCEPT !.at = "write", !.seen = seen]
<1>1. IsExecution(t) /\ t.at = "read" /\ t.todo # <<>> /\ t.skills # <<>>
  BY WorkersTasks DEF ReadSkill, At, Executing, Formed, IsExecution
<1>2. t.kind \in {"sync", "index"} /\ Indexing \subseteq Stages(t.kind)
  BY <1>1, IndexingKinds DEF IsExecution, Indexing
<1>3. Only(w) /\ task'[w] = u
  <2>1. task' = [task EXCEPT ![w] = u]
    BY DEF ReadSkill
  <2> HIDE DEF u
  <2> QED BY <2>1, TaskAfter
<1> HIDE DEF t, seen
<1>4. /\ Continues(t, u) /\ u.fetched = t.fetched /\ u.at = "write" /\ u.todo = t.todo
      /\ u.skills = t.skills /\ u.id = t.id /\ u.seen = seen /\ u.complexity = t.complexity
  BY <1>1, <1>2 DEF Formed, IsExecution, Continues, Indexing
<1> HIDE DEF u
<1> QED BY <1>1, <1>3, <1>4 DEF t, seen

LEMMA WriteSkillMoves ==
    ASSUME Shapes, NEW w \in Workers, WriteSkill(w)
    PROVE  /\ Only(w) /\ OnlyWork(w) /\ GoesOn(task[w], task'[w]) /\ task'[w].skills = Tail(task[w].skills)
           /\ task[w].at = "write" /\ task'[w].id = task[w].id
           /\ work'[w].rows = work[w].rows
           /\ \E worth : work'[w].records =
                            WithEntry(work[w].records, Key(w), Accumulate(task[w].seen, worth))
           /\ work'[w].links = work[w].links
                                 \cup {[dev |-> task[w].dev, skill |-> Key(w)[2], id |-> task[w].id]}
<1> DEFINE t == task[w]
           worth == Contribution(Head(t.todo), t.complexity)
           records == WithEntry(work[w].records, Key(w), Accumulate(t.seen, worth))
           links_ == work[w].links \cup {[dev |-> t.dev, skill |-> Key(w)[2], id |-> t.id]}
           v == [t EXCEPT !.skills = Tail(t.skills)]
           x == [work[w] EXCEPT !.records = records, !.links = links_]
<1>1. IsExecution(t) /\ t.at = "write" /\ t.todo # <<>> /\ t.skills # <<>>
  BY WorkersTasks DEF WriteSkill, At, Executing, Formed, IsExecution
<1>2. task' = [task EXCEPT ![w] = NextRow(v)] /\ work' = [work EXCEPT ![w] = x]
  <2>1. task' = [task EXCEPT ![w] = NextRow(v)]
    BY DEF WriteSkill
  <2>2. work' = [work EXCEPT ![w] = x]
    BY DEF WriteSkill
  <2> QED BY <2>1, <2>2
<1> HIDE DEF records, links_
<1>3. OnlyWork(w) /\ x.rows = work[w].rows /\ x.records = records /\ x.links = links_ /\ work'[w] = x
  BY <1>2 DEF OnlyWork, Shapes, IsWork
<1> HIDE DEF t
<1>4. Listed(Tail(t.skills))
  BY <1>1, TailIsListed DEF Formed, IsExecution
<1>5. /\ v.at = "write" /\ v.kind = t.kind /\ v.dev = t.dev /\ v.message = t.message
      /\ v.fetched = t.fetched /\ v.skills = Tail(t.skills) /\ v.todo = t.todo /\ v.id = t.id
      /\ DOMAIN v = DOMAIN t /\ v.complexity = t.complexity
  BY <1>1 DEF Formed, IsExecution
<1> DEFINE u == NextRow(v)
<1>6. Only(w) /\ task'[w] = u
  <2> HIDE DEF u, v
  <2> QED BY <1>2, TaskAfter DEF u
<1> HIDE DEF v
<1>7. Formed(v) /\ v.at \in Indexing /\ v.todo # <<>>
  BY <1>1, <1>4, <1>5 DEF Formed, IsExecution, Indexing
<1>8. /\ Continues(v, u) /\ u.fetched = v.fetched /\ u.id = v.id /\ u.skills = v.skills
      /\ u.complexity = v.complexity
      /\ \/ v.skills = <<>> /\ u.at = "check" /\ u.todo = Tail(v.todo)
         \/ v.skills # <<>> /\ u.at = "read" /\ u.todo = v.todo
  BY <1>7, NextRowMoves
<1> HIDE DEF u, x
<1>9. GoesOn(t, u) /\ u.skills = Tail(t.skills) /\ u.id = t.id
  BY <1>1, <1>5, <1>8 DEF GoesOn, Continues
<1>10. records = WithEntry(work[w].records, Key(w), Accumulate(t.seen, worth))
  BY DEF records
<1> HIDE DEF worth
<1> QED BY <1>1, <1>3, <1>6, <1>9, <1>10 DEF t, links_

LEMMA CommitMoves ==
    ASSUME Shapes, NEW w \in Workers, Commit(w)
    PROVE  /\ Only(w) /\ OnlyWork(w) /\ work'[w] = NoWork
           /\ task[w].at = "check" /\ task[w].todo = <<>>
           /\ \/ task[w].kind = "index" /\ task'[w] = Idle
              \/ /\ task[w].kind = "sync" /\ Continues(task[w], task'[w])
                 /\ task'[w].at = "mark" /\ task'[w].fetched = task[w].fetched
<1> DEFINE t == task[w]
           u == IF t.kind = "sync" THEN [t EXCEPT !.at = "mark"] ELSE Idle
<1>1. IsExecution(t) /\ t.at = "check" /\ t.todo = <<>>
  BY WorkersTasks DEF Commit, At, Executing
<1>2. Only(w) /\ task'[w] = u
  <2>1. task' = [task EXCEPT ![w] = u]
    BY DEF Commit
  <2> HIDE DEF u
  <2> QED BY <2>1, TaskAfter
<1>3. OnlyWork(w) /\ work'[w] = NoWork
  BY DEF Commit, OnlyWork, Shapes, IsWork, NoWork
<1> HIDE DEF t
<1>4. t.kind \in {"sync", "index"}
  BY <1>1, IndexingKinds DEF IsExecution, Indexing
<1>5. ASSUME t.kind = "sync" PROVE Continues(t, u) /\ u.at = "mark" /\ u.fetched = t.fetched
  <2> DEFINE v == [t EXCEPT !.at = "mark"]
  <2>1. u = v
    BY <1>5
  <2>2. Continues(t, v) /\ v.at = "mark" /\ v.fetched = t.fetched
    BY <1>1, <1>5 DEF Formed, IsExecution, Continues, Stages
  <2> QED BY <2>1, <2>2
<1>6. t.kind # "sync" => u = Idle
  OBVIOUS
<1> HIDE DEF u
<1> QED BY <1>1, <1>2, <1>3, <1>4, <1>5, <1>6 DEF t

LEMMA MarkSyncedMoves ==
    ASSUME Shapes, NEW w \in Workers, MarkSynced(w)
    PROVE  Only(w) /\ task'[w] = Idle /\ IsExecution(task[w]) /\ task[w].kind # "index"
<1>1. IsExecution(task[w]) /\ task[w].at = "mark"
  BY WorkersTasks DEF MarkSynced, At, Executing
<1>2. Only(w) /\ task'[w] = Idle
  BY TaskAfter DEF MarkSynced
<1>3. task[w].kind # "index"
  BY <1>1 DEF Formed, IsExecution, Stages, Indexing
<1> QED BY <1>1, <1>2, <1>3

LEMMA SetErrorMoves ==
    ASSUME Shapes, NEW w \in Workers, SetError(w)
    PROVE  Only(w) /\ task'[w] = Idle /\ IsExecution(task[w]) /\ task[w].kind = "sync"
<1>1. IsExecution(task[w]) /\ task[w].at = "failed"
  BY WorkersTasks DEF SetError, At, Executing
<1>2. Only(w) /\ task'[w] = Idle
  BY TaskAfter DEF SetError
<1>3. task[w].kind = "sync"
  BY <1>1 DEF Formed, IsExecution, Stages, Indexing
<1> QED BY <1>1, <1>2, <1>3

\* An exception is raised in an execution only.
LEMMA FailuresRaise ==
    ASSUME NEW w \in Workers, Fail(w) \/ ConstraintViolated(w) \/ DeadlockVictim(w)
    PROVE  Executing(w) /\ Raise(w)
<1>1. CASE Fail(w)
  BY <1>1 DEF Fail
<1>2. CASE ConstraintViolated(w)
  BY <1>2 DEF ConstraintViolated, Unique, Executing, At
<1>3. CASE DeadlockVictim(w)
  <2>1. WaitsFor(w) # {} /\ Raise(w)
    BY <1>3 DEF DeadlockVictim
  <2> QED BY <2>1 DEF WaitsFor, Executing, At
<1> QED BY <1>1, <1>2, <1>3

LEMMA RaiseMoves ==
    ASSUME Shapes, NEW w \in Workers, Executing(w), Raise(w)
    PROVE  /\ Only(w) /\ OnlyWork(w) /\ work'[w] = NoWork /\ IsExecution(task[w])
           /\ \/ IsResting(task'[w])
              \/ task[w].kind = "sync" /\ Continues(task[w], task'[w]) /\ task'[w].at = "failed"
           /\ queue \subseteq queue' /\ \A m \in queue' : IsMessage(m)
           /\ task[w].kind # "sync" =>
                 \E n \in queue' \cup dead' : n.artifact = task[w].message.artifact
                                              /\ n.dev = task[w].message.dev
<1> DEFINE t == task[w]
           m == t.message
           u == AfterFailure(t)
           again == [m EXCEPT !.retries = m.retries + 1]
<1>1. IsExecution(t)
  BY WorkersTasks
<1>2. Only(w) /\ task'[w] = u
  <2>1. task' = [task EXCEPT ![w] = u]
    BY DEF Raise
  <2> HIDE DEF u
  <2> QED BY <2>1, TaskAfter
<1>3. OnlyWork(w) /\ work'[w] = NoWork
  BY DEF Raise, OnlyWork, Shapes, IsWork, NoWork
<1>4. \/ m = NoMessage /\ queue' = queue
      \/ m # NoMessage /\ queue' = queue \cup {again}
      \/ m # NoMessage /\ queue' = queue /\ dead' = dead \cup {m}
  BY DEF Raise, broker
<1> HIDE DEF t
<1>5. IF t.kind = "sync" THEN m = NoMessage ELSE IsMessage(m)
  BY <1>1 DEF Formed, IsExecution
<1>6. ASSUME t.kind = "sync", t.at # "failed" PROVE Continues(t, u) /\ u.at = "failed"
  <2> DEFINE v == [t EXCEPT !.at = "failed"]
  <2>1. u = v
    BY <1>6 DEF AfterFailure
  <2>2. Continues(t, v) /\ v.at = "failed"
    BY <1>1, <1>6 DEF Formed, IsExecution, Continues, Stages
  <2> QED BY <2>1, <2>2
<1>7. t.kind # "sync" \/ t.at = "failed" => IsResting(u)
  BY DEF AfterFailure, IsResting
<1> HIDE DEF u, m
<1>8. IsMessage(m) => /\ IsMessage(again) /\ again.artifact = m.artifact /\ again.dev = m.dev
                      /\ m # NoMessage
  BY DEF IsMessage, NoMessage
<1> HIDE DEF again
<1>9. \A x \in queue : IsMessage(x)
  BY DEF Shapes
<1>10. queue \subseteq queue' /\ \A x \in queue' : IsMessage(x)
  BY <1>4, <1>5, <1>8, <1>9
<1>11. t.kind # "sync" => \E n \in queue' \cup dead' : n.artifact = m.artifact /\ n.dev = m.dev
  BY <1>4, <1>5, <1>8
<1> QED BY <1>1, <1>2, <1>3, <1>6, <1>7, <1>10, <1>11 DEF t, m

LEMMA CrashMoves ==
    ASSUME Shapes, NEW w \in Workers, Crash(w)
    PROVE  /\ Only(w) /\ OnlyWork(w) /\ work'[w] = NoWork /\ IsExecution(task[w]) /\ IsResting(task'[w])
           /\ queue \subseteq queue' /\ \A m \in queue' : IsMessage(m)
           /\ task[w].kind # "sync" => task[w].message \in queue'
<1> DEFINE t == task[w]
           u == IF w \in ApiTasks THEN [Idle EXCEPT !.at = "lost"] ELSE Idle
<1>1. IsExecution(t)
  BY WorkersTasks DEF Crash, Executing
<1>2. Only(w) /\ task'[w] = u
  <2>1. task' = [task EXCEPT ![w] = u]
    BY DEF Crash
  <2> HIDE DEF u
  <2> QED BY <2>1, TaskAfter
<1>3. OnlyWork(w) /\ work'[w] = NoWork
  BY DEF Crash, OnlyWork, Shapes, IsWork, NoWork
<1>4. queue' = queue \cup Unacked(t.message)
  BY DEF Crash
<1>5. IsResting(u)
  BY DEF IsResting, Idle
<1> HIDE DEF t, u
<1>6. IF t.kind = "sync" THEN t.message = NoMessage ELSE IsMessage(t.message) /\ t.message # NoMessage
  BY <1>1 DEF Formed, IsExecution, IsMessage, NoMessage
<1>7. \A x \in queue : IsMessage(x)
  BY DEF Shapes
<1>8. /\ queue \subseteq queue' /\ \A x \in queue' : IsMessage(x)
      /\ t.kind # "sync" => t.message \in queue'
  BY <1>4, <1>6, <1>7 DEF Unacked
<1> QED BY <1>1, <1>2, <1>3, <1>5, <1>8 DEF t

LEMMA ConnectMoves ==
    ASSUME Shapes, NEW w \in Workers, NEW d \in Developers, Connect(w, d)
    PROVE  /\ Only(w) /\ task[w].at \in {"idle", "unreported"} /\ IsExecution(task'[w])
           /\ task'[w].at = "start" /\ task'[w].kind = "sync"
<1> DEFINE t == Execution("sync", d, "start")
<1>1. Only(w) /\ task'[w] = t /\ task[w].at \in {"idle", "unreported"}
  <2>1. task' = [task EXCEPT ![w] = t]
    BY DEF Connect
  <2> HIDE DEF t
  <2> QED BY <2>1, TaskAfter DEF Connect, At
<1>2. /\ DOMAIN t = {"kind", "dev", "at", "todo", "fetched", "message", "skills", "complexity", "id", "seen"}
      /\ t.kind = "sync" /\ t.dev = d /\ t.at = "start" /\ t.todo = <<>> /\ Listed(t.skills)
      /\ t.message = NoMessage
  BY NewExecution DEF Stages
<1> HIDE DEF t
<1>3. IsExecution(t)
  BY <1>2 DEF Formed, IsExecution, Stages
<1> QED BY <1>1, <1>2, <1>3

LEMMA SyncAllMoves ==
    ASSUME Shapes, SyncAllDevelopers
    PROVE  queue \subseteq queue' /\ \A m \in queue' : IsMessage(m)
<1>1. ASSUME NEW d \in Syncable PROVE IsMessage(Message("fanout", d, NoArtifact))
  BY DEF Message, IsMessage, Syncable
<1>2. PICK sent \in SUBSET Syncable : queue' = queue \cup {Message("fanout", d, NoArtifact) : d \in sent}
  BY DEF SyncAllDevelopers
<1> QED BY <1>1, <1>2 DEF Shapes

LEMMA TakeMoves ==
    ASSUME Shapes, NEW w \in Workers, NEW m \in queue, Take(w, m)
    PROVE  /\ Only(w) /\ task[w].at = "idle" /\ IsExecution(task'[w])
           /\ task'[w].message = m /\ queue' = queue \ {m}
           /\ \/ m.kind = "fanout" /\ task'[w].at = "start"
              \/ /\ m.kind = "index" /\ task'[w].at = "check"
                 /\ m.artifact \in Texts(task'[w].todo)
<1>1. IsMessage(m)
  BY DEF Shapes
<1>2. queue' = queue \ {m} /\ task[w].at = "idle"
  BY DEF Take, At
<1>3. CASE m.kind = "fanout"
  <2> DEFINE e == Execution("fanout", m.dev, "start")
             t == [e EXCEPT !.message = m]
  <2>1. Only(w) /\ task'[w] = t
    <3>1. task' = [task EXCEPT ![w] = t]
      BY <1>3 DEF Take
    <3> HIDE DEF t
    <3> QED BY <3>1, TaskAfter
  <2>2. /\ DOMAIN e = {"kind", "dev", "at", "todo", "fetched", "message", "skills", "complexity", "id", "seen"}
        /\ e.kind = "fanout" /\ e.dev = m.dev /\ e.at = "start" /\ e.todo = <<>> /\ Listed(e.skills)
    <3>1. m.dev \in Developers
      BY <1>1 DEF IsMessage
    <3> QED BY <3>1, NewExecution DEF Stages
  <2> HIDE DEF e
  <2>3. IsExecution(t) /\ t.message = m /\ t.at = "start"
    <3>1. t.kind = "fanout" /\ t.dev = m.dev /\ t.at = "start" /\ t.todo = <<>> /\ Listed(t.skills)
          /\ DOMAIN t = DOMAIN e /\ t.message = m
      BY <2>2
    <3> HIDE DEF t
    <3>2. m.dev \in Developers
      BY <1>1 DEF IsMessage
    <3> QED BY <1>1, <1>3, <2>2, <3>1, <3>2 DEF Formed, IsExecution, Stages
  <2> HIDE DEF t
  <2> QED BY <1>2, <1>3, <2>1, <2>3
<1>4. CASE m.kind = "index"
  <2> DEFINE e == Execution("index", m.dev, "check")
             todo == <<m.artifact>>
             t == [e EXCEPT !.message = m, !.todo = todo]
  <2>1. Only(w) /\ task'[w] = t
    <3>1. task' = [task EXCEPT ![w] = t]
      BY <1>4 DEF Take
    <3> HIDE DEF t
    <3> QED BY <3>1, TaskAfter
  <2>2. /\ DOMAIN e = {"kind", "dev", "at", "todo", "fetched", "message", "skills", "complexity", "id", "seen"}
        /\ e.kind = "index" /\ e.dev = m.dev /\ e.at = "check" /\ Listed(e.skills)
    <3>1. m.dev \in Developers
      BY <1>1 DEF IsMessage
    <3> QED BY <3>1, NewExecution DEF Stages, Indexing
  <2>3. todo \in Seq(Artifacts) /\ m.artifact \in Texts(todo)
    BY <1>1, <1>4 DEF IsMessage, Texts, Range
  <2> HIDE DEF e, todo
  <2>4. IsExecution(t) /\ t.message = m /\ t.at = "check" /\ t.todo = todo
    <3>1. t.kind = "index" /\ t.dev = m.dev /\ t.at = "check" /\ t.todo = todo /\ Listed(t.skills)
          /\ DOMAIN t = DOMAIN e /\ t.message = m
      BY <2>2
    <3> HIDE DEF t
    <3>2. m.dev \in Developers
      BY <1>1 DEF IsMessage
    <3> QED BY <1>1, <1>4, <2>2, <2>3, <3>1, <3>2 DEF Formed, IsExecution, Stages, Indexing
  <2> HIDE DEF t
  <2> QED BY <1>2, <1>4, <2>1, <2>3, <2>4
<1> QED BY <1>1, <1>3, <1>4 DEF IsMessage

----------------------------------------------------------------------------
(* The shapes *)

LEMMA ShapesInit == Init => Shapes
BY DEF Init, Shapes, IsResting, Idle, IsWork, NoWork

\* A step keeps the shapes when it leaves one worker resting or executing.
LEMMA ShapesKept ==
    ASSUME Shapes, NEW w \in Workers, Only(w), IsResting(task'[w]) \/ IsExecution(task'[w]),
           work' = work \/ OnlyWork(w), \A m \in queue' : IsMessage(m)
    PROVE  Shapes'
<1>1. \A v \in Workers : IsResting(task'[v]) \/ IsExecution(task'[v])
  BY DEF Shapes, Only
<1>2. DOMAIN work' = Workers /\ \A v \in Workers : IsWork(work'[v])
  BY DEF Shapes, OnlyWork
<1> QED BY <1>1, <1>2 DEF Shapes, Only

LEMMA QueueKept == ASSUME Shapes, queue' = queue PROVE \A m \in queue' : IsMessage(m)
BY DEF Shapes

LEMMA ShapesNext == Shapes /\ [Next]_vars => Shapes'
<1> SUFFICES ASSUME Shapes, [Next]_vars PROVE Shapes'
  OBVIOUS
<1>1. ASSUME NEW w \in Workers, NEW d \in Developers, Connect(w, d) PROVE Shapes'
  <2>1. work' = work /\ queue' = queue
    BY <1>1 DEF Connect, broker
  <2> QED BY <1>1, <2>1, ConnectMoves, QueueKept, ShapesKept
<1>2. CASE SyncAllDevelopers
  <2>1. UNCHANGED <<task, work>> /\ \A m \in queue' : IsMessage(m)
    BY <1>2, SyncAllMoves DEF SyncAllDevelopers, running
  <2> QED BY <2>1 DEF Shapes
<1>3. ASSUME NEW w \in Workers, NEW m \in queue, Take(w, m) PROVE Shapes'
  <2>1. work' = work /\ \A n \in queue' : IsMessage(n)
    BY <1>3, TakeMoves DEF Take, Shapes
  <2> QED BY <1>3, <2>1, TakeMoves, ShapesKept
<1>4. ASSUME NEW w \in Workers, Start(w) PROVE Shapes'
  <2>1. work' = work /\ queue' = queue
    BY <1>4 DEF Start, broker
  <2> QED BY <1>4, <2>1, StartMoves, QueueKept, ShapesKept DEF Continues
<1>5. ASSUME NEW w \in Workers, Fetch(w) PROVE Shapes'
  <2>1. work' = work /\ queue' = queue
    BY <1>5 DEF Fetch, broker
  <2> QED BY <1>5, <2>1, FetchMoves, QueueKept, ShapesKept DEF Continues
<1>6. ASSUME NEW w \in Workers, Enqueue(w) PROVE Shapes'
  <2>1. work' = work
    BY <1>6 DEF Enqueue
  <2> QED BY <1>6, <2>1, EnqueueMoves, ShapesKept DEF Continues
<1>7. ASSUME NEW w \in Workers, Enqueued(w) PROVE Shapes'
  <2>1. work' = work /\ queue' = queue
    BY <1>7 DEF Enqueued, broker
  <2> QED BY <1>7, <2>1, EnqueuedMoves, QueueKept, ShapesKept DEF Continues
<1>8. ASSUME NEW w \in Workers, Check(w) PROVE Shapes'
  <2>1. work' = work /\ queue' = queue
    BY <1>8 DEF Check, broker
  <2> QED BY <1>8, <2>1, CheckMoves, QueueKept, ShapesKept DEF Continues
<1>9. ASSUME NEW w \in Workers, Insert(w) PROVE Shapes'
  <2>1. queue' = queue
    BY <1>9 DEF Insert, broker
  <2> QED BY <1>9, <2>1, InsertMoves, QueueKept, ShapesKept DEF GoesOn, Continues
<1>10. ASSUME NEW w \in Workers, ReadSkill(w) PROVE Shapes'
  <2>1. work' = work /\ queue' = queue
    BY <1>10 DEF ReadSkill, broker
  <2> QED BY <1>10, <2>1, ReadSkillMoves, QueueKept, ShapesKept DEF Continues
<1>11. ASSUME NEW w \in Workers, WriteSkill(w) PROVE Shapes'
  <2>1. queue' = queue
    BY <1>11 DEF WriteSkill, broker
  <2> QED BY <1>11, <2>1, WriteSkillMoves, QueueKept, ShapesKept DEF GoesOn, Continues
<1>12. ASSUME NEW w \in Workers, Commit(w) PROVE Shapes'
  <2>1. queue' = queue
    BY <1>12 DEF Commit, broker
  <2>2. IsResting(task'[w]) \/ IsExecution(task'[w])
    BY <1>12, CommitMoves DEF Continues, IsResting
  <2> QED BY <1>12, <2>1, <2>2, CommitMoves, QueueKept, ShapesKept
<1>13. ASSUME NEW w \in Workers, MarkSynced(w) PROVE Shapes'
  <2>1. work' = work /\ queue' = queue
    BY <1>13 DEF MarkSynced, broker
  <2> QED BY <1>13, <2>1, MarkSyncedMoves, QueueKept, ShapesKept DEF IsResting
<1>14. ASSUME NEW w \in Workers, SetError(w) PROVE Shapes'
  <2>1. work' = work /\ queue' = queue
    BY <1>14 DEF SetError, broker
  <2> QED BY <1>14, <2>1, SetErrorMoves, QueueKept, ShapesKept DEF IsResting
<1>15. ASSUME NEW w \in Workers, Fail(w) \/ ConstraintViolated(w) \/ DeadlockVictim(w) PROVE Shapes'
  <2>1. Executing(w) /\ Raise(w)
    BY <1>15, FailuresRaise
  <2>2. IsResting(task'[w]) \/ IsExecution(task'[w])
    BY <2>1, RaiseMoves DEF Continues, IsResting
  <2> QED BY <2>1, <2>2, RaiseMoves, ShapesKept
<1>16. ASSUME NEW w \in Workers, Crash(w) PROVE Shapes'
  BY <1>16, CrashMoves, ShapesKept
<1>17. CASE Search \/ UNCHANGED vars
  BY <1>17 DEF Search, Shapes, vars, running, broker
<1> QED BY <1>1, <1>2, <1>3, <1>4, <1>5, <1>6, <1>7, <1>8, <1>9, <1>10, <1>11, <1>12, <1>13, <1>14,
           <1>15, <1>16, <1>17 DEF Next, Step

----------------------------------------------------------------------------
(* What a worker owes *)

Hashed(S) == {x.hash : x \in S}

\* What an execution has to index: the artifact of its message, or all that it fetched.
Owes(t) == IF t.kind = "index" THEN {t.message.artifact.hash} ELSE t.fetched

\* The artifact about to be inserted has no row yet in this transaction; the one in hand has one.
HandIsOpen(w) ==
    /\ task[w].at = "insert" => \A row \in work[w].rows : row.hash # Hash(w)
    /\ task[w].at \in {"read", "write"} =>
          \E row \in work[w].rows : row.hash = Hash(w) /\ row.id = task[w].id /\ row.dev = task[w].dev

\* What is owed is still to come or has a row, and all of it is committed when a sync reports.
DebtIsKnown(w) ==
    /\ task[w].at \in Indexing => Owes(task[w]) \subseteq Hashed(Texts(task[w].todo)) \cup Hashed(Rows(w))
    /\ task[w].at = "mark" /\ task[w].kind = "sync" => task[w].fetched \subseteq Hashed(evidence)

Honest == \A w \in Workers : HandIsOpen(w) /\ DebtIsKnown(w)

LEMMA HonestInit == Init => Honest
BY DEF Init, Honest, HandIsOpen, DebtIsKnown, Idle, Indexing

LEMMA TextsAhead ==
    ASSUME NEW S, NEW s \in Seq(S), s # <<>>
    PROVE  Texts(s) \subseteq Texts(Tail(s)) \cup {Head(s)}
<1>1. /\ Len(s) \in Nat \ {0} /\ DOMAIN s = 1..Len(s) /\ DOMAIN Tail(s) = 1..(Len(s) - 1)
      /\ \A i \in 1..(Len(s) - 1) : Tail(s)[i] = s[i + 1]
      /\ Head(s) = s[1]
  OBVIOUS
<1>2. \A i \in 1..Len(s) : s[i] = Head(s) \/ s[i] \in Range(Tail(s))
  <2>1. ASSUME NEW i \in 1..Len(s), i # 1 PROVE s[i] \in Range(Tail(s))
    <3>1. i - 1 \in 1..(Len(s) - 1) /\ s[i] = Tail(s)[i - 1]
      BY <1>1, <2>1
    <3> QED BY <1>1, <3>1 DEF Range
  <2> QED BY <1>1, <2>1
<1> QED BY <1>1, <1>2 DEF Texts, Range

\* Once the artifact in hand has a row, what is owed lies behind it or ahead.
LEMMA DebtMoves ==
    ASSUME NEW S, NEW s \in Seq(S), s # <<>>, NEW R, NEW D, D \subseteq Hashed(Texts(s)) \cup Hashed(R),
           Head(s).blank \/ Head(s).hash \in Hashed(R)
    PROVE  D \subseteq Hashed(Texts(Tail(s))) \cup Hashed(R)
<1>1. \A a \in Texts(s) : a \in Texts(Tail(s)) \/ a.hash \in Hashed(R)
  BY TextsAhead DEF Texts
<1> QED BY <1>1 DEF Hashed

\* A step is honest when its worker is, and evidence stays.
LEMMA HonestKept ==
    ASSUME Shapes, Honest, NEW w \in Workers, Only(w), work' = work \/ OnlyWork(w),
           evidence \subseteq evidence', HandIsOpen(w)', DebtIsKnown(w)'
    PROVE  Honest'
<1> SUFFICES ASSUME NEW v \in Workers \ {w} PROVE HandIsOpen(v)' /\ DebtIsKnown(v)'
  BY DEF Honest
<1>1. task'[v] = task[v] /\ work'[v] = work[v]
  BY DEF Only, OnlyWork
<1>2. HandIsOpen(v) /\ DebtIsKnown(v)
  BY DEF Honest
<1>3. HandIsOpen(v)'
  BY <1>1, <1>2 DEF HandIsOpen, Hash
<1>4. Hashed(Rows(v)) \subseteq Hashed(Rows(v))' /\ Hashed(evidence) \subseteq Hashed(evidence)'
  BY <1>1 DEF Hashed, Rows
<1>5. DebtIsKnown(v)'
  BY <1>1, <1>2, <1>4 DEF DebtIsKnown, Hashed
<1> QED BY <1>3, <1>5

\* Outside of a transaction nothing is in hand.
LEMMA HonestElsewhere ==
    ASSUME NEW w \in Workers, task'[w].at \notin Indexing, task'[w].at # "mark" \/ task'[w].kind # "sync"
    PROVE  HandIsOpen(w)' /\ DebtIsKnown(w)'
BY DEF HandIsOpen, DebtIsKnown, Indexing

LEMMA FetchIsHonest ==
    ASSUME Shapes, Honest, NEW w \in Workers, Fetch(w) PROVE Honest'
<1>1. UNCHANGED <<work, evidence>>
  BY DEF Fetch, database
<1>2. /\ Only(w) /\ Continues(task[w], task'[w]) /\ task'[w].fetched = Hashed(Texts(task'[w].todo))
      /\ \/ task'[w].kind = "sync" /\ task'[w].at = "check"
         \/ task'[w].kind = "fanout" /\ task'[w].at = "enqueue"
  BY FetchMoves DEF Continues, Hashed
<1>3. HandIsOpen(w)' /\ DebtIsKnown(w)'
  BY <1>2 DEF HandIsOpen, DebtIsKnown, Owes, Indexing
<1> QED BY <1>1, <1>2, <1>3, HonestKept

LEMMA TakeIsHonest ==
    ASSUME Shapes, Honest, NEW w \in Workers, NEW m \in queue, Take(w, m) PROVE Honest'
<1>1. UNCHANGED <<work, evidence>>
  BY DEF Take, database
<1>2. /\ Only(w) /\ IsExecution(task'[w]) /\ task'[w].message = m
      /\ \/ m.kind = "fanout" /\ task'[w].at = "start"
         \/ /\ m.kind = "index" /\ task'[w].at = "check"
            /\ m.artifact \in Texts(task'[w].todo)
  BY TakeMoves
<1>3. m.kind = "index" => task'[w].kind = "index"
  <2>1. IsMessage(m)
    BY DEF Shapes
  <2> QED BY <1>2, <2>1 DEF IsExecution, Formed, NoMessage, IsMessage
<1>4. HandIsOpen(w)' /\ DebtIsKnown(w)'
  <2>1. CASE task'[w].at = "start"
    BY <2>1, HonestElsewhere DEF Indexing
  <2>2. CASE m.kind = "index" /\ task'[w].at = "check" /\ m.artifact \in Texts(task'[w].todo)
    <3>1. Owes(task'[w]) = {m.artifact.hash}
      BY <1>2, <1>3, <2>2 DEF Owes
    <3>2. m.artifact.hash \in Hashed(Texts(task'[w].todo))
      BY <2>2 DEF Hashed
    <3> QED BY <2>2, <3>1, <3>2 DEF HandIsOpen, DebtIsKnown
  <2> QED BY <1>2, <2>1, <2>2
<1> QED BY <1>1, <1>2, <1>4, HonestKept

LEMMA CheckIsHonest ==
    ASSUME Shapes, Honest, NEW w \in Workers, Check(w) PROVE Honest'
<1> DEFINE t == task[w]
           u == task'[w]
           a == Head(t.todo)
<1>1. UNCHANGED <<work, evidence>>
  BY DEF Check, database
<1>2. /\ Only(w) /\ Continues(t, u) /\ u.fetched = t.fetched /\ t.at = "check" /\ t.todo # <<>>
      /\ \/ /\ a.blank \/ Indexed(w, a)
            /\ u.at = "check" /\ u.todo = Tail(t.todo)
         \/ ~Indexed(w, a) /\ u.at = "insert" /\ u.todo = t.todo
  BY CheckMoves
<1>3. Owes(u) = Owes(t) /\ Owes(t) \subseteq Hashed(Texts(t.todo)) \cup Hashed(Rows(w))
  BY <1>2 DEF Owes, Continues, Honest, DebtIsKnown, Indexing
<1>4. Rows(w)' = Rows(w)
  BY <1>1 DEF Rows
<1>5. t.todo \in Seq(Artifacts)
  BY <1>2, WorkersTasks DEF IsExecution, Formed, Executing
<1>6. Indexed(w, a) <=> a.hash \in Hashed(Rows(w))
  BY DEF Indexed, Hashed
<1>7. Owes(u) \subseteq Hashed(Texts(u.todo)) \cup Hashed(Rows(w))
  <2>1. CASE u.todo = t.todo
    BY <1>3, <2>1
  <2>2. CASE (a.blank \/ Indexed(w, a)) /\ u.todo = Tail(t.todo)
    <3>1. Owes(t) \subseteq Hashed(Texts(Tail(t.todo))) \cup Hashed(Rows(w))
      BY <1>2, <1>3, <1>5, <1>6, <2>2, DebtMoves
    <3> QED BY <1>3, <2>2, <3>1
  <2> QED BY <1>2, <2>1, <2>2
<1>8. u.at = "insert" => \A row \in work[w].rows : row.hash # a.hash
  BY <1>2, <1>6 DEF Hashed, Rows
<1>9. HandIsOpen(w)'
  <2>1. u.at = "insert" => \A row \in work'[w].rows : row.hash # Head(u.todo).hash
    BY <1>1, <1>2, <1>8
  <2>2. u.at \notin {"read", "write"}
    BY <1>2
  <2> QED BY <2>1, <2>2 DEF HandIsOpen, Hash
<1>10. DebtIsKnown(w)'
  <2>1. u.at # "mark"
    BY <1>2
  <2> QED BY <1>4, <1>7, <2>1 DEF DebtIsKnown
<1> QED BY <1>1, <1>2, <1>9, <1>10, HonestKept

\* The artifact in hand has its row, so the execution may go on to its skills or leave it.
LEMMA GoingOnIsHonest ==
    ASSUME Shapes, Honest, NEW w \in Workers, Only(w), OnlyWork(w), GoesOn(task[w], task'[w]),
           task[w].at \in {"insert", "write"}, evidence' = evidence,
           work[w].rows \subseteq work'[w].rows,
           \E row \in work'[w].rows : row.hash = Hash(w) /\ row.id = task'[w].id /\ row.dev = task[w].dev
    PROVE  Honest'
<1> DEFINE t == task[w]
           u == task'[w]
<1>1. PICK row \in work'[w].rows : row.hash = Hash(w) /\ row.id = u.id /\ row.dev = t.dev
  OBVIOUS
<1>2. /\ Continues(t, u) /\ u.fetched = t.fetched
      /\ \/ u.skills = <<>> /\ u.at = "check" /\ u.todo = Tail(t.todo)
         \/ u.skills # <<>> /\ u.at = "read" /\ u.todo = t.todo
  BY DEF GoesOn
<1>3. Owes(u) = Owes(t) /\ Owes(t) \subseteq Hashed(Texts(t.todo)) \cup Hashed(Rows(w))
  BY <1>2 DEF Owes, Continues, Honest, DebtIsKnown, Indexing
<1>4. Hashed(Rows(w)) \subseteq Hashed(Rows(w)')
  BY DEF Hashed, Rows
<1>5. t.todo \in Seq(Artifacts) /\ t.todo # <<>>
  BY WorkersTasks DEF IsExecution, Formed, Executing
<1>6. Head(t.todo).hash \in Hashed(Rows(w)')
  BY <1>1 DEF Hash, Hashed, Rows
<1>7. Owes(u) \subseteq Hashed(Texts(u.todo)) \cup Hashed(Rows(w)')
  <2>1. Owes(t) \subseteq Hashed(Texts(t.todo)) \cup Hashed(Rows(w)')
    BY <1>3, <1>4
  <2>2. CASE u.todo = t.todo
    BY <1>3, <2>1, <2>2
  <2>3. CASE u.todo = Tail(t.todo)
    <3>1. Owes(t) \subseteq Hashed(Texts(Tail(t.todo))) \cup Hashed(Rows(w)')
      BY <1>5, <1>6, <2>1, DebtMoves
    <3> QED BY <1>3, <2>3, <3>1
  <2> QED BY <1>2, <2>2, <2>3
<1>8. HandIsOpen(w)'
  <2>1. u.at = "read" => row.hash = Head(u.todo).hash /\ row.dev = u.dev
    BY <1>1, <1>2 DEF Hash, Continues
  <2>2. u.at \in {"check", "read"}
    BY <1>2
  <2> QED BY <1>1, <2>1, <2>2 DEF HandIsOpen, Hash
<1>9. DebtIsKnown(w)'
  <2>1. u.at # "mark"
    BY <1>2
  <2>2. Hashed(Rows(w)') = Hashed(Rows(w))'
    BY DEF Hashed
  <2> QED BY <1>7, <2>1, <2>2 DEF DebtIsKnown
<1> QED BY <1>8, <1>9, HonestKept

LEMMA InsertIsHonest ==
    ASSUME Shapes, Honest, NEW w \in Workers, Insert(w) PROVE Honest'
<1>1. evidence' = evidence
  BY DEF Insert, database
<1>2. PICK row : /\ row.hash = Hash(w) /\ row.dev = task[w].dev /\ task'[w].id = row.id
                 /\ work'[w].rows = work[w].rows \cup {row}
  BY InsertMoves
<1> QED BY <1>1, <1>2, InsertMoves, GoingOnIsHonest

LEMMA WriteSkillIsHonest ==
    ASSUME Shapes, Honest, NEW w \in Workers, WriteSkill(w) PROVE Honest'
<1>1. evidence' = evidence
  BY DEF WriteSkill, database
<1>2. task[w].at = "write" /\ work'[w].rows = work[w].rows /\ task'[w].id = task[w].id
  BY WriteSkillMoves
<1>3. \E row \in work[w].rows : row.hash = Hash(w) /\ row.id = task[w].id /\ row.dev = task[w].dev
  BY <1>2 DEF Honest, HandIsOpen
<1> QED BY <1>1, <1>2, <1>3, WriteSkillMoves, GoingOnIsHonest

LEMMA ReadSkillIsHonest ==
    ASSUME Shapes, Honest, NEW w \in Workers, ReadSkill(w) PROVE Honest'
<1> DEFINE t == task[w]
           u == task'[w]
<1>1. UNCHANGED <<work, evidence>>
  BY DEF ReadSkill, database
<1>2. /\ Only(w) /\ Continues(t, u) /\ u.fetched = t.fetched
      /\ t.at = "read" /\ u.at = "write" /\ u.todo = t.todo /\ u.id = t.id
  BY ReadSkillMoves
<1>3. Owes(u) = Owes(t) /\ Owes(t) \subseteq Hashed(Texts(t.todo)) \cup Hashed(Rows(w))
  BY <1>2 DEF Owes, Continues, Honest, DebtIsKnown, Indexing
<1>4. \E row \in work[w].rows : row.hash = Head(t.todo).hash /\ row.id = t.id /\ row.dev = t.dev
  BY <1>2 DEF Honest, HandIsOpen, Hash
<1>5. HandIsOpen(w)'
  BY <1>1, <1>2, <1>4 DEF HandIsOpen, Hash, Continues
<1>6. Rows(w)' = Rows(w)
  BY <1>1 DEF Rows
<1>7. DebtIsKnown(w)'
  BY <1>2, <1>3, <1>6 DEF DebtIsKnown
<1> QED BY <1>1, <1>2, <1>5, <1>7, HonestKept

LEMMA CommitIsHonest ==
    ASSUME Shapes, Honest, NEW w \in Workers, Commit(w) PROVE Honest'
<1> DEFINE t == task[w]
           u == task'[w]
<1>1. evidence' = evidence \cup work[w].rows
  BY DEF Commit
<1>2. /\ Only(w) /\ OnlyWork(w) /\ t.at = "check" /\ t.todo = <<>>
      /\ \/ u = Idle
         \/ /\ t.kind = "sync" /\ Continues(t, u) /\ u.at = "mark" /\ u.fetched = t.fetched
  BY CommitMoves
<1>3. t.kind = "sync" => t.fetched \subseteq Hashed(evidence')
  <2>1. Texts(t.todo) = {}
    BY <1>2 DEF Texts, Range
  <2>2. t.kind = "sync" => t.fetched \subseteq Hashed(Texts(t.todo)) \cup Hashed(Rows(w))
    BY <1>2 DEF Honest, DebtIsKnown, Owes, Indexing
  <2> QED BY <1>1, <2>1, <2>2 DEF Hashed, Rows
<1>4. HandIsOpen(w)' /\ DebtIsKnown(w)'
  <2>1. CASE u = Idle
    <3>1. u.at = "idle"
      BY <2>1 DEF Idle
    <3> QED BY <3>1, HonestElsewhere DEF Indexing
  <2>2. CASE t.kind = "sync" /\ u.at = "mark" /\ u.fetched = t.fetched
    <3>1. Hashed(evidence') = Hashed(evidence)'
      BY DEF Hashed
    <3> QED BY <1>3, <2>2, <3>1 DEF HandIsOpen, DebtIsKnown, Indexing
  <2> QED BY <1>2, <2>1, <2>2
<1> QED BY <1>1, <1>2, <1>4, HonestKept

\* The execution that a step leaves at rest, or outside of a transaction, owes nothing.
LEMMA LeavingIsHonest ==
    ASSUME Shapes, Honest, NEW w \in Workers, Only(w), work' = work \/ OnlyWork(w), evidence \subseteq evidence',
           \/ IsResting(task'[w])
           \/ task'[w].at \in {"start", "fetch", "enqueue", "failed"}
           \/ task'[w].at = "mark" /\ task'[w].kind = "fanout"
    PROVE  Honest'
<1>1. task'[w].at \notin Indexing /\ (task'[w].at # "mark" \/ task'[w].kind # "sync")
  BY DEF IsResting, Idle, Unreported, Indexing
<1> QED BY <1>1, HonestElsewhere, HonestKept

LEMMA HonestNext == Shapes /\ Honest /\ [Next]_vars => Honest'
<1> SUFFICES ASSUME Shapes, Honest, [Next]_vars PROVE Honest'
  OBVIOUS
<1>1. ASSUME NEW w \in Workers, NEW d \in Developers, Connect(w, d) PROVE Honest'
  <2>1. UNCHANGED <<work, evidence>>
    BY <1>1 DEF Connect
  <2> QED BY <1>1, <2>1, ConnectMoves, LeavingIsHonest
<1>2. CASE SyncAllDevelopers \/ Search \/ UNCHANGED vars
  <2>1. UNCHANGED <<task, work, evidence>>
    BY <1>2 DEF SyncAllDevelopers, Search, vars, database, running
  <2> QED BY <2>1 DEF Honest, HandIsOpen, DebtIsKnown, Hash, Hashed, Rows
<1>3. ASSUME NEW w \in Workers, NEW m \in queue, Take(w, m) PROVE Honest'
  BY <1>3, TakeIsHonest
<1>4. ASSUME NEW w \in Workers, Start(w) PROVE Honest'
  <2>1. UNCHANGED <<work, evidence>>
    BY <1>4 DEF Start
  <2> QED BY <1>4, <2>1, StartMoves, LeavingIsHonest
<1>5. ASSUME NEW w \in Workers, Fetch(w) PROVE Honest'
  BY <1>5, FetchIsHonest
<1>6. ASSUME NEW w \in Workers, Enqueue(w) PROVE Honest'
  <2>1. UNCHANGED <<work, evidence>>
    BY <1>6 DEF Enqueue, database
  <2> QED BY <1>6, <2>1, EnqueueMoves, LeavingIsHonest
<1>7. ASSUME NEW w \in Workers, Enqueued(w) PROVE Honest'
  <2>1. UNCHANGED <<work, evidence>>
    BY <1>7 DEF Enqueued, database
  <2> QED BY <1>7, <2>1, EnqueuedMoves, LeavingIsHonest DEF Continues
<1>8. ASSUME NEW w \in Workers, Check(w) \/ Insert(w) \/ ReadSkill(w) \/ WriteSkill(w) \/ Commit(w)
      PROVE  Honest'
  BY <1>8, CheckIsHonest, InsertIsHonest, ReadSkillIsHonest, WriteSkillIsHonest, CommitIsHonest
<1>9. ASSUME NEW w \in Workers, MarkSynced(w) PROVE Honest'
  <2>1. UNCHANGED <<work, evidence>>
    BY <1>9 DEF MarkSynced
  <2> QED BY <1>9, <2>1, MarkSyncedMoves, LeavingIsHonest DEF IsResting
<1>10. ASSUME NEW w \in Workers, SetError(w) PROVE Honest'
  <2>1. UNCHANGED <<work, evidence>>
    BY <1>10 DEF SetError
  <2> QED BY <1>10, <2>1, SetErrorMoves, LeavingIsHonest DEF IsResting
<1>11. ASSUME NEW w \in Workers, Fail(w) \/ ConstraintViolated(w) \/ DeadlockVictim(w) PROVE Honest'
  <2>1. Executing(w) /\ Raise(w)
    BY <1>11, FailuresRaise
  <2>2. evidence' = evidence
    BY <2>1 DEF Raise, database
  <2>3. Only(w) /\ OnlyWork(w) /\ (IsResting(task'[w]) \/ task'[w].at = "failed")
    BY <2>1, RaiseMoves DEF IsResting
  <2> QED BY <2>2, <2>3, LeavingIsHonest
<1>12. ASSUME NEW w \in Workers, Crash(w) PROVE Honest'
  <2>1. evidence' = evidence
    BY <1>12 DEF Crash, database
  <2> QED BY <1>12, <2>1, CrashMoves, LeavingIsHonest
<1> QED BY <1>1, <1>2, <1>3, <1>4, <1>5, <1>6, <1>7, <1>8, <1>9, <1>10, <1>11, <1>12 DEF Next, Step

\* Executions and messages keep their shapes, and what a worker owes is never lost sight of.
THEOREM WorkersAreHonest == Spec => [](Shapes /\ Honest)
<1>1. Init => Shapes /\ Honest
  BY ShapesInit, HonestInit
<1>2. Shapes /\ Honest /\ [Next]_vars => (Shapes /\ Honest)'
  BY ShapesNext, HonestNext
<1> QED BY <1>1, <1>2, PTL DEF Spec

\* A sync that reports "done" has committed everything it fetched (sync_developer: mark_synced comes
\* after the session_scope of the artifacts), for any developers, artifacts, workers and faults.
THEOREM DoneAlwaysMeansIndexed == Spec => []DoneMeansIndexed
<1>1. Honest => DoneMeansIndexed
  BY DEF Honest, DebtIsKnown, DoneMeansIndexed, Hashed, At
<1> QED BY <1>1, WorkersAreHonest, PTL

----------------------------------------------------------------------------
(* Nothing is dropped *)

Kept(m) == \/ \E n \in Waiting' \cup dead' : n.artifact = m.artifact /\ n.dev = m.dev
           \/ \E row \in evidence' : row.hash = m.artifact.hash

\* The execution of an index task goes on, or ends where its artifact can be found.
LEMMA HandKeeps ==
    ASSUME Shapes, Shapes', Honest, [Next]_vars, NEW w \in Workers, IsExecution(task[w]), task[w].kind = "index"
    PROVE  Kept(task[w].message)
<1> DEFINE m == task[w].message
<1>1. IsMessage(m) /\ m # NoMessage /\ task[w].at \in Indexing
  BY DEF IsExecution, Formed, IsMessage, NoMessage, Stages
<1>2. ASSUME Continues(task[w], task'[w]) PROVE Kept(m)
  <2>1. task'[w].message = m /\ Executing(w)'
    BY <1>2 DEF Continues, IsExecution, Formed, Stages, Indexing, Executing
  <2>2. m \in Waiting'
    BY <1>1, <2>1 DEF Waiting, InHand
  <2> QED BY <2>2 DEF Kept
<1>3. ASSUME task'[w] = task[w] PROVE Kept(m)
  BY <1>2, <1>3 DEF Continues
<1>4. ASSUME NEW v \in Workers, Only(v), v # w PROVE Kept(m)
  BY <1>3, <1>4 DEF Only
<1>5. ASSUME NEW v \in Workers, NEW d \in Developers, Connect(v, d) PROVE Kept(m)
  <2>1. Only(v) /\ v # w
    BY <1>1, <1>5, ConnectMoves DEF Indexing
  <2> QED BY <1>4, <2>1
<1>6. CASE SyncAllDevelopers \/ Search \/ UNCHANGED vars
  BY <1>3, <1>6 DEF SyncAllDevelopers, Search, vars, running
<1>7. ASSUME NEW v \in Workers, NEW n \in queue, Take(v, n) PROVE Kept(m)
  <2>1. Only(v) /\ v # w
    BY <1>1, <1>7, TakeMoves DEF Indexing
  <2> QED BY <1>4, <2>1
<1>8. ASSUME NEW v \in Workers, Start(v) PROVE Kept(m)
  BY <1>2, <1>4, <1>8, StartMoves
<1>9. ASSUME NEW v \in Workers, Fetch(v) PROVE Kept(m)
  BY <1>2, <1>4, <1>9, FetchMoves
<1>10. ASSUME NEW v \in Workers, Enqueue(v) PROVE Kept(m)
  BY <1>2, <1>4, <1>10, EnqueueMoves
<1>11. ASSUME NEW v \in Workers, Enqueued(v) PROVE Kept(m)
  BY <1>2, <1>4, <1>11, EnqueuedMoves
<1>12. ASSUME NEW v \in Workers, Check(v) PROVE Kept(m)
  BY <1>2, <1>4, <1>12, CheckMoves
<1>13. ASSUME NEW v \in Workers, Insert(v) PROVE Kept(m)
  BY <1>2, <1>4, <1>13, InsertMoves DEF GoesOn
<1>14. ASSUME NEW v \in Workers, ReadSkill(v) PROVE Kept(m)
  BY <1>2, <1>4, <1>14, ReadSkillMoves
<1>15. ASSUME NEW v \in Workers, WriteSkill(v) PROVE Kept(m)
  BY <1>2, <1>4, <1>15, WriteSkillMoves DEF GoesOn
<1>16. ASSUME NEW v \in Workers, Commit(v) PROVE Kept(m)
  <2>1. CASE v # w
    BY <1>4, <1>16, <2>1, CommitMoves
  <2>2. CASE v = w
    <3>1. Texts(task[w].todo) = {} /\ evidence' = evidence \cup work[w].rows
      BY <1>16, <2>2, CommitMoves DEF Commit, Texts, Range
    <3>2. m.artifact.hash \in Hashed(Texts(task[w].todo)) \cup Hashed(Rows(w))
      BY <1>1 DEF Honest, DebtIsKnown, Owes
    <3>3. \E row \in evidence' : row.hash = m.artifact.hash
      BY <3>1, <3>2 DEF Hashed, Rows
    <3> QED BY <3>3 DEF Kept
  <2> QED BY <2>1, <2>2
<1>17. ASSUME NEW v \in Workers, MarkSynced(v) PROVE Kept(m)
  BY <1>4, <1>17, MarkSyncedMoves
<1>18. ASSUME NEW v \in Workers, SetError(v) PROVE Kept(m)
  BY <1>4, <1>18, SetErrorMoves
<1>19. ASSUME NEW v \in Workers, Fail(v) \/ ConstraintViolated(v) \/ DeadlockVictim(v) PROVE Kept(m)
  <2>1. Executing(v) /\ Raise(v)
    BY <1>19, FailuresRaise
  <2> QED BY <1>4, <2>1, RaiseMoves DEF Kept, Waiting
<1>20. ASSUME NEW v \in Workers, Crash(v) PROVE Kept(m)
  BY <1>4, <1>20, CrashMoves DEF Kept, Waiting
<1> QED BY <1>5, <1>6, <1>7, <1>8, <1>9, <1>10, <1>11, <1>12, <1>13, <1>14, <1>15, <1>16, <1>17, <1>18,
           <1>19, <1>20 DEF Next, Step

\* A message in the queue stays there until a worker has it in hand.
LEMMA QueueKeeps ==
    ASSUME Shapes, [Next]_vars, NEW m \in queue PROVE Kept(m)
<1>1. ASSUME m \in queue' PROVE Kept(m)
  BY <1>1 DEF Kept, Waiting
<1>2. ASSUME NEW v \in Workers, NEW n \in queue, Take(v, n) PROVE Kept(m)
  <2>1. queue' = queue \ {n} /\ IsExecution(task'[v]) /\ task'[v].message = n
    BY <1>2, TakeMoves
  <2>2. Executing(v)'
    BY <2>1 DEF IsExecution, Formed, Stages, Indexing, Executing
  <2>3. IsMessage(m)
    BY DEF Shapes
  <2>4. m = n => m \in Waiting'
    BY <2>1, <2>2, <2>3 DEF Waiting, InHand, IsMessage, NoMessage
  <2>5. CASE m = n
    BY <2>4, <2>5 DEF Kept
  <2> QED BY <1>1, <2>1, <2>5
<1>3. ASSUME NEW v \in Workers, NEW d \in Developers, Connect(v, d) PROVE queue' = queue
  BY <1>3 DEF Connect, broker
<1>4. CASE SyncAllDevelopers \/ Search \/ UNCHANGED vars
  <2>1. queue \subseteq queue'
    BY <1>4 DEF SyncAllDevelopers, Search, vars, broker
  <2> QED BY <1>1, <2>1
<1>5. ASSUME NEW v \in Workers, \/ Start(v) \/ Fetch(v) \/ Enqueued(v) \/ Check(v) \/ Insert(v) \/ ReadSkill(v)
                                \/ WriteSkill(v) \/ Commit(v) \/ MarkSynced(v) \/ SetError(v)
      PROVE queue' = queue
  BY <1>5 DEF Start, Fetch, Enqueued, Check, Insert, ReadSkill, WriteSkill, Commit, MarkSynced, SetError, broker
<1>6. ASSUME NEW v \in Workers, Enqueue(v) PROVE queue \subseteq queue'
  BY <1>6 DEF Enqueue
<1>7. ASSUME NEW v \in Workers, Fail(v) \/ ConstraintViolated(v) \/ DeadlockVictim(v) PROVE queue \subseteq queue'
  BY <1>7, FailuresRaise, RaiseMoves
<1>8. ASSUME NEW v \in Workers, Crash(v) PROVE queue \subseteq queue'
  BY <1>8 DEF Crash
<1> QED BY <1>1, <1>2, <1>3, <1>4, <1>5, <1>6, <1>7, <1>8 DEF Next, Step

\* No task of an artifact vanishes from the broker before its artifact is evidence or the task is
\* dead-lettered, whatever crashes and fails (task_acks_late, autoretry, DeadLetterTask.on_failure).
THEOREM NothingSilentlyDropped == Spec => NoSilentDrop
<1>1. ASSUME Shapes, Shapes', Honest, [Next]_vars, NEW m \in Waiting, m.kind = "index" PROVE Kept(m)
  <2>1. CASE m \in queue
    BY <1>1, <2>1, QueueKeeps
  <2>2. CASE m \in InHand
    <3>1. PICK w \in Workers : Executing(w) /\ m = task[w].message
      BY <2>2 DEF InHand
    <3>2. IsExecution(task[w])
      BY <1>1, <3>1, WorkersTasks
    <3>3. task[w].kind = "index"
      BY <1>1, <3>1, <3>2 DEF IsExecution, Formed, NoMessage
    <3> QED BY <1>1, <3>1, <3>2, <3>3, HandKeeps
  <2> QED BY <1>1, <2>1, <2>2 DEF Waiting
<1>2. Shapes /\ Shapes' /\ Honest /\ [Next]_vars =>
        [\A m \in Waiting : m.kind = "index" =>
           \/ \E n \in Waiting' \cup dead' : n.artifact = m.artifact /\ n.dev = m.dev
           \/ \E row \in evidence' : row.hash = m.artifact.hash]_vars
  BY <1>1 DEF Kept
<1> QED BY <1>2, WorkersAreHonest, PTL DEF Spec, NoSilentDrop

----------------------------------------------------------------------------
(* The story of the database *)

LinksTo(S, key) == {l \in S : <<l.dev, l.skill>> = key}
Backing(S, key) == Cardinality(LinksTo(S, key))

\* One row for an artifact; a link joins a row and a record; a record counts links.
Committed ==
    /\ \A r, q \in evidence : r.hash = q.hash => r = q
    /\ \A r \in evidence : r.id[1] = r.hash
    /\ IsFiniteSet(links)
    /\ \A l \in links : /\ <<l.dev, l.skill>> \in DOMAIN skills
                        /\ \E row \in evidence : row.id = l.id /\ row.dev = l.dev
    /\ \A key \in DOMAIN skills : skills[key].count \in 1..Backing(links, key)

\* The same of what a transaction has written, beside what is committed.
RowsAreNew(w) ==
    /\ \A r, q \in work[w].rows : r.hash = q.hash => r = q
    /\ \A r \in work[w].rows : r.id[1] = r.hash
    /\ \A r \in work[w].rows, q \in evidence : r.hash # q.hash

LinksAreOwn(w) ==
    /\ IsFiniteSet(work[w].links)
    /\ \A l \in work[w].links : /\ <<l.dev, l.skill>> \in DOMAIN work[w].records
                                /\ \E row \in work[w].rows : row.id = l.id /\ row.dev = l.dev

RecordsCount(w) ==
    \A key \in DOMAIN work[w].records :
        work[w].records[key].count \in 1..Backing(links \cup work[w].links, key)

\* What was read of a record is still backed when it is written, and the skills to come are not linked yet.
SkillIsAhead(w) ==
    /\ task[w].at = "write" => task[w].seen.count \in 0..Backing(links \cup work[w].links, Key(w))
    /\ task[w].at \in {"read", "write"} =>
          \A l \in work[w].links : l.id = task[w].id => l.skill \notin Range(task[w].skills)

Own(w) == RowsAreNew(w) /\ LinksAreOwn(w) /\ RecordsCount(w) /\ SkillIsAhead(w)

\* No artifact has rows in two transactions.
Apart == \A v, w \in Workers : v # w => \A r \in work[v].rows, q \in work[w].rows : r.hash # q.hash

Story == Committed /\ Apart /\ \A w \in Workers : Own(w)

LEMMA NothingIsFinite == IsFiniteSet({}) /\ DOMAIN <<>> = {}
BY FS_EmptySet

LEMMA StoryInit == Init => Story
<1> SUFFICES ASSUME Init PROVE Story
  OBVIOUS
<1>1. Committed
  BY NothingIsFinite DEF Init, Committed
<1>2. ASSUME NEW w \in Workers PROVE Own(w)
  <2>1. work[w] = [rows |-> {}, records |-> <<>>, links |-> {}] /\ task[w].at = "idle"
    BY DEF Init, NoWork, Idle
  <2> QED BY <2>1, NothingIsFinite DEF Own, RowsAreNew, LinksAreOwn, RecordsCount, SkillIsAhead
<1>3. Apart
  BY DEF Init, NoWork, Apart
<1> QED BY <1>1, <1>2, <1>3 DEF Story

\* More links back a record at least as well.
LEMMA BackingGrows ==
    ASSUME NEW S, NEW T, S \subseteq T, IsFiniteSet(T), NEW key
    PROVE  Backing(S, key) \in Nat /\ Backing(T, key) \in Nat /\ Backing(S, key) <= Backing(T, key)
<1>1. LinksTo(S, key) \subseteq LinksTo(T, key) /\ LinksTo(T, key) \subseteq T
  BY DEF LinksTo
<1>2. IsFiniteSet(LinksTo(T, key))
  BY <1>1, FS_Subset
<1>3. IsFiniteSet(LinksTo(S, key)) /\ Cardinality(LinksTo(S, key)) <= Cardinality(LinksTo(T, key))
  BY <1>1, <1>2, FS_Subset
<1> QED BY <1>2, <1>3, FS_CardinalityType DEF Backing

LEMMA RoomGrows ==
    ASSUME NEW low \in Nat, NEW a \in Nat, NEW b \in Nat, a <= b, NEW c \in low..a PROVE c \in low..b
OBVIOUS

LEMMA BackingOfOneMore ==
    ASSUME NEW S, IsFiniteSet(S), NEW l, l \notin S, NEW key, key = <<l.dev, l.skill>>
    PROVE  Backing(S \cup {l}, key) = Backing(S, key) + 1
<1>1. LinksTo(S \cup {l}, key) = LinksTo(S, key) \cup {l} /\ l \notin LinksTo(S, key)
  BY DEF LinksTo
<1>2. IsFiniteSet(LinksTo(S, key))
  <2>1. LinksTo(S, key) \subseteq S
    BY DEF LinksTo
  <2> QED BY <2>1, FS_Subset
<1> QED BY <1>1, <1>2, FS_AddElement DEF Backing

LEMMA LinksStayFinite ==
    ASSUME NEW S, NEW T, IsFiniteSet(S), IsFiniteSet(T) PROVE IsFiniteSet(S \cup T)
BY FS_Union

\* What others commit does not disturb a transaction.
LEMMA OthersKept ==
    ASSUME NEW v \in Workers, Own(v), task'[v] = task[v], work'[v] = work[v],
           links \subseteq links', IsFiniteSet(links'),
           \A r \in work[v].rows, q \in evidence' : r.hash # q.hash
    PROVE  Own(v)'
<1>1. RowsAreNew(v)' /\ LinksAreOwn(v)'
  BY DEF Own, RowsAreNew, LinksAreOwn
<1> DEFINE old(key) == Backing(links \cup work[v].links, key)
           new(key) == Backing(links' \cup work[v].links, key)
<1>2. ASSUME NEW key PROVE old(key) \in Nat /\ new(key) \in Nat /\ old(key) <= new(key)
  <2>1. IsFiniteSet(links' \cup work[v].links)
    BY LinksStayFinite DEF Own, LinksAreOwn
  <2> QED BY <2>1, BackingGrows
<1>3. \A key \in DOMAIN work[v].records : work[v].records[key].count \in 1..old(key)
  BY DEF Own, RecordsCount
<1>4. task[v].at = "write" => task[v].seen.count \in 0..old(Key(v))
  BY DEF Own, SkillIsAhead
<1>5. RecordsCount(v)'
  <2>1. ASSUME NEW key \in DOMAIN work[v].records PROVE work[v].records[key].count \in 1..new(key)
    <3> HIDE DEF old, new
    <3> QED BY <1>2, <1>3, RoomGrows
  <2> QED BY <2>1 DEF RecordsCount, Backing, LinksTo
<1>6. SkillIsAhead(v)'
  <2>1. ASSUME task[v].at = "write" PROVE task[v].seen.count \in 0..new(Key(v))
    <3> HIDE DEF old, new
    <3> QED BY <1>2, <1>4, <2>1, RoomGrows
  <2> QED BY <2>1 DEF Own, SkillIsAhead, Key, Backing, LinksTo
<1> QED BY <1>1, <1>5, <1>6 DEF Own

\* While the database and the other transactions stay, only what w has written matters.
LEMMA StoryOfOne ==
    ASSUME Story, NEW w \in Workers, Only(w), work' = work \/ OnlyWork(w),
           UNCHANGED <<evidence, skills, links>>, Own(w)',
           \A v \in Workers \ {w} : \A r \in work'[w].rows, q \in work[v].rows : r.hash # q.hash
    PROVE  Story'
<1>1. \A v \in Workers \ {w} : task'[v] = task[v] /\ work'[v] = work[v]
  BY DEF Only, OnlyWork
<1>2. Committed'
  <2>1. Committed
    BY DEF Story
  <2> QED BY <2>1 DEF Committed, Backing, LinksTo
<1>3. ASSUME NEW v \in Workers \ {w} PROVE Own(v)'
  <2>1. Own(v) /\ IsFiniteSet(links)
    BY DEF Story, Committed
  <2>2. \A r \in work[v].rows, q \in evidence' : r.hash # q.hash
    BY <2>1 DEF Own, RowsAreNew
  <2> QED BY <1>1, <2>1, <2>2, OthersKept
<1>4. Apart'
  <2> SUFFICES ASSUME NEW u \in Workers, NEW v \in Workers, u # v,
                      NEW r \in work'[u].rows, NEW q \in work'[v].rows
               PROVE  r.hash # q.hash
    BY DEF Apart
  <2>1. Apart
    BY DEF Story
  <2>2. CASE u = w
    BY <1>1, <2>2
  <2>3. CASE v = w
    BY <1>1, <2>3
  <2>4. CASE u # w /\ v # w
    BY <1>1, <2>1, <2>4 DEF Apart
  <2> QED BY <2>2, <2>3, <2>4
<1> QED BY <1>2, <1>3, <1>4 DEF Story

LEMMA RowsOfOthers ==
    ASSUME Story, NEW w \in Workers, NEW v \in Workers \ {w}, NEW r \in work[w].rows, NEW q \in work[v].rows
    PROVE  r.hash # q.hash
BY DEF Story, Apart

LEMMA QuietStory ==
    ASSUME Story, NEW w \in Workers, Only(w), UNCHANGED <<evidence, skills, links, work>>, SkillIsAhead(w)'
    PROVE  Story'
<1>1. Own(w)
  BY DEF Story
<1>2. Own(w)'
  BY <1>1 DEF Own, RowsAreNew, LinksAreOwn, RecordsCount, Backing, LinksTo
<1>3. \A v \in Workers \ {w} : \A r \in work'[w].rows, q \in work[v].rows : r.hash # q.hash
  BY RowsOfOthers
<1> QED BY <1>2, <1>3, StoryOfOne

LEMMA QuietElsewhere ==
    ASSUME Story, NEW w \in Workers, Only(w), UNCHANGED <<evidence, skills, links, work>>,
           task'[w].at \notin {"read", "write"}
    PROVE  Story'
<1>1. SkillIsAhead(w)'
  BY DEF SkillIsAhead
<1> QED BY <1>1, QuietStory

LEMMA RollbackStory ==
    ASSUME Story, NEW w \in Workers, Only(w), OnlyWork(w), work'[w] = NoWork,
           UNCHANGED <<evidence, skills, links>>, task'[w].at \notin {"read", "write"}
    PROVE  Story'
<1>1. work'[w].rows = {} /\ work'[w].records = <<>> /\ work'[w].links = {}
  BY DEF NoWork
<1>2. Own(w)'
  BY <1>1, NothingIsFinite DEF Own, RowsAreNew, LinksAreOwn, RecordsCount, SkillIsAhead
<1> QED BY <1>1, <1>2, StoryOfOne

LEMMA ReadSkillStory ==
    ASSUME Shapes, Story, NEW w \in Workers, ReadSkill(w) PROVE Story'
<1> DEFINE t == task[w]
           u == task'[w]
           key == Key(w)
           room == Backing(links \cup work[w].links, key)
<1>1. UNCHANGED <<evidence, skills, links, work>>
  BY DEF ReadSkill, database
<1>2. /\ Only(w) /\ Continues(t, u) /\ t.at = "read" /\ u.at = "write"
      /\ u.skills = t.skills /\ u.id = t.id /\ u.seen = EntryOf(Records(w), key)
  BY ReadSkillMoves
<1>3. Own(w) /\ Committed
  BY DEF Story
<1>4. u.seen.count \in 0..room
  <2>1. IsFiniteSet(links \cup work[w].links)
    BY <1>3, LinksStayFinite DEF Own, LinksAreOwn, Committed
  <2>2. Backing(links, key) \in Nat /\ room \in Nat /\ Backing(links, key) <= room
    BY <2>1, BackingGrows
  <2>3. CASE key \in DOMAIN work[w].records
    <3>1. u.seen = work[w].records[key]
      BY <1>2, <2>3 DEF EntryOf, Records, Over
    <3>2. work[w].records[key].count \in 1..room
      BY <1>3, <2>3 DEF Own, RecordsCount
    <3> HIDE DEF room
    <3> QED BY <2>2, <3>1, <3>2
  <2>4. CASE key \notin DOMAIN work[w].records /\ key \in DOMAIN skills
    <3>1. u.seen = skills[key]
      BY <1>2, <2>4 DEF EntryOf, Records, Over
    <3>2. skills[key].count \in 1..Backing(links, key)
      BY <1>3, <2>4 DEF Committed
    <3> DEFINE some == Backing(links, key)
    <3> HIDE DEF room, some
    <3>3. skills[key].count \in 1..room
      BY <2>2, <3>2, RoomGrows DEF some
    <3> QED BY <2>2, <3>1, <3>3
  <2>5. CASE key \notin DOMAIN work[w].records /\ key \notin DOMAIN skills
    <3>1. u.seen = Nothing
      BY <1>2, <2>5 DEF EntryOf, Records, Over
    <3>2. u.seen.count = 0
      BY <3>1 DEF Nothing
    <3> HIDE DEF room
    <3> QED BY <2>2, <3>2
  <2> QED BY <2>3, <2>4, <2>5
<1>5. SkillIsAhead(w)'
  <2>1. u.seen.count \in 0..Backing(links' \cup work'[w].links, <<u.dev, Head(u.skills)>>)
    BY <1>1, <1>2, <1>4 DEF Key, Continues
  <2>2. \A l \in work'[w].links : l.id = u.id => l.skill \notin Range(u.skills)
    BY <1>1, <1>2, <1>3 DEF Own, SkillIsAhead
  <2> QED BY <2>1, <2>2 DEF SkillIsAhead, Key, Backing, LinksTo
<1> QED BY <1>1, <1>2, <1>5, QuietStory

LEMMA InsertStory ==
    ASSUME Shapes, Honest, Story, NEW w \in Workers, Insert(w) PROVE Story'
<1> DEFINE t == task[w]
           u == task'[w]
<1>1. UNCHANGED <<evidence, skills, links>> /\ WaitsFor(w) = {} /\ Unique(w) /\ t.at = "insert"
  BY DEF Insert, database, At
<1>2. Only(w) /\ OnlyWork(w) /\ GoesOn(t, u) /\ u.skills = t.skills
  BY InsertMoves
<1>3. PICK row : /\ row.hash = Hash(w) /\ row.id[1] = Hash(w) /\ row.dev = t.dev /\ u.id = row.id
                 /\ work'[w].rows = work[w].rows \cup {row}
                 /\ work'[w].records = work[w].records /\ work'[w].links = work[w].links
  BY InsertMoves
<1>4. Own(w)
  BY DEF Story
<1>5. \A r \in work[w].rows : r.hash # Hash(w)
  BY <1>1 DEF Honest, HandIsOpen
<1>6. \A q \in evidence : q.hash # Hash(w)
  BY <1>1 DEF Unique, At
<1>7. \A v \in Workers \ {w} : \A q \in work[v].rows : q.hash # Hash(w)
  BY <1>1 DEF WaitsFor, At
<1>8. RowsAreNew(w)'
  <2>1. RowsAreNew(w)
    BY <1>4 DEF Own
  <2> QED BY <1>1, <1>3, <1>5, <1>6, <2>1 DEF RowsAreNew
<1>9. LinksAreOwn(w)' /\ RecordsCount(w)'
  BY <1>1, <1>3, <1>4 DEF Own, LinksAreOwn, RecordsCount, Backing, LinksTo
<1>10. SkillIsAhead(w)'
  <2>1. u.at # "write"
    BY <1>2 DEF GoesOn
  <2>2. ASSUME NEW l \in work[w].links PROVE l.id # u.id
    <3>1. PICK r \in work[w].rows : r.id = l.id
      BY <1>4 DEF Own, LinksAreOwn
    <3>2. r.id[1] = r.hash
      BY <1>4 DEF Own, RowsAreNew
    <3> QED BY <1>3, <1>5, <3>1, <3>2
  <2> QED BY <1>3, <2>1, <2>2 DEF SkillIsAhead
<1>11. \A v \in Workers \ {w} : \A r \in work'[w].rows, q \in work[v].rows : r.hash # q.hash
  BY <1>3, <1>7, RowsOfOthers
<1> QED BY <1>1, <1>2, <1>8, <1>9, <1>10, <1>11, StoryOfOne DEF Own

LEMMA WriteSkillStory ==
    ASSUME Shapes, Honest, Story, NEW w \in Workers, WriteSkill(w) PROVE Story'
<1> DEFINE t == task[w]
           u == task'[w]
           key == Key(w)
           l == [dev |-> t.dev, skill |-> key[2], id |-> t.id]
           before == links \cup work[w].links
           after == before \cup {l}
           room(k) == Backing(before, k)
           more(k) == Backing(after, k)
<1>1. UNCHANGED <<evidence, skills, links>>
  BY DEF WriteSkill, database
<1>2. /\ Only(w) /\ OnlyWork(w) /\ GoesOn(t, u) /\ u.skills = Tail(t.skills) /\ u.id = t.id /\ t.at = "write"
      /\ work'[w].rows = work[w].rows /\ work'[w].links = work[w].links \cup {l}
  BY WriteSkillMoves
<1>3. PICK worth : work'[w].records = WithEntry(work[w].records, key, Accumulate(t.seen, worth))
  BY WriteSkillMoves
<1>4. Own(w) /\ Committed
  BY DEF Story
<1>5. PICK row \in work[w].rows : row.hash = Hash(w) /\ row.id = t.id /\ row.dev = t.dev
  BY <1>2 DEF Honest, HandIsOpen
<1>6. Listed(t.skills) /\ t.skills # <<>>
  BY <1>2, WorkersTasks DEF IsExecution, Formed, Executing
<1>7. key = <<t.dev, Head(t.skills)>> /\ l.skill = Head(t.skills) /\ l.id = t.id /\ l.dev = t.dev
      /\ key = <<l.dev, l.skill>>
  BY DEF Key
<1>8. /\ Listed(Tail(t.skills)) /\ Head(t.skills) \in Range(t.skills) /\ Head(t.skills) \notin Range(Tail(t.skills))
      /\ Range(Tail(t.skills)) \subseteq Range(t.skills)
  BY <1>6, TailIsListed
<1> HIDE DEF l
<1>9. l \notin before
  <2>1. ASSUME l \in links PROVE FALSE
    <3>1. PICK q \in evidence : q.id = t.id
      BY <1>4, <1>7, <2>1 DEF Committed
    <3>2. q.hash = q.id[1] /\ row.hash = row.id[1]
      BY <1>4 DEF Committed, Own, RowsAreNew
    <3>3. row.hash # q.hash
      BY <1>4 DEF Own, RowsAreNew
    <3> QED BY <1>5, <3>1, <3>2, <3>3
  <2>2. l \in work[w].links => l.skill \notin Range(t.skills)
    BY <1>2, <1>4, <1>7 DEF Own, SkillIsAhead
  <2> QED BY <1>7, <1>8, <2>1, <2>2
<1>10. IsFiniteSet(before) /\ IsFiniteSet(after) /\ IsFiniteSet(work'[w].links)
  <2>1. IsFiniteSet(links) /\ IsFiniteSet(work[w].links) /\ IsFiniteSet({l})
    BY <1>4, FS_Singleton DEF Committed, Own, LinksAreOwn
  <2>2. IsFiniteSet(before)
    BY <2>1, LinksStayFinite
  <2>3. IsFiniteSet(after)
    <3> HIDE DEF before
    <3> QED BY <2>1, <2>2, LinksStayFinite
  <2> QED BY <1>2, <2>1, <2>2, <2>3, LinksStayFinite
<1>11. ASSUME NEW k PROVE room(k) \in Nat /\ more(k) \in Nat /\ room(k) <= more(k)
  <2> HIDE DEF before
  <2> QED BY <1>10, BackingGrows
<1>12. more(key) = room(key) + 1
  <2> HIDE DEF before, key
  <2> QED BY <1>7, <1>9, <1>10, BackingOfOneMore
<1>13. t.seen.count \in 0..room(key)
  BY <1>2, <1>4 DEF Own, SkillIsAhead
<1>14. \A k \in DOMAIN work[w].records : work[w].records[k].count \in 1..room(k)
  BY <1>4 DEF Own, RecordsCount
<1>15. links' \cup work'[w].links = after
  BY <1>1, <1>2
<1>16. /\ DOMAIN work'[w].records = {key} \cup DOMAIN work[w].records
       /\ work'[w].records[key] = Accumulate(t.seen, worth)
       /\ \A k \in DOMAIN work[w].records : k # key => work'[w].records[k] = work[w].records[k]
  <2> HIDE DEF key
  <2> QED BY <1>3 DEF WithEntry, Over
<1>17. RowsAreNew(w)'
  BY <1>1, <1>2, <1>4 DEF Own, RowsAreNew
<1>18. LinksAreOwn(w)'
  <2>1. \A e \in work'[w].links : /\ <<e.dev, e.skill>> \in DOMAIN work'[w].records
                                  /\ \E r \in work'[w].rows : r.id = e.id /\ r.dev = e.dev
    <3> SUFFICES ASSUME NEW e \in work'[w].links
                 PROVE  /\ <<e.dev, e.skill>> \in DOMAIN work'[w].records
                        /\ \E r \in work'[w].rows : r.id = e.id /\ r.dev = e.dev
      OBVIOUS
    <3>1. CASE e = l
      BY <1>2, <1>5, <1>7, <1>16, <3>1
    <3>2. CASE e \in work[w].links
      <4>1. <<e.dev, e.skill>> \in DOMAIN work[w].records /\ \E r \in work[w].rows : r.id = e.id /\ r.dev = e.dev
        BY <1>4, <3>2 DEF Own, LinksAreOwn
      <4> QED BY <1>2, <1>16, <4>1
    <3> QED BY <1>2, <3>1, <3>2
  <2> QED BY <1>10, <2>1 DEF LinksAreOwn
<1>19. RecordsCount(w)'
  <2>1. ASSUME NEW k \in DOMAIN work'[w].records PROVE work'[w].records[k].count \in 1..more(k)
    <3>1. CASE k = key
      <4>1. work'[w].records[k].count = t.seen.count + 1
        BY <1>16, <3>1 DEF Accumulate
      <4> DEFINE c == t.seen.count
                 a == room(key)
      <4>2. a \in Nat /\ c \in 0..a
        BY <1>11, <1>13
      <4> HIDE DEF c, a
      <4>3. c + 1 \in 1..(a + 1)
        BY <4>2
      <4> QED BY <1>12, <3>1, <4>1, <4>3 DEF c, a
    <3>2. CASE k # key
      <4>1. work'[w].records[k].count \in 1..room(k)
        BY <1>14, <1>16, <3>2
      <4> HIDE DEF room, more
      <4> QED BY <1>11, <4>1, RoomGrows
    <3> QED BY <3>1, <3>2
  <2> QED BY <1>15, <2>1 DEF RecordsCount, Backing, LinksTo
<1>20. SkillIsAhead(w)'
  <2>1. u.at # "write"
    BY <1>2 DEF GoesOn
  <2>2. ASSUME NEW e \in work'[w].links, e.id = u.id PROVE e.skill \notin Range(u.skills)
    <3>1. CASE e = l
      BY <1>2, <1>7, <1>8, <3>1
    <3>2. CASE e \in work[w].links
      <4>1. e.skill \notin Range(t.skills)
        BY <1>2, <1>4, <2>2, <3>2 DEF Own, SkillIsAhead
      <4> QED BY <1>2, <1>8, <4>1
    <3> QED BY <1>2, <2>2, <3>1, <3>2
  <2> QED BY <2>1, <2>2 DEF SkillIsAhead
<1>21. \A v \in Workers \ {w} : \A r \in work'[w].rows, q \in work[v].rows : r.hash # q.hash
  BY <1>2, RowsOfOthers
<1> QED BY <1>1, <1>2, <1>17, <1>18, <1>19, <1>20, <1>21, StoryOfOne DEF Own

LEMMA CommitStory ==
    ASSUME Shapes, Story, NEW w \in Workers, Commit(w) PROVE Story'
<1> DEFINE x == work[w]
           room(k) == Backing(links, k)
           more(k) == Backing(links', k)
<1>1. /\ evidence' = evidence \cup x.rows /\ links' = links \cup x.links /\ skills' = Over(skills, x.records)
  BY DEF Commit, Records
<1>2. Only(w) /\ OnlyWork(w) /\ work'[w] = NoWork /\ task'[w].at \notin {"read", "write"}
  BY CommitMoves DEF Idle
<1>3. Own(w) /\ Committed /\ Apart
  BY DEF Story
<1>4. IsFiniteSet(links')
  BY <1>1, <1>3, LinksStayFinite DEF Committed, Own, LinksAreOwn
<1>5. /\ DOMAIN skills' = DOMAIN x.records \cup DOMAIN skills
      /\ \A k \in DOMAIN x.records : skills'[k] = x.records[k]
      /\ \A k \in DOMAIN skills : k \notin DOMAIN x.records => skills'[k] = skills[k]
  <2> HIDE DEF x
  <2> QED BY <1>1 DEF Over
<1>6. Committed'
  <2>1. /\ \A r, q \in evidence' : r.hash = q.hash => r = q
        /\ \A r \in evidence' : r.id[1] = r.hash
    <3>1. /\ \A r, q \in evidence : r.hash = q.hash => r = q
          /\ \A r \in evidence : r.id[1] = r.hash
          /\ \A r, q \in x.rows : r.hash = q.hash => r = q
          /\ \A r \in x.rows : r.id[1] = r.hash
          /\ \A r \in x.rows, q \in evidence : r.hash # q.hash
      BY <1>3 DEF Committed, Own, RowsAreNew
    <3> HIDE DEF x
    <3> QED BY <1>1, <3>1
  <2>2. \A e \in links' : /\ <<e.dev, e.skill>> \in DOMAIN skills'
                          /\ \E row \in evidence' : row.id = e.id /\ row.dev = e.dev
    <3> SUFFICES ASSUME NEW e \in links'
                 PROVE  /\ <<e.dev, e.skill>> \in DOMAIN skills'
                        /\ \E row \in evidence' : row.id = e.id /\ row.dev = e.dev
      OBVIOUS
    <3>1. CASE e \in links
      <4>1. <<e.dev, e.skill>> \in DOMAIN skills /\ \E row \in evidence : row.id = e.id /\ row.dev = e.dev
        BY <1>3, <3>1 DEF Committed
      <4> QED BY <1>1, <1>5, <4>1
    <3>2. CASE e \in x.links
      <4>1. <<e.dev, e.skill>> \in DOMAIN x.records /\ \E row \in x.rows : row.id = e.id /\ row.dev = e.dev
        BY <1>3, <3>2 DEF Own, LinksAreOwn
      <4> QED BY <1>1, <1>5, <4>1
    <3> QED BY <1>1, <3>1, <3>2
  <2>3. ASSUME NEW k \in DOMAIN skills' PROVE skills'[k].count \in 1..more(k)
    <3>1. CASE k \in DOMAIN x.records
      <4>1. x.records[k].count \in 1..Backing(links \cup x.links, k)
        BY <1>3, <3>1 DEF Own, RecordsCount
      <4> QED BY <1>1, <1>5, <3>1, <4>1
    <3>2. CASE k \notin DOMAIN x.records
      <4>1. skills'[k].count \in 1..room(k)
        BY <1>3, <1>5, <3>2 DEF Committed
      <4>2. room(k) \in Nat /\ more(k) \in Nat /\ room(k) <= more(k)
        <5>1. links \subseteq links'
          BY <1>1
        <5> QED BY <1>4, <5>1, BackingGrows
      <4> HIDE DEF room, more
      <4> QED BY <4>1, <4>2, RoomGrows
    <3> QED BY <3>1, <3>2
  <2> QED BY <1>4, <2>1, <2>2, <2>3 DEF Committed, Backing, LinksTo
<1>7. Own(w)'
  <2>1. work'[w].rows = {} /\ work'[w].records = <<>> /\ work'[w].links = {}
    BY <1>2 DEF NoWork
  <2> QED BY <1>2, <2>1, NothingIsFinite DEF Own, RowsAreNew, LinksAreOwn, RecordsCount, SkillIsAhead
<1>8. ASSUME NEW v \in Workers \ {w} PROVE Own(v)'
  <2>1. \A r \in work[v].rows, q \in evidence' : r.hash # q.hash
    <3>1. Own(v)
      BY DEF Story
    <3> QED BY <1>1, <3>1, RowsOfOthers DEF Own, RowsAreNew
  <2>2. task'[v] = task[v] /\ work'[v] = work[v] /\ links \subseteq links'
    BY <1>1, <1>2 DEF Only, OnlyWork
  <2> QED BY <1>4, <2>1, <2>2, OthersKept DEF Story
<1>9. Apart'
  <2> SUFFICES ASSUME NEW u \in Workers, NEW v \in Workers, u # v,
                      NEW r \in work'[u].rows, NEW q \in work'[v].rows
               PROVE  r.hash # q.hash
    BY DEF Apart
  <2>1. work'[w].rows = {}
    BY <1>2 DEF NoWork
  <2>2. u # w /\ v # w
    BY <2>1
  <2>3. r \in work[u].rows /\ q \in work[v].rows
    BY <1>2, <2>2 DEF OnlyWork
  <2> QED BY <1>3, <2>3 DEF Apart
<1> QED BY <1>6, <1>7, <1>8, <1>9 DEF Story

LEMMA StoryNext == Shapes /\ Honest /\ Story /\ [Next]_vars => Story'
<1> SUFFICES ASSUME Shapes, Honest, Story, [Next]_vars PROVE Story'
  OBVIOUS
<1>1. ASSUME NEW w \in Workers, NEW d \in Developers, Connect(w, d) PROVE Story'
  <2>1. UNCHANGED <<evidence, skills, links, work>>
    BY <1>1 DEF Connect
  <2>2. Only(w) /\ task'[w].at \notin {"read", "write"}
    BY <1>1, ConnectMoves
  <2> QED BY <2>1, <2>2, QuietElsewhere
<1>2. CASE SyncAllDevelopers \/ Search \/ UNCHANGED vars
  <2>1. UNCHANGED <<task, work, evidence, skills, links>>
    BY <1>2 DEF SyncAllDevelopers, Search, vars, database, running
  <2>2. Committed'
    BY <2>1 DEF Story, Committed, Backing, LinksTo
  <2>3. Apart'
    BY <2>1 DEF Story, Apart
  <2>4. ASSUME NEW v \in Workers PROVE Own(v)'
    <3>1. Own(v)
      BY DEF Story
    <3>2. RowsAreNew(v)' /\ LinksAreOwn(v)'
      BY <2>1, <3>1 DEF Own, RowsAreNew, LinksAreOwn
    <3>3. RecordsCount(v)'
      BY <2>1, <3>1 DEF Own, RecordsCount, Backing, LinksTo
    <3>4. SkillIsAhead(v)'
      BY <2>1, <3>1 DEF Own, SkillIsAhead, Key
    <3> QED BY <3>2, <3>3, <3>4 DEF Own
  <2> QED BY <2>2, <2>3, <2>4 DEF Story
<1>3. ASSUME NEW w \in Workers, NEW m \in queue, Take(w, m) PROVE Story'
  <2>1. UNCHANGED <<evidence, skills, links, work>>
    BY <1>3 DEF Take, database
  <2>2. Only(w) /\ task'[w].at \notin {"read", "write"}
    BY <1>3, TakeMoves
  <2> QED BY <2>1, <2>2, QuietElsewhere
<1>4. ASSUME NEW w \in Workers, Start(w) PROVE Story'
  <2>1. UNCHANGED <<evidence, skills, links, work>>
    BY <1>4 DEF Start
  <2>2. Only(w) /\ task'[w].at \notin {"read", "write"}
    BY <1>4, StartMoves
  <2> QED BY <2>1, <2>2, QuietElsewhere
<1>5. ASSUME NEW w \in Workers, Fetch(w) PROVE Story'
  <2>1. UNCHANGED <<evidence, skills, links, work>>
    BY <1>5 DEF Fetch, database
  <2>2. Only(w) /\ task'[w].at \notin {"read", "write"}
    BY <1>5, FetchMoves
  <2> QED BY <2>1, <2>2, QuietElsewhere
<1>6. ASSUME NEW w \in Workers, Enqueue(w) PROVE Story'
  <2>1. UNCHANGED <<evidence, skills, links, work>>
    BY <1>6 DEF Enqueue, database
  <2>2. Only(w) /\ task'[w].at \notin {"read", "write"}
    BY <1>6, EnqueueMoves
  <2> QED BY <2>1, <2>2, QuietElsewhere
<1>7. ASSUME NEW w \in Workers, Enqueued(w) PROVE Story'
  <2>1. UNCHANGED <<evidence, skills, links, work>>
    BY <1>7 DEF Enqueued, database
  <2>2. Only(w) /\ task'[w].at \notin {"read", "write"}
    BY <1>7, EnqueuedMoves
  <2> QED BY <2>1, <2>2, QuietElsewhere
<1>8. ASSUME NEW w \in Workers, Check(w) PROVE Story'
  <2>1. UNCHANGED <<evidence, skills, links, work>>
    BY <1>8 DEF Check, database
  <2>2. Only(w) /\ task'[w].at \notin {"read", "write"}
    BY <1>8, CheckMoves
  <2> QED BY <2>1, <2>2, QuietElsewhere
<1>9. ASSUME NEW w \in Workers, Insert(w) \/ ReadSkill(w) \/ WriteSkill(w) \/ Commit(w) PROVE Story'
  BY <1>9, InsertStory, ReadSkillStory, WriteSkillStory, CommitStory
<1>10. ASSUME NEW w \in Workers, MarkSynced(w) PROVE Story'
  <2>1. UNCHANGED <<evidence, skills, links, work>>
    BY <1>10 DEF MarkSynced
  <2>2. Only(w) /\ task'[w].at \notin {"read", "write"}
    BY <1>10, MarkSyncedMoves DEF Idle
  <2> QED BY <2>1, <2>2, QuietElsewhere
<1>11. ASSUME NEW w \in Workers, SetError(w) PROVE Story'
  <2>1. UNCHANGED <<evidence, skills, links, work>>
    BY <1>11 DEF SetError
  <2>2. Only(w) /\ task'[w].at \notin {"read", "write"}
    BY <1>11, SetErrorMoves DEF Idle
  <2> QED BY <2>1, <2>2, QuietElsewhere
<1>12. ASSUME NEW w \in Workers, Fail(w) \/ ConstraintViolated(w) \/ DeadlockVictim(w) PROVE Story'
  <2>1. Executing(w) /\ Raise(w)
    BY <1>12, FailuresRaise
  <2>2. UNCHANGED <<evidence, skills, links>>
    BY <2>1 DEF Raise, database
  <2>3. Only(w) /\ OnlyWork(w) /\ work'[w] = NoWork /\ task'[w].at \notin {"read", "write"}
    BY <2>1, RaiseMoves DEF IsResting, Idle, Unreported
  <2> QED BY <2>2, <2>3, RollbackStory
<1>13. ASSUME NEW w \in Workers, Crash(w) PROVE Story'
  <2>1. UNCHANGED <<evidence, skills, links>>
    BY <1>13 DEF Crash, database
  <2>2. Only(w) /\ OnlyWork(w) /\ work'[w] = NoWork /\ task'[w].at \notin {"read", "write"}
    BY <1>13, CrashMoves DEF IsResting, Idle, Unreported
  <2> QED BY <2>1, <2>2, RollbackStory
<1> QED BY <1>1, <1>2, <1>3, <1>4, <1>5, <1>6, <1>7, <1>8, <1>9, <1>10, <1>11, <1>12, <1>13 DEF Next, Step

LEMMA StoryIsTold == Spec => []Story
<1>1. Init => Story
  BY StoryInit
<1>2. Shapes /\ Honest /\ Story /\ [Next]_vars => Story'
  BY StoryNext
<1> QED BY <1>1, <1>2, WorkersAreHonest, PTL DEF Spec

\* The database tells one story, for any developers, artifacts, workers and faults: one row for an
\* artifact (the unique content_hash), links that join what is there, and records that count no more
\* evidence than is linked (SkillRepository.upsert beside link_evidence).
THEOREM RecordsAreAlwaysBacked == Spec => []RecordsAreBacked
<1>1. Story => RecordsAreBacked
  BY DEF Story, Committed, RecordsAreBacked, Backing, LinksTo
<1> QED BY <1>1, StoryIsTold, PTL

-----------------------------------------------------------------------------
(* What a search reads: the graph, the index, and what is about to be written to the graph *)

\* The artifacts of the graph have ids of their own, numbered without gaps for each hash, and developers.
GraphIsNumbered ==
    /\ IsFiniteSet(graph.artifacts)
    /\ \A a, b \in graph.artifacts : a.id = b.id => a = b
    /\ \A a \in graph.artifacts :
          /\ a.dev \in Developers
          /\ a.id[2] \in Nat /\ a.id[2] < Cardinality(Numbered(a.id[1]))

\* An edge leads from a developer and carries numbers.
EdgesAreSound ==
    /\ IsFiniteSet(DOMAIN graph.edges)
    /\ \A key \in DOMAIN graph.edges :
          /\ \E d \in Developers : \E skill : key = <<d, skill>>
          /\ graph.edges[key].confidence \in Nat /\ graph.edges[key].count \in Nat

\* An index holds artifacts that the graph still has, maybe with other skills by now.
IsIndexOf(i, artifacts) ==
    /\ IsFiniteSet(i.evidence) /\ i.size = Cardinality(i.evidence)
    /\ \A e, f \in i.evidence : e.id = f.id => e = f
    /\ \A e \in i.evidence : \E a \in artifacts : a.id = e.id /\ a.dev = e.dev

\* The artifact in hand is worth a number. Its row has the next number of its hash, or is in the graph.
HandIsNumbered(w) ==
    /\ task[w].at \in {"insert", "read", "write"} => Contribution(Head(task[w].todo), task[w].complexity) \in Nat
    /\ task[w].at \in {"read", "write"} =>
          \/ task[w].id = <<Hash(w), Cardinality(Numbered(Hash(w)))>>
          \/ \E a \in graph.artifacts : a.id = task[w].id /\ a.dev = task[w].dev

Searchable ==
    /\ GraphIsNumbered /\ EdgesAreSound /\ IsIndexOf(index, graph.artifacts)
    /\ \A w \in Workers : HandIsNumbered(w)

LEMMA SearchableInit == Init => Searchable
<1> SUFFICES ASSUME Init PROVE Searchable
  OBVIOUS
<1>1. graph.artifacts = {} /\ graph.edges = <<>> /\ index.size = 0 /\ index.evidence = {}
  BY DEF Init, NoGraph, NoIndex
<1>2. IsFiniteSet({}) /\ DOMAIN <<>> = {} /\ Cardinality({}) = 0
  BY NothingIsFinite, FS_EmptySet
<1>3. \A w \in Workers : HandIsNumbered(w)
  BY DEF Init, HandIsNumbered, Idle
<1> QED BY <1>1, <1>2, <1>3 DEF Searchable, GraphIsNumbered, EdgesAreSound, IsIndexOf

LEMMA NumberedAreFinite ==
    ASSUME GraphIsNumbered, NEW h PROVE IsFiniteSet(Numbered(h)) /\ Cardinality(Numbered(h)) \in Nat
<1>1. Numbered(h) \in SUBSET graph.artifacts
  BY DEF Numbered
<1> QED BY <1>1, FS_Subset, FS_CardinalityType DEF GraphIsNumbered

\* A step that leaves the graph alone: only the hand of w may change.
LEMMA HandsOfOthersStay ==
    ASSUME Searchable, NEW w \in Workers, Only(w), UNCHANGED <<graph, index>>, HandIsNumbered(w)'
    PROVE  Searchable'
<1>1. GraphIsNumbered' /\ EdgesAreSound' /\ IsIndexOf(index, graph.artifacts)'
  BY DEF Searchable, GraphIsNumbered, EdgesAreSound, IsIndexOf, Numbered
<1>2. ASSUME NEW v \in Workers \ {w} PROVE HandIsNumbered(v)'
  <2>1. HandIsNumbered(v) /\ task'[v] = task[v]
    BY DEF Searchable, Only
  <2> QED BY <2>1 DEF HandIsNumbered, Hash, Numbered
<1> QED BY <1>1, <1>2 DEF Searchable

LEMMA EmptyHand ==
    ASSUME Searchable, NEW w \in Workers, Only(w), UNCHANGED <<graph, index>>,
           task'[w].at \notin {"insert", "read", "write"}
    PROVE  Searchable'
<1>1. HandIsNumbered(w)'
  BY DEF HandIsNumbered
<1> QED BY <1>1, HandsOfOthersStay

LEMMA CheckIsSearchable ==
    ASSUME Shapes, Searchable, NEW w \in Workers, Check(w) PROVE Searchable'
<1>1. UNCHANGED <<graph, index>>
  BY DEF Check, search
<1>2. Only(w) /\ (\/ task'[w].at = "check"
                  \/ /\ task'[w].at = "insert" /\ task'[w].todo = task[w].todo
                     /\ Contribution(Head(task[w].todo), task'[w].complexity) \in Nat)
  BY CheckMoves
<1>3. HandIsNumbered(w)'
  BY <1>2 DEF HandIsNumbered
<1> QED BY <1>1, <1>2, <1>3, HandsOfOthersStay

LEMMA InsertIsSearchable ==
    ASSUME Shapes, Searchable, NEW w \in Workers, Insert(w) PROVE Searchable'
<1>1. UNCHANGED <<graph, index>>
  BY DEF Insert, search
<1>2. /\ Only(w) /\ GoesOn(task[w], task'[w]) /\ task[w].at = "insert"
      /\ task'[w].id = <<Hash(w), Cardinality(Numbered(Hash(w)))>>
  BY InsertMoves
<1>3. HandIsNumbered(w)'
  <2>1. Contribution(Head(task[w].todo), task[w].complexity) \in Nat
    BY <1>2 DEF Searchable, HandIsNumbered
  <2> QED BY <1>1, <1>2, <2>1 DEF HandIsNumbered, GoesOn, Hash, Numbered
<1> QED BY <1>1, <1>2, <1>3, HandsOfOthersStay

LEMMA ReadSkillIsSearchable ==
    ASSUME Shapes, Searchable, NEW w \in Workers, ReadSkill(w) PROVE Searchable'
<1>1. UNCHANGED <<graph, index>>
  BY DEF ReadSkill, search
<1>2. /\ Only(w) /\ task[w].at = "read" /\ task'[w].at = "write" /\ task'[w].todo = task[w].todo
      /\ task'[w].id = task[w].id /\ task'[w].complexity = task[w].complexity /\ task'[w].dev = task[w].dev
  BY ReadSkillMoves DEF Continues
<1>3. HandIsNumbered(w)'
  <2>1. HandIsNumbered(w)
    BY DEF Searchable
  <2> QED BY <1>1, <1>2, <2>1 DEF HandIsNumbered, Hash, Numbered
<1> QED BY <1>1, <1>2, <1>3, HandsOfOthersStay

\* Writing evidence replaces the artifact of its id, or adds one with the next number.
LEMMA EvidenceIsNumbered ==
    ASSUME GraphIsNumbered, NEW id, NEW h, NEW dev \in Developers, NEW new, id[1] = h,
           \/ id = <<h, Cardinality(Numbered(h))>>
           \/ \E a \in graph.artifacts : a.id = id /\ a.dev = dev,
           new.id = id, new.dev = dev,
           graph'.artifacts = (graph.artifacts \ {a \in graph.artifacts : a.id = id}) \cup {new}
    PROVE  /\ GraphIsNumbered' /\ new \in graph'.artifacts
           /\ \A a \in graph.artifacts : \E b \in graph'.artifacts : b.id = a.id /\ b.dev = a.dev
           /\ \A g : g # h => Numbered(g)' = Numbered(g)
<1> DEFINE old == {a \in graph.artifacts : a.id = id}
           before == graph.artifacts
           after == graph'.artifacts
<1>1. IsFiniteSet(Numbered(h)) /\ Cardinality(Numbered(h)) \in Nat
  BY NumberedAreFinite
<1>2. /\ IsFiniteSet(before) /\ \A a, b \in before : a.id = b.id => a = b
      /\ \A a \in before : a.dev \in Developers /\ a.id[2] \in Nat /\ a.id[2] < Cardinality(Numbered(a.id[1]))
  BY DEF GraphIsNumbered
<1>3. /\ after = (before \ old) \cup {new}
      /\ \A a \in before : a \in old <=> a.id = id
      /\ old \subseteq before
  OBVIOUS
<1> HIDE DEF old
<1>4. \A g : g # h => Numbered(g)' = Numbered(g)
  BY <1>3 DEF Numbered
<1>5. \A a, b \in after : a.id = b.id => a = b
  BY <1>2, <1>3
<1>6. IsFiniteSet(after)
  <2> DEFINE rest == before \ old
  <2>1. rest \in SUBSET before /\ after = rest \cup {new}
    BY <1>3
  <2>2. IsFiniteSet(rest)
    BY <1>2, <2>1, FS_Subset
  <2> HIDE DEF rest, after
  <2>3. IsFiniteSet(rest \cup {new})
    BY <2>2, FS_AddElement
  <2> QED BY <2>1, <2>3
<1>7. /\ Cardinality(Numbered(h)') \in Nat /\ Cardinality(Numbered(h)) <= Cardinality(Numbered(h)')
      /\ id[2] \in Nat /\ id[2] < Cardinality(Numbered(h)')
      /\ \A a \in before : a \in old => a.dev = dev
  <2>1. CASE id = <<h, Cardinality(Numbered(h))>>
    <3> DEFINE n == Cardinality(Numbered(h))
    <3>1. old = {}
      <4> SUFFICES ASSUME NEW a \in before, a.id = id PROVE FALSE
        BY <1>3
      <4>1. a.id[1] = h /\ a.id[2] = n
        BY <2>1
      <4>2. a.id[2] < Cardinality(Numbered(a.id[1]))
        BY <1>2
      <4>3. a.id[2] < n
        BY <4>1, <4>2
      <4> HIDE DEF n
      <4> QED BY <1>1, <4>1, <4>3 DEF n
    <3>2. Numbered(h)' = Numbered(h) \cup {new} /\ new \notin Numbered(h)
      BY <1>3, <3>1 DEF Numbered
    <3>3. Cardinality(Numbered(h)') = Cardinality(Numbered(h)) + 1
      <4> DEFINE some == Numbered(h)
      <4> HIDE DEF some
      <4>1. IsFiniteSet(some) /\ new \notin some
        BY <1>1, <3>2 DEF some
      <4>2. Cardinality(some \cup {new}) = Cardinality(some) + 1
        BY <4>1, FS_AddElement
      <4> QED BY <3>2, <4>2 DEF some
    <3>4. id[2] = Cardinality(Numbered(h))
      BY <2>1
    <3> QED BY <1>1, <3>1, <3>3, <3>4
  <2>2. CASE \E a \in before : a.id = id /\ a.dev = dev
    <3>1. PICK a \in before : a.id = id /\ a.dev = dev
      BY <2>2
    <3> DEFINE others == Numbered(h) \ {a}
    <3>2. \A b \in before : b \in old <=> b = a
      BY <1>2, <1>3, <3>1
    <3>3. a \in Numbered(h) /\ Numbered(h)' = others \cup {new} /\ new \notin others
      BY <1>2, <1>3, <3>1, <3>2 DEF Numbered
    <3>4. IsFiniteSet(others) /\ Cardinality(others) = Cardinality(Numbered(h)) - 1
      BY <1>1, <3>3, FS_RemoveElement
    <3> HIDE DEF others
    <3>5. Cardinality(Numbered(h)') = Cardinality(others) + 1
      BY <3>3, <3>4, FS_AddElement
    <3>6. id[2] \in Nat /\ id[2] < Cardinality(Numbered(h))
      BY <1>2, <3>1
    <3> QED BY <1>1, <3>1, <3>2, <3>4, <3>5, <3>6
  <2> QED BY <2>1, <2>2
<1>8. ASSUME NEW a \in after
      PROVE  a.dev \in Developers /\ a.id[2] \in Nat /\ a.id[2] < Cardinality(Numbered(a.id[1])')
  <2>1. CASE a = new
    BY <1>7, <2>1
  <2>2. CASE a \in before
    <3>1. a.dev \in Developers /\ a.id[2] \in Nat /\ a.id[2] < Cardinality(Numbered(a.id[1]))
      BY <1>2, <2>2
    <3>2. CASE a.id[1] = h
      BY <1>1, <1>7, <3>1, <3>2
    <3>3. CASE a.id[1] # h
      BY <1>4, <3>1, <3>3
    <3> QED BY <3>2, <3>3
  <2> QED BY <1>3, <2>1, <2>2
<1>9. GraphIsNumbered'
  BY <1>5, <1>6, <1>8 DEF GraphIsNumbered, Numbered
<1>10. \A a \in before : \E b \in after : b.id = a.id /\ b.dev = a.dev
  BY <1>3, <1>7
<1> QED BY <1>3, <1>4, <1>9, <1>10

\* An edge takes one more contribution.
LEMMA EdgesStaySound ==
    ASSUME EdgesAreSound, NEW d \in Developers, NEW skill, NEW worth \in Nat,
           graph'.edges = WithEntry(graph.edges, <<d, skill>>, Accumulate(EntryOf(graph.edges, <<d, skill>>), worth))
    PROVE  EdgesAreSound' /\ <<d, skill>> \in DOMAIN graph'.edges
<1> DEFINE key == <<d, skill>>
           edges == graph.edges
           entry == EntryOf(edges, key)
           new == Accumulate(entry, worth)
<1>1. entry.confidence \in Nat /\ entry.count \in Nat
  BY DEF EdgesAreSound, EntryOf, Nothing
<1>2. new.confidence \in Nat /\ new.count \in Nat
  <2>1. new.confidence = Min({entry.confidence + worth, Unit}) /\ new.count = entry.count + 1
    BY DEF Accumulate
  <2> HIDE DEF entry, new
  <2>2. entry.confidence + worth \in Int /\ entry.confidence + worth >= 0 /\ Unit \in Int /\ Unit >= 0
    BY <1>1 DEF Unit
  <2> QED BY <1>1, <2>1, <2>2, LesserOfTwo
<1> HIDE DEF new
<1>3. /\ DOMAIN graph'.edges = {key} \cup DOMAIN edges /\ graph'.edges[key] = new
      /\ \A k \in DOMAIN edges : k # key => graph'.edges[k] = edges[k]
  <2>1. graph'.edges = WithEntry(edges, key, new)
    BY DEF new
  <2> HIDE DEF key, edges
  <2> QED BY <2>1 DEF WithEntry, Over
<1>4. IsFiniteSet(DOMAIN graph'.edges)
  BY <1>3, FS_AddElement DEF EdgesAreSound
<1>5. ASSUME NEW k \in DOMAIN graph'.edges
      PROVE  /\ \E e \in Developers : \E s : k = <<e, s>>
             /\ graph'.edges[k].confidence \in Nat /\ graph'.edges[k].count \in Nat
  BY <1>2, <1>3 DEF EdgesAreSound
<1> QED BY <1>3, <1>4, <1>5 DEF EdgesAreSound

LEMMA WriteSkillIsSearchable ==
    ASSUME Shapes, Honest, Story, Searchable, NEW w \in Workers, WriteSkill(w) PROVE Searchable'
<1> DEFINE t == task[w]
           u == task'[w]
           h == Hash(w)
           worth == Contribution(Head(t.todo), t.complexity)
<1>1. Only(w) /\ GoesOn(t, u) /\ t.at = "write" /\ u.id = t.id
  BY WriteSkillMoves
<1>2. /\ worth \in Nat
      /\ \/ t.id = <<h, Cardinality(Numbered(h))>>
         \/ \E a \in graph.artifacts : a.id = t.id /\ a.dev = t.dev
  BY <1>1 DEF Searchable, HandIsNumbered
<1>3. t.dev \in Developers
  BY <1>1, WorkersTasks DEF IsExecution, Formed, Executing
<1>4. PICK row \in work[w].rows : row.hash = h /\ row.id = t.id
  BY <1>1 DEF Honest, HandIsOpen
<1>5. t.id[1] = h
  BY <1>4 DEF Story, Own, RowsAreNew
<1>6. index' = index
  BY DEF WriteSkill
<1>7. Contribution(Head(u.todo), u.complexity) \in Nat \/ u.at = "check"
  BY <1>1, <1>2 DEF GoesOn
<1>8. u.at = "read" => u.todo = t.todo /\ u.dev = t.dev
  BY <1>1 DEF GoesOn, Continues
<1>9. u.at \in {"check", "read"}
  BY <1>1 DEF GoesOn
<1>10. CASE UNCHANGED graph
  <2>1. HandIsNumbered(w)'
    BY <1>1, <1>2, <1>7, <1>8, <1>9, <1>10 DEF HandIsNumbered, Hash, Numbered
  <2> QED BY <1>1, <1>6, <1>10, <2>1, HandsOfOthersStay
<1>11. CASE graph' = WithEvidence(graph, t.dev, Key(w)[2], [id |-> t.id, complexity |-> t.complexity], worth)
  <2> DEFINE old == {a \in graph.artifacts : a.id = t.id}
             new == [id |-> t.id, dev |-> t.dev, complexity |-> t.complexity,
                     skills |-> UNION {a.skills : a \in old} \cup {Key(w)[2]}]
             key == <<t.dev, Key(w)[2]>>
  <2>1. /\ graph'.artifacts = (graph.artifacts \ old) \cup {new}
        /\ graph'.edges = WithEntry(graph.edges, key, Accumulate(EntryOf(graph.edges, key), worth))
    BY <1>11 DEF WithEvidence
  <2>2. new.id = t.id /\ new.dev = t.dev
    OBVIOUS
  <2> HIDE DEF new
  <2>3. /\ GraphIsNumbered' /\ new \in graph'.artifacts
        /\ \A a \in graph.artifacts : \E b \in graph'.artifacts : b.id = a.id /\ b.dev = a.dev
        /\ \A g : g # h => Numbered(g)' = Numbered(g)
    <3> HIDE DEF t, h
    <3> QED BY <1>2, <1>3, <1>5, <2>1, <2>2, EvidenceIsNumbered DEF Searchable
  <2>4. EdgesAreSound'
    <3> HIDE DEF t, worth
    <3> QED BY <1>2, <1>3, <2>1, EdgesStaySound DEF Searchable
  <2>5. IsIndexOf(index, graph.artifacts)'
    BY <1>6, <2>3 DEF Searchable, IsIndexOf
  <2>6. HandIsNumbered(w)'
    BY <1>1, <1>7, <1>8, <1>9, <2>2, <2>3 DEF HandIsNumbered
  <2>7. ASSUME NEW v \in Workers \ {w} PROVE HandIsNumbered(v)'
    <3>1. task'[v] = task[v] /\ HandIsNumbered(v)
      BY <1>1 DEF Only, Searchable
    <3>2. ASSUME task[v].at \in {"read", "write"} PROVE Hash(v) # h
      <4>1. PICK q \in work[v].rows : q.hash = Hash(v)
        BY <3>2 DEF Honest, HandIsOpen
      <4> QED BY <1>4, <4>1 DEF Story, Apart
    <3>3. Hash(v)' = Hash(v)
      BY <3>1 DEF Hash
    <3>4. CASE task[v].at \in {"read", "write"}
      <4>1. Numbered(Hash(v))' = Numbered(Hash(v))
        <5> DEFINE g == Hash(v)
        <5>1. g # h /\ g' = g
          BY <3>2, <3>3, <3>4
        <5>2. Numbered(g)' = {a \in graph'.artifacts : a.id[1] = g}
          BY <5>1 DEF Numbered
        <5> QED BY <2>3, <5>1, <5>2 DEF Numbered
      <4> QED BY <2>3, <3>1, <3>3, <4>1 DEF HandIsNumbered
    <3>5. CASE task[v].at \notin {"read", "write"}
      BY <3>1, <3>5 DEF HandIsNumbered
    <3> QED BY <3>4, <3>5
  <2> QED BY <2>3, <2>4, <2>5, <2>6, <2>7 DEF Searchable
<1> QED BY <1>10, <1>11 DEF WriteSkill

\* The index a search uses is as large as the graph, and holds artifacts of the graph.
LEMMA GetIndexIsAnIndex ==
    ASSUME Searchable
    PROVE  LET i == GetIndex(index, graph)
           IN  IsIndexOf(i, graph.artifacts) /\ i.size = Cardinality(graph.artifacts)
<1>1. CASE index.size = Cardinality(graph.artifacts)
  BY <1>1 DEF GetIndex, Searchable
<1>2. CASE index.size # Cardinality(graph.artifacts)
  <2> DEFINE i == [size |-> Cardinality(graph.artifacts), evidence |-> graph.artifacts]
  <2>1. GetIndex(index, graph) = i
    BY <1>2 DEF GetIndex
  <2>2. i.size = Cardinality(graph.artifacts) /\ i.evidence = graph.artifacts
    OBVIOUS
  <2> HIDE DEF i
  <2> QED BY <2>1, <2>2 DEF IsIndexOf, Searchable, GraphIsNumbered
<1> QED BY <1>1, <1>2

LEMMA SearchIsSearchable == ASSUME Searchable, Search PROVE Searchable'
<1>1. graph' = graph /\ task' = task /\ index' = GetIndex(index, graph)
  BY DEF Search, running
<1>2. IsIndexOf(index, graph.artifacts)'
  <2>1. IsIndexOf(GetIndex(index, graph), graph.artifacts)
    BY GetIndexIsAnIndex
  <2> DEFINE i == GetIndex(index, graph)
  <2> HIDE DEF i
  <2>2. IsIndexOf(i, graph.artifacts) /\ index' = i
    BY <1>1, <2>1 DEF i
  <2> QED BY <1>1, <2>2 DEF IsIndexOf
<1>3. GraphIsNumbered' /\ EdgesAreSound'
  BY <1>1 DEF Searchable, GraphIsNumbered, EdgesAreSound, Numbered
<1>4. ASSUME NEW w \in Workers PROVE HandIsNumbered(w)'
  BY <1>1 DEF Searchable, HandIsNumbered, Hash, Numbered
<1> QED BY <1>2, <1>3, <1>4 DEF Searchable

LEMMA SearchableNext == Shapes /\ Honest /\ Story /\ Searchable /\ [Next]_vars => Searchable'
<1> SUFFICES ASSUME Shapes, Honest, Story, Searchable, [Next]_vars PROVE Searchable'
  OBVIOUS
<1>1. ASSUME NEW w \in Workers, NEW d \in Developers, Connect(w, d) PROVE Searchable'
  <2>1. UNCHANGED <<graph, index>>
    BY <1>1 DEF Connect, search
  <2>2. Only(w) /\ task'[w].at \notin {"insert", "read", "write"}
    BY <1>1, ConnectMoves
  <2> QED BY <2>1, <2>2, EmptyHand
<1>2. CASE SyncAllDevelopers \/ UNCHANGED vars
  <2>1. UNCHANGED <<task, graph, index>>
    BY <1>2 DEF SyncAllDevelopers, vars, search, running
  <2>2. GraphIsNumbered' /\ EdgesAreSound' /\ IsIndexOf(index, graph.artifacts)'
    BY <2>1 DEF Searchable, GraphIsNumbered, EdgesAreSound, IsIndexOf, Numbered
  <2>3. ASSUME NEW v \in Workers PROVE HandIsNumbered(v)'
    BY <2>1 DEF Searchable, HandIsNumbered, Hash, Numbered
  <2> QED BY <2>2, <2>3 DEF Searchable
<1>3. ASSUME NEW w \in Workers, NEW m \in queue, Take(w, m) PROVE Searchable'
  <2>1. UNCHANGED <<graph, index>>
    BY <1>3 DEF Take, search
  <2>2. Only(w) /\ task'[w].at \notin {"insert", "read", "write"}
    BY <1>3, TakeMoves
  <2> QED BY <2>1, <2>2, EmptyHand
<1>4. ASSUME NEW w \in Workers, Start(w) PROVE Searchable'
  <2>1. UNCHANGED <<graph, index>>
    BY <1>4 DEF Start, search
  <2>2. Only(w) /\ task'[w].at \notin {"insert", "read", "write"}
    BY <1>4, StartMoves
  <2> QED BY <2>1, <2>2, EmptyHand
<1>5. ASSUME NEW w \in Workers, Fetch(w) PROVE Searchable'
  <2>1. UNCHANGED <<graph, index>>
    BY <1>5 DEF Fetch, search
  <2>2. Only(w) /\ task'[w].at \notin {"insert", "read", "write"}
    BY <1>5, FetchMoves
  <2> QED BY <2>1, <2>2, EmptyHand
<1>6. ASSUME NEW w \in Workers, Enqueue(w) PROVE Searchable'
  <2>1. UNCHANGED <<graph, index>>
    BY <1>6 DEF Enqueue, search
  <2>2. Only(w) /\ task'[w].at \notin {"insert", "read", "write"}
    BY <1>6, EnqueueMoves
  <2> QED BY <2>1, <2>2, EmptyHand
<1>7. ASSUME NEW w \in Workers, Enqueued(w) PROVE Searchable'
  <2>1. UNCHANGED <<graph, index>>
    BY <1>7 DEF Enqueued, search
  <2>2. Only(w) /\ task'[w].at \notin {"insert", "read", "write"}
    BY <1>7, EnqueuedMoves
  <2> QED BY <2>1, <2>2, EmptyHand
<1>8. ASSUME NEW w \in Workers, Check(w) \/ Insert(w) \/ ReadSkill(w) \/ WriteSkill(w) PROVE Searchable'
  BY <1>8, CheckIsSearchable, InsertIsSearchable, ReadSkillIsSearchable, WriteSkillIsSearchable
<1>9. ASSUME NEW w \in Workers, Commit(w) PROVE Searchable'
  <2>1. UNCHANGED <<graph, index>>
    BY <1>9 DEF Commit, search
  <2>2. Only(w) /\ task'[w].at \notin {"insert", "read", "write"}
    BY <1>9, CommitMoves DEF Idle
  <2> QED BY <2>1, <2>2, EmptyHand
<1>10. ASSUME NEW w \in Workers, MarkSynced(w) PROVE Searchable'
  <2>1. UNCHANGED <<graph, index>>
    BY <1>10 DEF MarkSynced, search
  <2>2. Only(w) /\ task'[w].at \notin {"insert", "read", "write"}
    BY <1>10, MarkSyncedMoves DEF Idle
  <2> QED BY <2>1, <2>2, EmptyHand
<1>11. ASSUME NEW w \in Workers, SetError(w) PROVE Searchable'
  <2>1. UNCHANGED <<graph, index>>
    BY <1>11 DEF SetError, search
  <2>2. Only(w) /\ task'[w].at \notin {"insert", "read", "write"}
    BY <1>11, SetErrorMoves DEF Idle
  <2> QED BY <2>1, <2>2, EmptyHand
<1>12. ASSUME NEW w \in Workers, Fail(w) \/ ConstraintViolated(w) \/ DeadlockVictim(w) PROVE Searchable'
  <2>1. Executing(w) /\ Raise(w)
    BY <1>12, FailuresRaise
  <2>2. UNCHANGED <<graph, index>>
    BY <2>1 DEF Raise, search
  <2>3. Only(w) /\ task'[w].at \notin {"insert", "read", "write"}
    BY <2>1, RaiseMoves DEF IsResting, Idle, Unreported
  <2> QED BY <2>2, <2>3, EmptyHand
<1>13. ASSUME NEW w \in Workers, Crash(w) PROVE Searchable'
  <2>1. UNCHANGED <<graph, index>>
    BY <1>13 DEF Crash, search
  <2>2. Only(w) /\ task'[w].at \notin {"insert", "read", "write"}
    BY <1>13, CrashMoves DEF IsResting, Idle, Unreported
  <2> QED BY <2>1, <2>2, EmptyHand
<1>14. CASE Search
  BY <1>14, SearchIsSearchable
<1> QED BY <1>1, <1>2, <1>3, <1>4, <1>5, <1>6, <1>7, <1>8, <1>9, <1>10, <1>11, <1>12, <1>13, <1>14
           DEF Next, Step

-----------------------------------------------------------------------------
(* What a search answers *)

LEMMA ImageIsFinite ==
    ASSUME NEW f, IsFiniteSet(DOMAIN f) PROVE IsFiniteSet({f[x] : x \in DOMAIN f})
<1> DEFINE S == DOMAIN f
           T == {f[x] : x \in S}
           g == [x \in S |-> f[x]]
<1>1. g \in Surjection(S, T)
  <2>1. g \in [S -> T] /\ \A y \in T : \E x \in S : g[x] = y
    OBVIOUS
  <2> QED BY <2>1 DEF Surjection
<1> QED BY <1>1, FS_Surjection

\* BestFirst lists everyone, whoever is valued more before whoever is valued less.
LEMMA BestFirstLists ==
    ASSUME NEW value, IsFiniteSet(DOMAIN value), NEW D \in SUBSET Nat, DOMAIN value \subseteq D,
           \A d \in DOMAIN value : value[d] \in Int
    PROVE  LET s == BestFirst(value)
           IN  /\ s \in Seq(D) /\ \A d \in DOMAIN value : \E k \in 1..Len(s) : s[k] = d
               /\ \A j, k \in 1..Len(s) : j < k => value[s[j]] >= value[s[k]]
               /\ \A k \in 1..Len(s) : s[k] \in DOMAIN value
<1> DEFINE S == DOMAIN value
           ahead == [d \in S |-> {e \in S : value[e] > value[d] \/ (value[e] = value[d] /\ e < d)}]
           n == Cardinality(S)
           s == Sorted(ahead)
<1>1. /\ DOMAIN ahead = S
      /\ \A d, e \in S : e \in ahead[d] <=> (value[e] > value[d] \/ (value[e] = value[d] /\ e < d))
      /\ \A d \in S : ahead[d] \subseteq S
      /\ \A d \in S : d \in Nat /\ value[d] \in Int
  OBVIOUS
<1>2. s = BestFirst(value)
  BY DEF BestFirst
<1> HIDE DEF ahead
<1>3. Ranks(ahead)
  <2>1. ASSUME NEW x \in S, NEW y \in S, x \in ahead[y], NEW z \in ahead[x] PROVE z \in ahead[y]
    <3>1. z \in S
      BY <1>1
    <3> QED BY <1>1, <2>1, <3>1
  <2>2. \A x, y \in S : x # y => x \in ahead[y] \/ y \in ahead[x]
    BY <1>1
  <2>3. \A x \in S : x \notin ahead[x]
    BY <1>1
  <2>4. \A x, y \in S : x \in ahead[y] => ahead[x] \subseteq ahead[y]
    BY <2>1
  <2> QED BY <1>1, <2>2, <2>3, <2>4 DEF Ranks
<1>4. /\ n \in Nat /\ s \in [1..n -> S]
      /\ \A x \in S : \E k \in 1..n : s[k] = x
      /\ \A j, k \in 1..n : s[j] \in ahead[s[k]] <=> j < k
  BY <1>1, <1>3, SortedIsInOrder
<1> HIDE DEF s
<1>5. s \in Seq(D) /\ Len(s) = n
  <2>1. s \in [1..n -> D]
    BY <1>4
  <2> QED BY <1>4, <2>1
<1>6. ASSUME NEW j \in 1..n, NEW k \in 1..n, j < k PROVE value[s[j]] >= value[s[k]]
  <2>1. s[j] \in S /\ s[k] \in S /\ s[j] \in ahead[s[k]]
    BY <1>4, <1>6
  <2>2. value[s[j]] > value[s[k]] \/ value[s[j]] = value[s[k]]
    BY <1>1, <2>1
  <2>3. value[s[j]] \in Int /\ value[s[k]] \in Int
    BY <1>1, <2>1
  <2> QED BY <2>2, <2>3
<1> QED BY <1>2, <1>4, <1>5, <1>6

\* A limit cuts off the end of a list that is longer.
LEMMA LimitedIsAList ==
    ASSUME NEW D, NEW order \in Seq(D)
    PROVE  /\ Limited(order) \in Seq(D)
           /\ Limited(order) = order \/ Len(Limited(order)) = Limit
           /\ order # <<>> => Limited(order)[1] = order[1]
<1> DEFINE m == Min({Limit, Len(order)})
           some == SubSeq(order, 1, m)
<1>1. Limit \in Nat /\ Limit >= 1 /\ Len(order) \in Nat
  BY EvidenceAssumption
<1>2. m \in Nat /\ m <= Len(order) /\ (m = Limit \/ m = Len(order)) /\ (Len(order) >= 1 => m >= 1)
  BY <1>1, LesserOfTwo
<1> HIDE DEF m
<1>3. some \in Seq(D) /\ Len(some) = m /\ \A i \in 1..m : some[i] = order[i]
  BY <1>1, <1>2, SubSeqProperties
<1>4. m = Len(order) => some = order
  <2> HIDE DEF some
  <2> QED BY <1>3, SeqEqual
<1>5. order # <<>> => some[1] = order[1]
  <2>1. order # <<>> => Len(order) >= 1
    OBVIOUS
  <2> HIDE DEF some
  <2> QED BY <1>2, <1>3, <2>1
<1> QED BY <1>2, <1>3, <1>4, <1>5 DEF Limited, m

\* The best of a finite set: for any number of them, a choice that none of the others beats.
LEMMA BestAreThere ==
    ASSUME NEW S, IsFiniteSet(S), NEW f, \A x \in S : f[x] \in Int, NEW k \in 0..Cardinality(S)
    PROVE  \E H \in SUBSET S : Cardinality(H) = k /\ \A a \in H, b \in S \ H : f[a] >= f[b]
<1> DEFINE n == Cardinality(S)
<1>1. n \in Nat /\ ExistsBijection(1..n, S)
  BY FS_CardinalityType
<1>2. PICK g : g \in Bijection(1..n, S)
  BY <1>1 DEF ExistsBijection
<1> DEFINE at == [x \in S |-> CHOOSE i \in 1..n : g[i] = x]
<1>3. \A x \in S : at[x] \in 1..n /\ g[at[x]] = x
  BY <1>2 DEF Bijection, Surjection
<1> HIDE DEF at
<1> DEFINE ahead == [x \in S |-> {y \in S : f[y] > f[x] \/ (f[y] = f[x] /\ at[y] < at[x])}]
           s == Sorted(ahead)
<1>4. /\ DOMAIN ahead = S
      /\ \A x, y \in S : y \in ahead[x] <=> (f[y] > f[x] \/ (f[y] = f[x] /\ at[y] < at[x]))
      /\ \A x \in S : ahead[x] \subseteq S
      /\ \A x \in S : at[x] \in Int /\ f[x] \in Int
      /\ \A x, y \in S : at[x] = at[y] => x = y
  BY <1>1, <1>3
<1> HIDE DEF ahead
<1>5. Ranks(ahead)
  <2>1. ASSUME NEW x \in S, NEW y \in S, x \in ahead[y], NEW z \in ahead[x] PROVE z \in ahead[y]
    <3>1. z \in S
      BY <1>4
    <3> QED BY <1>4, <2>1, <3>1
  <2>2. \A x, y \in S : x # y => x \in ahead[y] \/ y \in ahead[x]
    BY <1>4
  <2>3. \A x \in S : x \notin ahead[x]
    BY <1>4
  <2>4. \A x, y \in S : x \in ahead[y] => ahead[x] \subseteq ahead[y]
    BY <2>1
  <2> QED BY <1>4, <2>2, <2>3, <2>4 DEF Ranks
<1>6. /\ s \in [1..n -> S]
      /\ \A x \in S : \E i \in 1..n : s[i] = x
      /\ \A i, j \in 1..n : s[i] \in ahead[s[j]] <=> i < j
      /\ \A i, j \in 1..n : s[i] = s[j] => i = j
  BY <1>4, <1>5, SortedIsInOrder
<1> HIDE DEF s
<1>7. k \in Nat /\ 1..k \subseteq 1..n /\ \A i \in 1..n : i \notin 1..k => k < i
  BY <1>1
<1> DEFINE H == {s[i] : i \in 1..k}
           first == [i \in 1..k |-> s[i]]
<1>8. H \subseteq S /\ \A b \in S \ H : \E j \in 1..n : k < j /\ s[j] = b
  BY <1>6, <1>7
<1>9. Cardinality(H) = k
  <2>1. first \in Bijection(1..k, H)
    <3>1. first \in [1..k -> H] /\ \A y \in H : \E i \in 1..k : first[i] = y
      OBVIOUS
    <3>2. \A i, j \in 1..k : first[i] = first[j] => i = j
      BY <1>6, <1>7
    <3> QED BY <3>1, <3>2 DEF Bijection, Injection, Surjection, IsInjective
  <2> QED BY <1>7, <2>1, FS_CountingElements DEF ExistsBijection
<1>10. ASSUME NEW a \in H, NEW b \in S \ H PROVE f[a] >= f[b]
  <2>1. PICK i \in 1..k : a = s[i]
    OBVIOUS
  <2>2. PICK j \in 1..n : k < j /\ s[j] = b
    BY <1>8
  <2>3. i \in 1..n /\ i < j
    BY <1>1, <1>7, <2>2
  <2>4. a \in S /\ b \in S /\ a \in ahead[b]
    BY <1>6, <2>1, <2>2, <2>3
  <2>5. f[a] > f[b] \/ f[a] = f[b]
    BY <1>4, <2>4
  <2>6. f[a] \in Int /\ f[b] \in Int
    BY <1>4, <2>4
  <2> QED BY <2>5, <2>6
<1> HIDE DEF H
<1> QED BY <1>8, <1>9, <1>10

\* Each place of an order gives less credit than the first: millionths tell them apart for RrfK < 1000.
LEMMA FirstPlaceCounts ==
    ASSUME RrfK < 1000, NEW j \in Nat, j >= 2
    PROVE  Million \div (RrfK + j) < Million \div (RrfK + 1)
<1> DEFINE a == RrfK + 1
           b == RrfK + j
           q == Million \div b
           p == Million \div a
<1>1. /\ a \in Nat /\ b \in Nat /\ a >= 2 /\ a <= 1000 /\ b >= a + 1
      /\ Million \in Nat /\ Million = 1000 * 1000
  BY EvidenceAssumption DEF Million, Unit
<1> HIDE DEF a, b
<1>2. q \in Nat /\ p \in Nat /\ q * b <= Million /\ Million < p * a + a
  BY <1>1
<1> HIDE DEF q, p
<1>3. q * (a + 1) <= q * b
  BY <1>1, <1>2
<1>4. q * (a + 1) = q * a + q /\ q * a \in Nat /\ p * a \in Nat /\ q * b \in Nat
  BY <1>1, <1>2
<1>5. q * a + a <= Million
  <2>1. CASE q >= a
    BY <1>1, <1>2, <1>3, <1>4, <2>1
  <2>2. CASE q < a
    <3>1. q + 1 <= 1000 /\ (q + 1) * a <= 1000 * a /\ (q + 1) * a = q * a + a
      BY <1>1, <1>2, <2>2
    <3>2. 1000 * a <= Million
      BY <1>1
    <3> QED BY <1>1, <1>2, <1>4, <3>1, <3>2
  <2> QED BY <1>1, <1>2, <2>1, <2>2
<1>6. ASSUME q >= p PROVE FALSE
  <2>1. q * a >= p * a
    BY <1>1, <1>2, <1>6
  <2> QED BY <1>1, <1>2, <1>4, <1>5, <2>1
<1>7. q < p
  BY <1>2, <1>6
<1> QED BY <1>7 DEF q, p, a, b

LEMMA CreditIsANumber ==
    ASSUME NEW D, NEW order \in Seq(D), NEW d
    PROVE  /\ Credit(order, d) \in Nat
           /\ order = <<>> => Credit(order, d) = 0
           /\ order # <<>> /\ d = order[1] => Credit(order, d) = Million \div (RrfK + 1)
           /\ order # <<>> /\ d # order[1] =>
                 Credit(order, d) = 0 \/ \E j \in Nat : j >= 2 /\ Credit(order, d) = Million \div (RrfK + j)
<1> DEFINE at == {i \in DOMAIN order : order[i] = d}
           n == Len(order)
<1>1. n \in Nat /\ DOMAIN order = 1..n /\ RrfK \in Nat \ {0} /\ Million \in Nat
  BY EvidenceAssumption DEF Million, Unit
<1>2. at \in SUBSET (1..n)
  BY <1>1
<1>3. at \in SUBSET Int /\ IsFiniteSet(at)
  BY <1>1, <1>2, UpToIsFinite, FS_Subset
<1>4. Credit(order, d) = IF at = {} THEN 0 ELSE Million \div (RrfK + Min(at))
  BY DEF Credit
<1>5. at # {} => Min(at) \in at /\ Min(at) \in 1..n
  <2> HIDE DEF at
  <2> QED BY <1>2, <1>3, MinIsThere
<1>6. Credit(order, d) \in Nat
  <2> DEFINE m == RrfK + Min(at)
  <2> HIDE DEF at
  <2>1. at # {} => m \in Nat \ {0}
    BY <1>1, <1>5
  <2> HIDE DEF m
  <2>2. at # {} => Million \div m \in Nat
    BY <1>1, <2>1, QuotientIsNat
  <2> QED BY <1>4, <2>2 DEF m
<1>7. ASSUME order = <<>> PROVE Credit(order, d) = 0
  <2>1. at = {}
    BY <1>7
  <2> QED BY <1>4, <2>1
<1>8. ASSUME order # <<>>, d = order[1] PROVE Credit(order, d) = Million \div (RrfK + 1)
  <2>1. 1 \in at
    BY <1>1, <1>8
  <2>2. Min(at) <= 1
    <3> HIDE DEF at
    <3> QED BY <1>3, <2>1, MinIsThere
  <2> HIDE DEF at
  <2>3. Min(at) = 1
    BY <1>1, <1>5, <2>1, <2>2
  <2> QED BY <1>4, <2>1, <2>3
<1>9. ASSUME order # <<>>, d # order[1]
      PROVE  Credit(order, d) = 0 \/ \E j \in Nat : j >= 2 /\ Credit(order, d) = Million \div (RrfK + j)
  <2>1. 1 \notin at
    BY <1>9
  <2> HIDE DEF at
  <2>2. at # {} => Min(at) \in Nat /\ Min(at) >= 2
    BY <1>1, <1>5, <2>1
  <2> QED BY <1>4, <2>2
<1> QED BY <1>6, <1>7, <1>8, <1>9

\* Fusing two orders loses nobody, and keeps a first place that both give.
LEMMA FusedKeepsFirst ==
    ASSUME NEW D \in SUBSET Nat, NEW structured \in Seq(D), NEW semantic \in Seq(D)
    PROVE  LET answer == Fused(structured, semantic)
           IN  /\ answer \in Seq(D) /\ \A d \in Range(structured) \cup Range(semantic) : d \in Range(answer)
               /\ structured # <<>> => answer # <<>>
               /\ /\ RrfK < 1000 /\ structured # <<>>
                  /\ semantic = <<>> \/ structured[1] = semantic[1]
                  => answer[1] = structured[1]
<1> DEFINE both == Range(structured) \cup Range(semantic)
           value == [d \in both |-> Credit(structured, d) + Credit(semantic, d)]
           answer == BestFirst(value)
<1>1. both \subseteq D /\ IsFiniteSet(both)
  <2>1. ASSUME NEW s \in Seq(D) PROVE Range(s) \subseteq D /\ IsFiniteSet(Range(s))
    <3>1. DOMAIN s = 1..Len(s) /\ Len(s) \in Nat /\ Range(s) = {s[i] : i \in DOMAIN s}
      BY DEF Range
    <3>2. IsFiniteSet(DOMAIN s)
      BY <3>1, UpToIsFinite
    <3>3. IsFiniteSet(Range(s))
      BY <3>1, <3>2, ImageIsFinite
    <3> QED BY <3>1, <3>3
  <2>2. /\ Range(structured) \subseteq D /\ IsFiniteSet(Range(structured))
        /\ Range(semantic) \subseteq D /\ IsFiniteSet(Range(semantic))
    BY <2>1
  <2> QED BY <2>2, FS_Union
<1>2. \A d : Credit(structured, d) \in Nat /\ Credit(semantic, d) \in Nat
  BY CreditIsANumber
<1>3. answer = Fused(structured, semantic)
  BY DEF Fused
<1> HIDE DEF both
<1>4. DOMAIN value = both /\ \A d \in both : value[d] = Credit(structured, d) + Credit(semantic, d)
  OBVIOUS
<1>5. \A d \in DOMAIN value : value[d] \in Int
  BY <1>2, <1>4
<1> HIDE DEF value
<1>6. /\ answer \in Seq(D) /\ \A d \in both : \E k \in 1..Len(answer) : answer[k] = d
      /\ \A j, k \in 1..Len(answer) : j < k => value[answer[j]] >= value[answer[k]]
      /\ \A k \in 1..Len(answer) : answer[k] \in both
  BY <1>1, <1>4, <1>5, BestFirstLists
<1> HIDE DEF answer
<1>7. \A d \in both : d \in Range(answer)
  <2>1. DOMAIN answer = 1..Len(answer)
    BY <1>6
  <2> QED BY <1>6, <2>1 DEF Range
<1>8. ASSUME RrfK < 1000, structured # <<>>, semantic = <<>> \/ structured[1] = semantic[1]
      PROVE  answer[1] = structured[1]
  <2> DEFINE first == structured[1]
  <2>1. first \in both
    <3>1. 1 \in DOMAIN structured
      BY <1>8
    <3> QED BY <3>1 DEF both, Range
  <2>2. ASSUME NEW d \in both, d # first PROVE value[d] < value[first]
    <3> DEFINE top == Million \div (RrfK + 1)
    <3>1. top \in Nat /\ \A j \in Nat : j >= 2 => Million \div (RrfK + j) < top
      <4>1. Credit(structured, first) = top
        BY <1>8, CreditIsANumber
      <4> QED BY <1>2, <1>8, <4>1, FirstPlaceCounts
    <3>2. 0 < top
      <4>1. Million \div (RrfK + 2) < top
        BY <3>1
      <4>2. RrfK + 2 \in Nat \ {0} /\ Million \in Nat
        BY EvidenceAssumption DEF Million, Unit
      <4> DEFINE m == RrfK + 2
      <4> HIDE DEF m
      <4>3. Million \div m \in Nat
        BY <4>2, QuotientIsNat DEF m
      <4> HIDE DEF top
      <4> QED BY <3>1, <4>1, <4>3 DEF m
    <3> HIDE DEF top
    <3>3. Credit(structured, first) = top /\ Credit(structured, d) < top
      <4>1. /\ Credit(structured, first) = top
            /\ Credit(structured, d) = 0 \/ \E j \in Nat : j >= 2 /\ Credit(structured, d) = Million \div (RrfK + j)
        BY <1>8, <2>2, CreditIsANumber DEF top
      <4> QED BY <3>1, <3>2, <4>1
    <3>4. Credit(semantic, d) <= Credit(semantic, first)
      <4>1. CASE semantic = <<>>
        <5>1. Credit(semantic, d) = 0 /\ Credit(semantic, first) = 0
          BY <4>1, CreditIsANumber
        <5> QED BY <5>1
      <4>2. CASE semantic # <<>>
        <5>1. first = semantic[1]
          BY <1>8, <4>2
        <5>2. /\ Credit(semantic, first) = top
              /\ Credit(semantic, d) = 0 \/ \E j \in Nat : j >= 2 /\ Credit(semantic, d) = Million \div (RrfK + j)
          BY <2>2, <4>2, <5>1, CreditIsANumber DEF top
        <5> QED BY <1>2, <3>1, <3>2, <5>2
      <4> QED BY <4>1, <4>2
    <3> QED BY <1>2, <1>4, <2>1, <3>3, <3>4
  <2> HIDE DEF first
  <2>3. PICK k \in 1..Len(answer) : answer[k] = first
    BY <1>6, <2>1
  <2>4. 1 \in 1..Len(answer) /\ k >= 1 /\ Len(answer) \in Nat
    BY <1>6
  <2>5. CASE k = 1
    BY <2>3, <2>5 DEF first
  <2>6. CASE k # 1
    <3>1. value[answer[1]] >= value[first] /\ answer[1] \in both
      BY <1>6, <2>3, <2>4, <2>6
    <3>2. value[first] \in Int /\ value[answer[1]] \in Int
      BY <1>4, <1>5, <2>1, <3>1
    <3>3. answer[1] = first
      BY <2>2, <3>1, <3>2
    <3> QED BY <3>3 DEF first
  <2> QED BY <2>5, <2>6
<1>9. ASSUME structured # <<>> PROVE answer # <<>>
  <2>1. structured[1] \in both
    <3>1. 1 \in DOMAIN structured
      BY <1>9
    <3> QED BY <3>1 DEF both, Range
  <2>2. PICK k \in 1..Len(answer) : answer[k] = structured[1]
    BY <1>6, <2>1
  <2> QED BY <2>2
<1> QED BY <1>3, <1>6, <1>7, <1>8, <1>9 DEF both

\* An index as large as the graph has evidence of whoever has an artifact in it.
LEMMA IndexHasEveryone ==
    ASSUME NEW i, NEW artifacts, IsFiniteSet(artifacts), \A a, b \in artifacts : a.id = b.id => a = b,
           IsIndexOf(i, artifacts), i.size = Cardinality(artifacts)
    PROVE  \A a \in artifacts : \E e \in i.evidence : e.dev = a.dev
<1> DEFINE E == i.evidence
           source == [e \in E |-> CHOOSE a \in artifacts : a.id = e.id /\ a.dev = e.dev]
<1>1. \A e \in E : source[e] \in artifacts /\ source[e].id = e.id /\ source[e].dev = e.dev
  BY DEF IsIndexOf
<1>2. source \in [E -> artifacts]
  BY <1>1
<1> HIDE DEF source
<1>3. source \in Injection(E, artifacts)
  BY <1>1, <1>2 DEF Injection, IsInjective, IsIndexOf
<1>4. source \in Surjection(E, artifacts)
  <2>1. Cardinality(E) = Cardinality(artifacts)
    BY DEF IsIndexOf
  <2> HIDE DEF E
  <2> QED BY <1>3, <2>1, FS_Injection
<1> QED BY <1>1, <1>4 DEF Surjection

\* A search hits evidence of the index: all of it, when it fits into one answer.
LEMMA HitsAreEvidence ==
    ASSUME NEW E, IsFiniteSet(E), NEW query
    PROVE  /\ Hits(E, query) \subseteq E
           /\ Cardinality(E) <= VectorTopK => Hits(E, query) = E
<1> DEFINE k == Min({VectorTopK, Cardinality(E)})
           Good(H) == /\ Cardinality(H) = k
                      /\ \A a \in H, b \in E \ H : Similarity(a, query) >= Similarity(b, query)
<1>1. Cardinality(E) \in Nat /\ VectorTopK \in Nat
  BY FS_CardinalityType, EvidenceAssumption
<1>2. k \in 0..Cardinality(E) /\ (Cardinality(E) <= VectorTopK => k = Cardinality(E))
  BY <1>1, LesserOfTwo
<1> DEFINE f == [e \in E |-> Similarity(e, query)]
<1>3. \A e \in E : f[e] = Similarity(e, query) /\ f[e] \in Int
  BY DEF Similarity
<1> HIDE DEF f, k
<1>4. \E H \in SUBSET E : Good(H)
  <2>1. PICK H \in SUBSET E : Cardinality(H) = k /\ \A a \in H, b \in E \ H : f[a] >= f[b]
    BY <1>2, <1>3, BestAreThere
  <2>2. Good(H)
    BY <1>3, <2>1
  <2> QED BY <2>2
<1>5. Hits(E, query) = CHOOSE H \in SUBSET E : Good(H)
  BY DEF Hits, k
<1> DEFINE hits == Hits(E, query)
<1>6. hits \in SUBSET E /\ Cardinality(hits) = k
  BY <1>4, <1>5
<1> HIDE DEF hits
<1>7. ASSUME Cardinality(E) <= VectorTopK PROVE hits = E
  BY <1>2, <1>6, <1>7, FS_Subset
<1> QED BY <1>6, <1>7 DEF hits

\* The semantic order lists developers, and everyone with evidence that was hit.
LEMMA SemanticIsAList ==
    ASSUME NEW D \in SUBSET Nat, NEW i, IsFiniteSet(i.evidence), \A e \in i.evidence : e.dev \in D, NEW query
    PROVE  /\ Semantic(i, query) \in Seq(D)
           /\ Cardinality(i.evidence) <= VectorTopK =>
                 \A e \in i.evidence : e.dev \in Range(Semantic(i, query))
<1> DEFINE E == i.evidence
           hits == Hits(E, query)
           devs == {a.dev : a \in hits}
           of(d) == {a \in hits : a.dev = d}
           value == [d \in devs |-> Max({Similarity(a, query) : a \in of(d)})]
           s == BestFirst(value)
<1>1. Semantic(i, query) = s
  BY DEF Semantic
<1>2. hits \subseteq E /\ IsFiniteSet(hits) /\ (Cardinality(E) <= VectorTopK => hits = E)
  <2>1. hits \subseteq E /\ (Cardinality(E) <= VectorTopK => hits = E)
    BY HitsAreEvidence
  <2> HIDE DEF hits, E
  <2>2. IsFiniteSet(E)
    BY DEF E
  <2> QED BY <2>1, <2>2, FS_Subset
<1> HIDE DEF hits
<1>3. devs \subseteq D /\ IsFiniteSet(devs)
  <2> DEFINE dev == [a \in hits |-> a.dev]
  <2>1. devs = {dev[a] : a \in DOMAIN dev} /\ DOMAIN dev = hits
    OBVIOUS
  <2> HIDE DEF dev
  <2>2. IsFiniteSet({dev[a] : a \in DOMAIN dev})
    BY <1>2, <2>1, ImageIsFinite
  <2> QED BY <1>2, <2>1, <2>2
<1>4. ASSUME NEW d \in devs PROVE value[d] \in Int
  <2> DEFINE degrees == {Similarity(a, query) : a \in of(d)}
  <2>1. degrees \in SUBSET Int /\ degrees \subseteq {0, 1} /\ degrees # {}
    BY <1>4 DEF Similarity
  <2>2. IsFiniteSet(degrees)
    <3>1. {0, 1} = {0} \cup {1}
      OBVIOUS
    <3>2. IsFiniteSet({0} \cup {1})
      BY FS_Singleton, FS_AddElement
    <3> HIDE DEF degrees
    <3> QED BY <2>1, <3>1, <3>2, FS_Subset
  <2>3. value[d] = Max(degrees)
    BY <1>4
  <2> HIDE DEF degrees, value
  <2> QED BY <2>1, <2>2, <2>3, MaxIsThere
<1>5. DOMAIN value = devs
  OBVIOUS
<1> HIDE DEF value
<1>6. s \in Seq(D) /\ \A d \in devs : \E k \in 1..Len(s) : s[k] = d
  BY <1>3, <1>4, <1>5, BestFirstLists
<1> HIDE DEF s
<1>7. \A d \in devs : d \in Range(s)
  <2>1. DOMAIN s = 1..Len(s)
    BY <1>6
  <2> QED BY <1>6, <2>1 DEF Range
<1>8. ASSUME Cardinality(E) <= VectorTopK PROVE \A e \in E : e.dev \in Range(s)
  BY <1>2, <1>7, <1>8
<1> QED BY <1>1, <1>6, <1>8

\* The developers an edge to the skill leads from, as a list.
LEMMA SkilledAreListed ==
    ASSUME Searchable, NEW skill, NEW least \in Nat
    PROVE  FindBySkill(graph, skill, least) \in Seq(Developers)
<1> DEFINE edges == graph.edges
           keys == {k \in DOMAIN edges : k[2] = skill /\ edges[k].confidence >= least}
           found == {k[1] : k \in keys}
           edge == [d \in found |-> edges[<<d, skill>>]]
           counts == {edge[d].count : d \in found}
           more == 1 + Max({0} \cup counts)
           value == [d \in found |-> more * edge[d].confidence + edge[d].count]
           order == BestFirst(value)
<1>1. /\ IsFiniteSet(DOMAIN edges)
      /\ \A k \in DOMAIN edges : /\ \E d \in Developers : \E s : k = <<d, s>>
                                 /\ edges[k].confidence \in Nat /\ edges[k].count \in Nat
  BY DEF Searchable, EdgesAreSound
<1>2. FindBySkill(graph, skill, least) = Limited(order)
  BY DEF FindBySkill
<1> HIDE DEF edges
<1>3. \A d \in found : d \in Developers /\ <<d, skill>> \in DOMAIN edges
  BY <1>1
<1>4. IsFiniteSet(found)
  <2> DEFINE first == [k \in keys |-> k[1]]
  <2>1. found = {first[k] : k \in DOMAIN first} /\ DOMAIN first = keys /\ keys \in SUBSET DOMAIN edges
    OBVIOUS
  <2> HIDE DEF first, keys
  <2>2. IsFiniteSet(keys)
    BY <1>1, <2>1, FS_Subset
  <2>3. IsFiniteSet({first[k] : k \in DOMAIN first})
    BY <2>1, <2>2, ImageIsFinite
  <2> QED BY <2>1, <2>3
<1> HIDE DEF found
<1>5. \A d \in found : edge[d].confidence \in Nat /\ edge[d].count \in Nat
  BY <1>1, <1>3
<1>6. Max({0} \cup counts) \in Int
  <2> DEFINE count == [d \in found |-> edge[d].count]
             all == {0} \cup counts
  <2>1. counts = {count[d] : d \in DOMAIN count} /\ DOMAIN count = found
    OBVIOUS
  <2>2. \A d \in found : count[d] \in Int
    BY <1>5
  <2> HIDE DEF count, counts
  <2>3. IsFiniteSet(counts) /\ counts \in SUBSET Int
    BY <1>4, <2>1, <2>2, ImageIsFinite
  <2>4. IsFiniteSet(counts \cup {0})
    BY <2>3, FS_AddElement
  <2>5. all = counts \cup {0} /\ all \in SUBSET Int /\ all # {}
    BY <2>3
  <2> HIDE DEF all
  <2>6. Max(all) \in all
    BY <2>4, <2>5, MaxIsThere
  <2>7. Max(all) \in Int
    BY <2>5, <2>6
  <2> QED BY <2>7 DEF all
<1>7. DOMAIN value = found /\ \A d \in DOMAIN value : value[d] \in Int
  <2> DEFINE most == Max({0} \cup counts)
  <2>1. \A d \in found : value[d] = (1 + most) * edge[d].confidence + edge[d].count
    OBVIOUS
  <2>2. DOMAIN value = found /\ most \in Int
    BY <1>6
  <2> HIDE DEF value, edge, most
  <2> QED BY <1>5, <2>1, <2>2
<1> HIDE DEF value
<1>8. Developers \in SUBSET Nat /\ found \subseteq Developers
  BY <1>3, IngestionAssumption
<1>9. order \in Seq(Developers)
  BY <1>4, <1>8, <1>7, BestFirstLists
<1> HIDE DEF order
<1> QED BY <1>2, <1>9, LimitedIsAList

LEMMA DebuggersAreListed ==
    ASSUME Searchable, NEW skill
    PROVE  FindProductionDebuggers(graph, skill) \in Seq(Developers)
<1> DEFINE devs == {a.dev : a \in graph.artifacts}
           hard == [d \in devs |-> Cardinality(HardWork(graph, d, skill))]
           busy == {d \in DOMAIN hard : hard[d] >= 2}
           conf(d) == EntryOf(graph.edges, <<d, skill>>).confidence
           value == [d \in busy |-> 10000 * hard[d] + EntryOf(graph.edges, <<d, skill>>).confidence]
           order == BestFirst(value)
<1>1. IsFiniteSet(graph.artifacts) /\ \A a \in graph.artifacts : a.dev \in Developers
  BY DEF Searchable, GraphIsNumbered
<1>2. FindProductionDebuggers(graph, skill) = Limited(order)
  BY DEF FindProductionDebuggers
<1>3. IsFiniteSet(devs)
  <2> DEFINE dev == [a \in graph.artifacts |-> a.dev]
  <2>1. devs = {dev[a] : a \in DOMAIN dev} /\ DOMAIN dev = graph.artifacts
    OBVIOUS
  <2> HIDE DEF dev
  <2>2. IsFiniteSet({dev[a] : a \in DOMAIN dev})
    BY <1>1, <2>1, ImageIsFinite
  <2> QED BY <2>1, <2>2
<1>4. \A d \in devs : hard[d] \in Nat
  <2> TAKE d \in devs
  <2>1. HardWork(graph, d, skill) \in SUBSET graph.artifacts
    BY DEF HardWork
  <2>2. Cardinality(HardWork(graph, d, skill)) \in Nat
    BY <1>1, <2>1, FS_Subset, FS_CardinalityType
  <2> QED BY <2>2
<1>5. \A d \in devs : conf(d) \in Nat
  BY DEF Searchable, EdgesAreSound, EntryOf, Nothing
<1>6. busy \in SUBSET devs /\ devs \subseteq Developers
  BY <1>1
<1>7. IsFiniteSet(busy) /\ Developers \in SUBSET Nat /\ busy \subseteq Developers
  <2> HIDE DEF busy, devs
  <2> QED BY <1>3, <1>6, FS_Subset, IngestionAssumption
<1>8. DOMAIN value = busy /\ \A d \in DOMAIN value : value[d] = 10000 * hard[d] + conf(d)
  OBVIOUS
<1> HIDE DEF value
<1>9. \A d \in DOMAIN value : value[d] \in Int
  <2> HIDE DEF conf, hard, busy
  <2> QED BY <1>4, <1>5, <1>6, <1>8
<1>10. order \in Seq(Developers)
  <2> HIDE DEF busy
  <2> QED BY <1>7, <1>8, <1>9, BestFirstLists
<1> HIDE DEF order
<1> QED BY <1>2, <1>10, LimitedIsAList

LEMMA StructuredIsAList ==
    ASSUME Searchable, NEW query PROVE Structured(graph, query) \in Seq(Developers)
<1>1. /\ FindProductionDebuggers(graph, query.skill) \in Seq(Developers)
      /\ FindBySkill(graph, query.skill, 500) \in Seq(Developers)
      /\ FindBySkill(graph, query.skill, 0) \in Seq(Developers)
  BY SkilledAreListed, DebuggersAreListed
<1> QED BY <1>1 DEF Structured

LEMMA AnswersAreWhole ==
    ASSUME RrfK < 1000, Searchable PROVE SearchFindsEveryone
<1> SUFFICES ASSUME NEW query
             PROVE  LET answer == Answer(graph, index, query)
                        structured == Structured(graph, query)
                        semantic == Semantic(GetIndex(index, graph), query)
                    IN  /\ Cardinality(graph.artifacts) <= VectorTopK =>
                              \A a \in graph.artifacts : a.dev \in Range(answer) \/ Len(answer) = Limit
                        /\ structured # <<>> /\ structured[1] = semantic[1] => answer[1] = structured[1]
  BY DEF SearchFindsEveryone
<1> DEFINE answer == Answer(graph, index, query)
           structured == Structured(graph, query)
           i == GetIndex(index, graph)
           semantic == Semantic(i, query)
<1>1. /\ IsFiniteSet(graph.artifacts) /\ \A a, b \in graph.artifacts : a.id = b.id => a = b
      /\ \A a \in graph.artifacts : a.dev \in Developers
  BY DEF Searchable, GraphIsNumbered
<1>2. Developers \in SUBSET Nat
  BY IngestionAssumption
<1>3. IsIndexOf(i, graph.artifacts) /\ i.size = Cardinality(graph.artifacts)
  BY GetIndexIsAnIndex
<1> DEFINE order == Fused(structured, semantic)
<1>4. answer = Limited(order)
  BY DEF Answer
<1>5. structured \in Seq(Developers)
  BY StructuredIsAList
<1> HIDE DEF answer, structured, i
<1>6. /\ IsFiniteSet(i.evidence) /\ Cardinality(i.evidence) = Cardinality(graph.artifacts)
      /\ \A e \in i.evidence : e.dev \in Developers
  BY <1>1, <1>3 DEF IsIndexOf
<1>7. /\ semantic \in Seq(Developers)
      /\ Cardinality(i.evidence) <= VectorTopK => \A e \in i.evidence : e.dev \in Range(semantic)
  BY <1>2, <1>6, SemanticIsAList
<1> HIDE DEF semantic
<1>8. /\ order \in Seq(Developers) /\ \A d \in Range(structured) \cup Range(semantic) : d \in Range(order)
      /\ structured # <<>> => order # <<>>
      /\ structured # <<>> /\ structured[1] = semantic[1] => order[1] = structured[1]
  BY <1>2, <1>5, <1>7, FusedKeepsFirst
<1> HIDE DEF order
<1>9. /\ answer = order \/ Len(answer) = Limit
      /\ order # <<>> => answer[1] = order[1]
  BY <1>4, <1>8, LimitedIsAList
<1>10. ASSUME Cardinality(graph.artifacts) <= VectorTopK, NEW a \in graph.artifacts
       PROVE  a.dev \in Range(answer) \/ Len(answer) = Limit
  <2>1. PICK e \in i.evidence : e.dev = a.dev
    BY <1>1, <1>3, IndexHasEveryone
  <2>2. a.dev \in Range(order)
    BY <1>6, <1>7, <1>8, <1>10, <2>1
  <2> QED BY <1>9, <2>2
<1>11. structured # <<>> /\ structured[1] = semantic[1] => answer[1] = structured[1]
  BY <1>8, <1>9
<1> QED BY <1>10, <1>11 DEF answer, structured, semantic, i

\* Whoever has evidence is found unless the answer is full, for any developers, artifacts, workers and
\* faults, whatever the index was built of (get_index builds it again only when the amount of evidence has
\* changed), while the evidence fits into one answer of the index; and a first place that both retrievers
\* give stays first. Credits in millionths tell places apart for a graph_rrf_k below 1000; it is 60.
THEOREM SearchAlwaysFindsEveryone == ASSUME RrfK < 1000 PROVE Spec => []SearchFindsEveryone
<1>1. Spec => []Searchable
  <2>1. Init => Searchable
    BY SearchableInit
  <2>2. Shapes /\ Honest /\ Story /\ Searchable /\ [Next]_vars => Searchable'
    BY SearchableNext
  <2> QED BY <2>1, <2>2, WorkersAreHonest, StoryIsTold, PTL DEF Spec
<1>2. Searchable => SearchFindsEveryone
  BY AnswersAreWhole
<1> QED BY <1>1, <1>2, PTL
=============================================================================
