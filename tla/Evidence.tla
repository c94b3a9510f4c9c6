----------------------------- MODULE Evidence ------------------------------
(***************************************************************************)
(* Evidence without its processes: what a GitHub answer holds               *)
(* (ingestion/github_client.py), what an artifact demonstrates and how much  *)
(* that is worth (intelligence/), the evidence graph (graph/schema.py) and   *)
(* the search over it (graph/natural_language_query.py,                      *)
(* graph/vector_index.py). Fractions are thousandths.                       *)
(***************************************************************************)
EXTENDS Integers, Sequences, SequencesExt, Order

CONSTANTS Normaliser,  \* NORMALISER: perfect recent commits for full confidence
          RrfK,        \* graph_rrf_k
          VectorTopK,  \* graph_vector_top_k
          Limit        \* limit of an intent

ASSUME EvidenceAssumption == {Normaliser, RrfK, VectorTopK, Limit} \subseteq Nat \ {0}

Unit == 1000
Clip(x) == Max({0, Min({x, Unit})})

SourceWeight == [commit |-> 1000, pull |-> 900, issue |-> 700]

\* What GitHub shows of a developer. A list of skills has no repeats; `llm` holds what a model may
\* answer about an artifact.
SkillList == {names \in Seq(STRING) : IsInjective(names)}
Artifact == [hash : STRING, type : DOMAIN SourceWeight, blank : BOOLEAN, mentions : SkillList,
             llm : SUBSET [skills : SkillList, complexity : Int], hard : Nat, trivial : BOOLEAN,
             years : Nat]
Repository == [commits : Seq(Artifact), pulls : Seq(Artifact), issues : Seq(Artifact)]

\* parse and _iter_artifacts: the commits of all the repositories, then pull requests, then issues.
Parse(repositories) ==
    LET Of(kind) == FlattenSeq([i \in DOMAIN repositories |-> repositories[i][kind]])
    IN  Of("commits") \o Of("pulls") \o Of("issues")

(* Summaries *)

\* An artifact has the skills its text mentions, and counts of hard words; a short one may be trivial.
Complexity(a) == IF a.trivial THEN 1 ELSE Max({1, Min({2 + a.hard, 5})})

Heuristic(a) == [skills |-> a.mentions, complexity |-> Complexity(a)]

\* summarise_artifact: what a model answers, canonical and clamped, or the heuristic without one.
Summaries(a) ==
    {Heuristic(a)} \cup
    {[skills |-> IF answer.skills = <<>> THEN a.mentions ELSE answer.skills,
      complexity |-> Max({1, Min({answer.complexity, 5})})] : answer \in a.llm}

\* _decay: confidence halves every year.
Decayed(confidence, years) ==
    LET left[n \in 0..years] == IF n = 0 THEN confidence ELSE left[n - 1] \div 2 IN left[years]

\* compute_confidence of one record
Contribution(a, complexity) ==
    Clip(Decayed((SourceWeight[a.type] * complexity) \div (5 * Normaliser), a.years))

\* One more contribution to a skill: confidence accumulates and clamps.
Accumulate(entry, contribution) ==
    [confidence |-> Min({entry.confidence + contribution, Unit}), count |-> entry.count + 1]

Nothing == [confidence |-> 0, count |-> 0]
EntryOf(table, key) == IF key \in DOMAIN table THEN table[key] ELSE Nothing

\* A table of entries with those of another written over it.
Over(table, new) ==
    [key \in DOMAIN new \cup DOMAIN table |-> IF key \in DOMAIN new THEN new[key] ELSE table[key]]
WithEntry(table, key, entry) == Over(table, [k \in {key} |-> entry])

(* The graph: its artifacts with the skills they demonstrate, and its HAS_SKILL edges *)

NoGraph == [artifacts |-> {}, edges |-> <<>>]

\* upsert_skill_with_evidence
WithEvidence(graph, dev, skill, row, contribution) ==
    LET old == {a \in graph.artifacts : a.id = row.id}
        skills == UNION {a.skills : a \in old} \cup {skill}
    IN  [artifacts |-> (graph.artifacts \ old)
                       \cup {[id |-> row.id, dev |-> dev, complexity |-> row.complexity, skills |-> skills]},
         edges |-> WithEntry(graph.edges, <<dev, skill>>,
                             Accumulate(EntryOf(graph.edges, <<dev, skill>>), contribution))]

(* Search *)

\* The developers of DOMAIN value, the most valued first. Ties, which the code leaves in the order of
\* insertion, are broken by number.
BestFirst(value) ==
    Sorted([d \in DOMAIN value |->
        {e \in DOMAIN value : value[e] > value[d] \/ (value[e] = value[d] /\ e < d)}])
Limited(order) == SubSeq(order, 1, Min({Limit, Len(order)}))

\* By confidence, then by how much evidence there is.
FindBySkill(graph, skill, least) ==
    LET found == {k[1] : k \in {k \in DOMAIN graph.edges : k[2] = skill /\ graph.edges[k].confidence >= least}}
        edge == [d \in found |-> graph.edges[<<d, skill>>]]
        more == 1 + Max({0} \cup {edge[d].count : d \in found})
    IN  Limited(BestFirst([d \in found |-> more * edge[d].confidence + edge[d].count]))

HardWork(graph, dev, skill) ==
    {a \in graph.artifacts : a.dev = dev /\ skill \in a.skills /\ a.complexity >= 4}

FindProductionDebuggers(graph, skill) ==
    LET work == [d \in {a.dev : a \in graph.artifacts} |-> Cardinality(HardWork(graph, d, skill))]
    IN  Limited(BestFirst([d \in {d \in DOMAIN work : work[d] >= 2} |->
            10000 * work[d] + EntryOf(graph.edges, <<d, skill>>).confidence]))

\* _heuristic_intent of a query with these hints.
Intent(query) == [skill |-> query.skill, production |-> "production" \in query.hints,
                  complexity |-> IF "debug" \in query.hints THEN 4 ELSE 1]

\* _structured_rows of a query for one skill: broadened rather than empty.
Structured(graph, query) ==
    LET intent == Intent(query)
        debuggers == FindProductionDebuggers(graph, query.skill)
    IN  IF ~intent.production /\ intent.complexity < 4 THEN FindBySkill(graph, query.skill, 500)
        ELSE IF debuggers # <<>> THEN debuggers ELSE FindBySkill(graph, query.skill, 0)

\* The semantic index: the evidence it was built of, and how much that was.
NoIndex == [size |-> 0, evidence |-> {}]

\* Mutant of GetIndex: an index that exists is good enough.
GetIndexOnce(index, graph) ==
    IF index # NoIndex THEN index
    ELSE [size |-> Cardinality(graph.artifacts), evidence |-> graph.artifacts]

GetIndex(index, graph) ==
    IF index.size = Cardinality(graph.artifacts) THEN index
    ELSE [size |-> Cardinality(graph.artifacts), evidence |-> graph.artifacts]

\* Evidence is similar to a query, 1, when the texts share the skill.
Similarity(a, query) == IF query.skill \in a.skills THEN 1 ELSE 0

\* search: the evidence most similar to the query; which of equally similar ones, the code leaves open.
Hits(evidence, query) ==
    CHOOSE hits \in SUBSET evidence :
        /\ Cardinality(hits) = Min({VectorTopK, Cardinality(evidence)})
        /\ \A a \in hits, b \in evidence \ hits : Similarity(a, query) >= Similarity(b, query)

\* developer_ranking: the best similarity of a developer's evidence.
Semantic(index, query) ==
    LET hits == Hits(index.evidence, query)
    IN  BestFirst([d \in {a.dev : a \in hits} |-> Max({Similarity(a, query) : a \in {a \in hits : a.dev = d}})])

\* Reciprocal rank fusion of the two orders, best first; credits are in millionths.
Million == Unit * Unit
Credit(order, d) ==
    LET at == {i \in DOMAIN order : order[i] = d}
    IN  IF at = {} THEN 0 ELSE Million \div (RrfK + Min(at))
Fused(structured, semantic) ==
    BestFirst([d \in Range(structured) \cup Range(semantic) |->
        Credit(structured, d) + Credit(semantic, d)])

\* natural_language_to_results: the candidates in order, as many as the intent asks for.
Answer(graph, index, query) ==
    Limited(Fused(Structured(graph, query), Semantic(GetIndex(index, graph), query)))
=============================================================================
